----------------------------- MODULE QueryCache -----------------------------
(***************************************************************************)
(* The three caches between browsers and the database:                     *)
(*   "monitor"    s1_monitor cache.py, called from worker threads          *)
(*   "marketing"  marketing_display main.py, one entry and one asyncio     *)
(*                lock per page                                            *)
(*   "kpi"        scan_fleet_dashboard main.py, a dict used between awaits *)
(* They look alike and differ in what they do under a slow or failing      *)
(* database: whether one request builds at a time, whether the entry is    *)
(* dated before or after the build, and what a failed build answers.       *)
(* A payload is represented by the time from which its queries may date.   *)
(***************************************************************************)
EXTENDS Naturals, FiniteSets, FiniteSetsExt, Functions

CONSTANTS Request,     \* HTTP requests under way
          Page,        \* keys
          Unknown,     \* pages of devices that do not exist: payload None
          Ttl,
          MaxEntries,  \* Cache.MAX_ENTRIES
          MaxFlips,    \* bound: outages of the database
          Horizon      \* bound: the last moment

ASSUME QueryCacheAssumption ==
    /\ Unknown \subseteq Page
    /\ Ttl \in Nat /\ MaxEntries \in Nat \ {0}
    /\ MaxFlips \in Nat
    /\ Horizon \in Nat /\ Ttl + 2 <= Horizon

VARIABLES cacheKind,
          clock,     \* time.monotonic()
          entries,   \* page -> its entry, for the pages cached
          requests,
          database,  \* "up" or "down"
          downSince, \* history: when it went down
          lastQuery, \* State.last_query_utc, of the monitor
          flips

cacheVars ==
    <<cacheKind, clock, entries, requests, database, downSince, lastQuery, flips>>

Kinds == {"monitor", "marketing", "kpi"}
Waiting == [phase |-> "waiting"]
Never == 0
-----------------------------------------------------------------------------
(* Entries: stamp decides the age, looked is when the builder began, took  *)
(* how long after that the entry was stamped.                              *)

(* marketing_display builds the statistics once at start-up, but leaves    *)
(* the entry dated 0 (lifespan).                                           *)
Primed(start) ==
    {[p \in {page} |-> [stamp |-> 0, looked |-> start, took |-> 0]] : page \in Page}

CacheInit ==
    /\ cacheKind \in Kinds
    /\ \/ clock = 1 /\ entries = [p \in {} |-> <<>>]
       \/ /\ cacheKind = "marketing"
          /\ clock \in {1, Ttl + 2}  \* since the host started
          /\ entries \in Primed(clock)
    /\ requests = [r \in Request |-> Waiting]
    /\ database = "up" /\ downSince = Never /\ lastQuery = Never
    /\ flips = 0

(* A request arrives; the monitor reads the clock before its lock. *)
Asks(r, p) ==
    /\ requests[r] = Waiting
    /\ requests' = [requests EXCEPT ![r] =
          [phase |-> "asked", page |-> p, at |-> clock]]
    /\ UNCHANGED <<cacheKind, clock, entries, database, downSince, lastQuery, flips>>

BadLocked(p) == FALSE  \* mutant: the lock is not held across the build

(* The lock of a page is held by the request that builds it. *)
Locked(p) ==
    /\ cacheKind = "marketing"
    /\ \E r \in Request : requests[r].phase = "building" /\ requests[r].page = p

(* The age at which an entry is still served. *)
Fresh(e, at) ==
    IF cacheKind = "kpi" THEN at < e.stamp + Ttl ELSE at <= e.stamp + Ttl

(* What a request got: how long before it the queries began, how   *)
(* late the entry was dated, and whether the answer is flagged.            *)
Answer(p, at, e, stale) ==
    [phase |-> "answered", page |-> p,
     age |-> IF at > e.looked THEN at - e.looked ELSE 0,
     took |-> e.took, stale |-> stale]

(* A request looks into the cache: it is answered, or starts to build and  *)
(* remembers the entry it saw.                                             *)
LooksUp(r) ==
    /\ requests[r].phase = "asked"
    /\ LET p == requests[r].page
           at == IF cacheKind = "monitor" THEN requests[r].at ELSE clock
           cached == IF p \in DOMAIN entries THEN {entries[p]} ELSE {}
       IN  /\ ~Locked(p)
           /\ \/ \E e \in cached :
                    /\ Fresh(e, at)
                    /\ requests' = [requests EXCEPT ![r] =
                          Answer(p, at, e, FALSE)]
              \/ /\ \A e \in cached : ~Fresh(e, at)
                 /\ requests' = [requests EXCEPT ![r] =
                       [phase |-> "building", page |-> p, at |-> at,
                        looked |-> clock, seen |-> cached]]
    /\ UNCHANGED <<cacheKind, clock, entries, database, downSince, lastQuery, flips>>

BadKept(e) == {DOMAIN e}  \* mutant: nothing is removed

(* What an insertion leaves: the monitor removes the oldest entries.       *)
Kept(e) ==
    IF cacheKind = "monitor" /\ Cardinality(DOMAIN e) > MaxEntries
    THEN {k \in SUBSET DOMAIN e :
             /\ Cardinality(k) = MaxEntries
             /\ \A p \in k, q \in DOMAIN e \ k : e[q].stamp <= e[p].stamp}
    ELSE {DOMAIN e}

BadStamp(r) == clock  \* mutant: the monitor dates entries when they are stored

(* cache.py dates an entry from before its build, the others after it.     *)
Stamp(r) == IF cacheKind = "monitor" THEN requests[r].at ELSE clock

(* The builder returns; the payload is stored and answered. *)
Builds(r) ==
    /\ requests[r].phase = "building"
    /\ database = "up"
    /\ LET q == requests[r]
           stored == [p \in DOMAIN entries \cup {q.page} |->
                        IF p # q.page THEN entries[p]
                        ELSE [stamp |-> Stamp(r), looked |-> q.looked,
                              took |-> IF cacheKind = "monitor" THEN 0
                                       ELSE clock - q.looked]]
       IN  /\ \E k \in Kept(stored) : entries' = Restrict(stored, k)
           /\ requests' = [requests EXCEPT ![r] =
                 Answer(q.page, q.at, stored[q.page], FALSE)]
    /\ lastQuery' = IF cacheKind = "monitor" THEN clock ELSE Never
    /\ UNCHANGED <<cacheKind, clock, database, downSince, flips>>

BadBuildFailsCounts(r) ==  \* mutant: last_query_utc is set before the query
    /\ requests[r].phase = "building"
    /\ database = "down"
    /\ requests' = [requests EXCEPT ![r] = [phase |-> "error"]]
    /\ lastQuery' = clock
    /\ UNCHANGED <<cacheKind, clock, entries, database, downSince, flips>>

BadBuildFailsHangs(r) ==  \* mutant: an error leaves the lock taken
    /\ requests[r].phase = "building"
    /\ database = "down" /\ requests[r].seen # {}
    /\ requests' = [requests EXCEPT ![r] = [@ EXCEPT !.seen = {}]]
    /\ UNCHANGED <<cacheKind, clock, entries, database, downSince, lastQuery, flips>>

(* The builder raises: the monitor and the marketing display answer with   *)
(* the entry they saw, flagged unless it is None; otherwise it is an error.*)
BuildFails(r) ==
    /\ requests[r].phase = "building"
    /\ database = "down"
    /\ LET q == requests[r]
           served == IF cacheKind = "kpi" THEN {} ELSE q.seen
       IN  requests' = [requests EXCEPT ![r] =
              IF served = {} THEN [phase |-> "error"]
              ELSE LET e == CHOOSE e \in served : TRUE
                   IN  Answer(q.page, q.at, e, q.page \notin Unknown)]
    /\ UNCHANGED <<cacheKind, clock, entries, database, downSince, lastQuery, flips>>

(* The response is sent. *)
Finishes(r) ==
    /\ requests[r].phase \in {"answered", "error"}
    /\ requests' = [requests EXCEPT ![r] = Waiting]
    /\ UNCHANGED <<cacheKind, clock, entries, database, downSince, lastQuery, flips>>

ClockTicks ==
    /\ clock < Horizon
    /\ clock' = clock + 1
    /\ UNCHANGED <<cacheKind, entries, requests, database, downSince, lastQuery, flips>>

DatabaseFlips ==
    /\ flips < MaxFlips
    /\ flips' = flips + 1
    /\ database' = IF database = "up" THEN "down" ELSE "up"
    /\ downSince' = IF database = "up" THEN clock ELSE Never
    /\ UNCHANGED <<cacheKind, clock, entries, requests, lastQuery>>

RequestStep(r) == LooksUp(r) \/ Builds(r) \/ BuildFails(r) \/ Finishes(r)

CacheNext ==
    \/ \E r \in Request : (\E p \in Page : Asks(r, p)) \/ RequestStep(r)
    \/ ClockTicks
    \/ DatabaseFlips

(* A query ends: the drivers have timeouts.  The lock is first come, first *)
(* served, so a waiting request gets it although others keep coming.       *)
CacheFairness ==
    \A r \in Request :
        /\ SF_cacheVars(LooksUp(r))
        /\ WF_cacheVars(Builds(r) \/ BuildFails(r) \/ Finishes(r))

CacheSpec == CacheInit /\ [][CacheNext]_cacheVars /\ CacheFairness

(* GET /health of the monitor. *)
Health ==
    IF \/ lastQuery # Never /\ clock <= lastQuery + 3 * Ttl
       \/ database = "up"
    THEN "ok" ELSE "degraded"
-----------------------------------------------------------------------------
(* Type invariant of the caches, with the cap on the monitor's entries.    *)
CacheTypeOK ==
    /\ cacheKind \in Kinds /\ clock \in 1 .. Horizon
    /\ DOMAIN entries \subseteq Page
    /\ \A p \in DOMAIN entries :
          entries[p] \in [stamp : 0 .. clock, looked : 1 .. clock, took : 0 .. clock]
    /\ cacheKind = "monitor" => Cardinality(DOMAIN entries) <= MaxEntries
    /\ \A r \in Request :
          requests[r].phase \in {"waiting", "asked", "building", "answered", "error"}

(* An answer that is not flagged stale rests on queries that began no more *)
(* than the TTL before the request, plus, for the caches that date an      *)
(* entry after its build, the time that build took: neither a slow builder *)
(* that overwrites a newer entry nor a build that fails makes an old       *)
(* answer look new (cache.py:30, main.py).                                 *)
AnswersAreFresh ==
    \A r \in Request :
        requests[r].phase = "answered" /\ ~requests[r].stale
            /\ requests[r].page \notin Unknown
        => requests[r].age <= Ttl + requests[r].took

(* However many browsers ask the marketing display for a page at once, one *)
(* build of it runs (marketing_display main.py:474).                       *)
OneBuilder ==
    cacheKind = "marketing" =>
        \A r, o \in Request :
            /\ requests[r].phase = "building" /\ requests[o].phase = "building"
            /\ requests[r].page = requests[o].page
            => r = o

(* What browsers can cause is bounded: however many ids the URLs name, the *)
(* monitor keeps MAX_ENTRIES payloads; however many ask at once, the       *)
(* marketing display builds a page once.                                   *)
CachesAreBounded == CacheTypeOK /\ OneBuilder

(* The monitor's health check does not stay green on old queries: when the *)
(* database has been down for more than three TTLs it says so, whatever    *)
(* the cache still serves.                                                 *)
HealthIsHonest ==
    /\ cacheKind = "monitor" /\ database = "down" /\ clock > downSince + 3 * Ttl
    => Health = "degraded"

(* Every request is answered, with a payload or an error: a builder that   *)
(* fails gives its lock back.                                              *)
EveryRequestAnswered ==
    \A r \in Request :
        requests[r].phase = "asked" ~> requests[r].phase \in {"answered", "error"}
=============================================================================
