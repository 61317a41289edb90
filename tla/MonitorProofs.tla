--------------------------- MODULE MonitorProofs ---------------------------
(***************************************************************************)
(* Proofs about the parts of the web pages: QueryCache, for any number of  *)
(* requests, pages and outages and any time to live; Snapshots, for every  *)
(* interval and retention and any number of failed calls and restarts; and *)
(* Telemetry, for every fleet, every packet, however late or ahead, every  *)
(* offset and any length of days, weeks and months.                        *)
(*                                                                         *)
(* The first two have an inductive invariant each.  In the third the pages *)
(* are operators over the rows: that they agree follows from what their    *)
(* sums by key add up to (NumberProofs!SumGroups) and from where each of   *)
(* their clocks cuts a day, for whatever rows there are.                   *)
(***************************************************************************)
EXTENDS QueryCache, Snapshots, Telemetry, NumberProofs, FiniteSetTheorems, TLAPS
-----------------------------------------------------------------------------
(* QueryCache.                                                             *)
(* An entry is dated no later than its build took after its queries began. *)
EntryOK(e) ==
    /\ e \in [stamp : 0 .. clock, looked : 1 .. clock, took : 0 .. clock]
    /\ e.stamp <= e.looked + e.took

(* What a request carries from step to step. *)
RequestOK(q) ==
    \/ q = Waiting
    \/ q = [phase |-> "error"]
    \/ q \in [phase : {"asked"}, page : Page, at : 1 .. clock]
    \/ /\ q.phase = "building" /\ q.page \in Page
       /\ q.at \in 1 .. clock /\ q.looked \in q.at .. clock
       /\ \A e \in q.seen : EntryOK(e)
    \/ /\ q.phase = "answered"
       /\ q.stale \/ q.page \in Unknown \/ q.age <= Ttl + q.took

(* The inductive invariant.  That an answer is fresh depends on how its    *)
(* entry was dated when it was built.                                      *)
CacheIInv ==
    /\ cacheKind \in Kinds /\ clock \in 1 .. Horizon
    /\ DOMAIN entries \subseteq Page /\ IsFiniteSet(DOMAIN entries)
    /\ \A p \in DOMAIN entries : EntryOK(entries[p])
    /\ cacheKind = "monitor" => Cardinality(DOMAIN entries) <= MaxEntries
    /\ DOMAIN requests = Request
    /\ requests = [r \in Request |-> requests[r]]
    /\ \A r \in Request : RequestOK(requests[r])
    /\ OneBuilder

(* A request whose next state is well formed keeps the invariant, if it    *)
(* does not come to build a page that another builds under a lock.         *)
LEMMA RequestKeeps ==
    ASSUME CacheIInv, NEW r \in Request, NEW q,
           UNCHANGED <<cacheKind, clock, entries>>,
           requests' = [requests EXCEPT ![r] = q],
           RequestOK(q),
           q.phase = "building" => ~Locked(q.page)
    PROVE  CacheIInv'
<1>1. \A o \in Request : requests'[o] = IF o = r THEN q ELSE requests[o]
  BY DEF CacheIInv
<1>2. \A o \in Request : RequestOK(requests[o])' /\ DOMAIN requests' = Request
  BY <1>1 DEF CacheIInv, RequestOK, EntryOK
<1>3. requests' = [o \in Request |-> requests'[o]]
  BY DEF CacheIInv
<1>4. OneBuilder'
  BY <1>1 DEF CacheIInv, OneBuilder, Locked
<1> QED
  BY <1>2, <1>3, <1>4 DEF CacheIInv, EntryOK

LEMMA CacheInitIInv == CacheInit => CacheIInv
<1> SUFFICES ASSUME CacheInit
             PROVE  CacheIInv
  OBVIOUS
<1>0. /\ Ttl \in Nat /\ Horizon \in Nat /\ Ttl + 2 <= Horizon
      /\ MaxEntries \in Nat
  BY QueryCacheAssumption
<1>1. clock \in 1 .. Horizon /\ cacheKind \in Kinds
  BY <1>0 DEF CacheInit
<1>2. CASE entries = [p \in {} |-> <<>>]
  BY <1>0, <1>1, <1>2, FS_EmptySet DEF CacheInit, CacheIInv, RequestOK, Waiting, OneBuilder
<1>3. CASE cacheKind = "marketing" /\ entries \in Primed(clock)
  <2>1. PICK page \in Page :
            entries = [p \in {page} |-> [stamp |-> 0, looked |-> clock, took |-> 0]]
    BY <1>3 DEF Primed
  <2>2. DOMAIN entries = {page} /\ IsFiniteSet({page})
    BY <2>1, FS_Singleton
  <2>3. \A p \in DOMAIN entries : EntryOK(entries[p])
    BY <1>0, <1>1, <2>1 DEF EntryOK
  <2> QED
    BY <1>1, <1>3, <2>2, <2>3 DEF CacheInit, CacheIInv, RequestOK, Waiting, OneBuilder
<1> QED
  BY <1>2, <1>3 DEF CacheInit

(* An answer from an entry that is still served is fresh. *)
LEMMA FreshAnswer ==
    ASSUME CacheIInv, NEW p, NEW at \in 1 .. clock, NEW e, EntryOK(e), Fresh(e, at),
           NEW s
    PROVE  Answer(p, at, e, s).age <= Ttl + Answer(p, at, e, s).took
<1>1. /\ e.stamp \in Nat /\ e.looked \in Nat /\ e.took \in Nat /\ Ttl \in Nat
      /\ at \in Nat /\ e.stamp <= e.looked + e.took /\ at <= e.stamp + Ttl
  <2>1. clock \in Nat /\ Ttl \in Nat
    BY QueryCacheAssumption DEF CacheIInv
  <2> QED
    BY <2>1 DEF EntryOK, Fresh
<1>2. Answer(p, at, e, s).took = e.took
  BY DEF Answer
<1>3. CASE at > e.looked
  BY <1>1, <1>2, <1>3 DEF Answer
<1>4. CASE ~(at > e.looked)
  BY <1>1, <1>2, <1>4 DEF Answer
<1> QED
  BY <1>3, <1>4

LEMMA CacheNextIInv == CacheIInv /\ [CacheNext]_cacheVars => CacheIInv'
<1> SUFFICES ASSUME CacheIInv, [CacheNext]_cacheVars
             PROVE  CacheIInv'
  OBVIOUS
<1>0. /\ clock \in 1 .. Horizon /\ Horizon \in Nat /\ Ttl \in Nat /\ MaxEntries \in Nat
      /\ \A p \in DOMAIN entries : EntryOK(entries[p])
      /\ \A r \in Request : RequestOK(requests[r])
  BY QueryCacheAssumption DEF CacheIInv
<1>1. ASSUME NEW r \in Request, NEW p \in Page, Asks(r, p)
      PROVE  CacheIInv'
  <2> DEFINE q == [phase |-> "asked", page |-> p, at |-> clock]
  <2>1. RequestOK(q) /\ q.phase # "building"
    BY <1>0 DEF RequestOK
  <2>2. requests' = [requests EXCEPT ![r] = q] /\ UNCHANGED <<cacheKind, clock, entries>>
    BY <1>1 DEF Asks
  <2> HIDE DEF q
  <2> QED
    BY <2>1, <2>2, RequestKeeps
<1>2. ASSUME NEW r \in Request, LooksUp(r)
      PROVE  CacheIInv'
  <2> DEFINE p == requests[r].page
             at == IF cacheKind = "monitor" THEN requests[r].at ELSE clock
             cached == IF p \in DOMAIN entries THEN {entries[p]} ELSE {}
             b == [phase |-> "building", page |-> p, at |-> at,
                   looked |-> clock, seen |-> cached]
  <2>1. requests[r].phase = "asked" /\ ~Locked(p)
    BY <1>2 DEF LooksUp
  <2>2. requests[r] \in [phase : {"asked"}, page : Page, at : 1 .. clock]
    BY <1>0, <2>1 DEF RequestOK, Waiting
  <2>3. p \in Page /\ at \in 1 .. clock /\ \A e \in cached : EntryOK(e)
    BY <1>0, <2>2
  <2>4. UNCHANGED <<cacheKind, clock, entries>>
    BY <1>2 DEF LooksUp
  <2>5. \/ \E e \in cached :
              Fresh(e, at) /\ requests' = [requests EXCEPT ![r] = Answer(p, at, e, FALSE)]
        \/ requests' = [requests EXCEPT ![r] = b]
    BY <1>2 DEF LooksUp
  <2>6. CASE \E e \in cached :
              Fresh(e, at) /\ requests' = [requests EXCEPT ![r] = Answer(p, at, e, FALSE)]
    <3>1. PICK e \in cached :
              Fresh(e, at) /\ requests' = [requests EXCEPT ![r] = Answer(p, at, e, FALSE)]
      BY <2>6
    <3>2. Answer(p, at, e, FALSE).age <= Ttl + Answer(p, at, e, FALSE).took
      <4> HIDE DEF p, at, cached, b
      <4> QED BY <2>3, <3>1, FreshAnswer
    <3>3. Answer(p, at, e, FALSE).phase = "answered"
      BY DEF Answer
    <3> HIDE DEF p, at, cached, b
    <3>4. RequestOK(Answer(p, at, e, FALSE))
      BY <3>2, <3>3 DEF RequestOK
    <3> QED
      BY <2>4, <3>1, <3>3, <3>4, RequestKeeps
  <2>7. CASE requests' = [requests EXCEPT ![r] = b]
    <3>1. RequestOK(b) /\ b.page = p
      BY <1>0, <2>3 DEF RequestOK
    <3> HIDE DEF p, at, cached, b
    <3> QED
      BY <2>1, <2>4, <2>7, <3>1, RequestKeeps
  <2> QED
    BY <2>5, <2>6, <2>7
<1>3. ASSUME NEW r \in Request, Builds(r)
      PROVE  CacheIInv'
  <2> DEFINE q == requests[r]
             built == [stamp |-> Stamp(r), looked |-> q.looked,
                       took |-> IF cacheKind = "monitor" THEN 0 ELSE clock - q.looked]
             stored == [p \in DOMAIN entries \cup {q.page} |->
                          IF p # q.page THEN entries[p] ELSE built]
             a == Answer(q.page, q.at, stored[q.page], FALSE)
  <2>1. /\ q.phase = "building"
        /\ \E k \in Kept(stored) : entries' = Restrict(stored, k)
        /\ requests' = [requests EXCEPT ![r] = a]
        /\ cacheKind' = cacheKind /\ clock' = clock
    BY <1>3 DEF Builds
  <2>2. /\ q.page \in Page /\ q.at \in 1 .. clock /\ q.looked \in q.at .. clock
    BY <1>0, <2>1 DEF RequestOK, Waiting
  <2>3. EntryOK(built) /\ built.looked = q.looked
    BY <1>0, <2>2 DEF EntryOK, Stamp
  <2>4. \A p \in DOMAIN stored : EntryOK(stored[p])
    BY <1>0, <2>3
  <2>5. stored[q.page] = built /\ DOMAIN stored = DOMAIN entries \cup {q.page}
    OBVIOUS
  <2>6. RequestOK(a) /\ a.phase = "answered"
    <3>1. ~(q.at > built.looked)
      BY <1>0, <2>2, <2>3
    <3>2. a.phase = "answered" /\ a.age = 0 /\ a.took = built.took
      BY <2>5, <3>1 DEF Answer
    <3>3. built.took \in Nat
      BY <1>0, <2>3 DEF EntryOK
    <3> HIDE DEF a, built
    <3>4. a.age <= Ttl + a.took
      BY <1>0, <3>2, <3>3
    <3> QED
      BY <3>2, <3>4 DEF RequestOK
  <2>7. IsFiniteSet(DOMAIN stored) /\ DOMAIN stored \subseteq Page
    BY <2>2, <2>5, FS_AddElement DEF CacheIInv
  <2> HIDE DEF stored, built, a
  <2>8. PICK k \in Kept(stored) : entries' = Restrict(stored, k)
    BY <2>1
  <2>9. /\ k \subseteq DOMAIN stored
        /\ cacheKind = "monitor" =>
              Cardinality(k) = MaxEntries \/ (k = DOMAIN stored
                  /\ ~(Cardinality(DOMAIN stored) > MaxEntries))
    BY <2>8 DEF Kept
  <2>10. DOMAIN entries' = k /\ \A p \in k : entries'[p] = stored[p]
    BY <2>8 DEF Restrict
  <2>11. /\ DOMAIN entries' \subseteq Page /\ IsFiniteSet(DOMAIN entries')
         /\ \A p \in DOMAIN entries' : EntryOK(entries'[p])
         /\ cacheKind = "monitor" => Cardinality(DOMAIN entries') <= MaxEntries
    <3>1. Cardinality(DOMAIN stored) \in Nat
      BY <2>7, FS_CardinalityType
    <3>2. IsFiniteSet(k)
      BY <2>7, <2>9, FS_Subset
    <3> QED
      BY <1>0, <2>4, <2>7, <2>9, <2>10, <3>1, <3>2
  <2>12. \A o \in Request : requests'[o] = IF o = r THEN a ELSE requests[o]
    BY <2>1 DEF CacheIInv
  <2>13. \A o \in Request : RequestOK(requests[o])'
    BY <2>1, <2>6, <2>12 DEF CacheIInv, RequestOK, EntryOK
  <2>14. DOMAIN requests' = Request /\ requests' = [o \in Request |-> requests'[o]]
    BY <2>1 DEF CacheIInv
  <2>15. OneBuilder'
    BY <2>1, <2>6, <2>12 DEF CacheIInv, OneBuilder
  <2> QED
    BY <2>1, <2>11, <2>13, <2>14, <2>15 DEF CacheIInv, EntryOK
<1>4. ASSUME NEW r \in Request, BuildFails(r)
      PROVE  CacheIInv'
  <2> DEFINE q == requests[r]
             served == IF cacheKind = "kpi" THEN {} ELSE q.seen
             e == CHOOSE e \in served : TRUE
             a == Answer(q.page, q.at, e, q.page \notin Unknown)
  <2>1. requests' = [requests EXCEPT ![r] =
              IF served = {} THEN [phase |-> "error"] ELSE a]
        /\ UNCHANGED <<cacheKind, clock, entries>>
    BY <1>4 DEF BuildFails
  <2>2. /\ a.phase = "answered" /\ a.page = q.page
        /\ a.stale = (q.page \notin Unknown)
    BY DEF Answer
  <2> HIDE DEF a, served
  <2>3. RequestOK(a)
    BY <2>2 DEF RequestOK
  <2>4. RequestOK([phase |-> "error"])
    BY DEF RequestOK
  <2>5. CASE served = {}
    BY <2>1, <2>4, <2>5, RequestKeeps
  <2>6. CASE served # {}
    BY <2>1, <2>2, <2>3, <2>6, RequestKeeps
  <2> QED
    BY <2>5, <2>6
<1>5. ASSUME NEW r \in Request, Finishes(r)
      PROVE  CacheIInv'
  <2>1. RequestOK(Waiting) /\ Waiting.phase # "building"
    BY DEF RequestOK, Waiting
  <2>2. requests' = [requests EXCEPT ![r] = Waiting] /\ UNCHANGED <<cacheKind, clock, entries>>
    BY <1>5 DEF Finishes
  <2> QED
    BY <2>1, <2>2, RequestKeeps
<1>6. CASE ClockTicks
  <2>1. /\ clock' = clock + 1 /\ clock' \in 1 .. Horizon
        /\ UNCHANGED <<cacheKind, entries, requests>>
    BY <1>0, <1>6 DEF ClockTicks
  <2>2. \A e : EntryOK(e) => EntryOK(e)'
    BY <1>0, <2>1 DEF EntryOK
  <2>3. \A p \in DOMAIN entries : EntryOK(entries[p])'
    BY <1>0, <2>1, <2>2
  <2>4. ASSUME NEW r \in Request
        PROVE  RequestOK(requests[r])'
    <3>1. RequestOK(requests[r])
      BY <1>0
    <3>2. CASE requests[r] \in [phase : {"asked"}, page : Page, at : 1 .. clock]
      <4>1. 1 .. clock \subseteq 1 .. clock'
        BY <1>0, <2>1
      <4> QED
        BY <2>1, <3>2, <4>1 DEF RequestOK
    <3>3. CASE /\ requests[r].phase = "building" /\ requests[r].page \in Page
               /\ requests[r].at \in 1 .. clock
               /\ requests[r].looked \in requests[r].at .. clock
               /\ \A e \in requests[r].seen : EntryOK(e)
      <4>1. /\ requests[r].at \in 1 .. clock'
            /\ requests[r].looked \in requests[r].at .. clock'
        BY <1>0, <2>1, <3>3
      <4> QED
        BY <2>1, <2>2, <3>3, <4>1 DEF RequestOK
    <3> QED
      BY <2>1, <3>1, <3>2, <3>3 DEF RequestOK, Waiting
  <2> QED
    BY <2>1, <2>3, <2>4 DEF CacheIInv, OneBuilder
<1>7. CASE DatabaseFlips \/ UNCHANGED cacheVars
  <2>1. UNCHANGED <<cacheKind, clock, entries, requests>>
    BY <1>7 DEF DatabaseFlips, cacheVars
  <2> QED
    BY <2>1 DEF CacheIInv, OneBuilder, EntryOK, RequestOK
<1> QED
  BY <1>1, <1>2, <1>3, <1>4, <1>5, <1>6, <1>7 DEF CacheNext, RequestStep

-----------------------------------------------------------------------------
(* The inductive invariant holds in every behaviour. *)
THEOREM CacheInvariant == CacheSpec => []CacheIInv
<1>1. CacheInit => CacheIInv
  BY CacheInitIInv
<1>2. CacheIInv /\ [CacheNext]_cacheVars => CacheIInv'
  BY CacheNextIInv
<1> QED
  BY <1>1, <1>2, PTL DEF CacheSpec

(* The type invariant, with the cap on the entries of the monitor, for any *)
(* number of pages (Cache.MAX_ENTRIES).                                    *)
THEOREM CacheTypeCorrect == CacheSpec => []CacheTypeOK
<1>1. CacheIInv => CacheTypeOK
  BY DEF CacheIInv, CacheTypeOK, EntryOK, RequestOK, Waiting
<1> QED
  BY <1>1, CacheInvariant, PTL

(* No answer that is not flagged is older than the TTL, but for the time a *)
(* build took where entries are dated after it (cache.py:30).              *)
THEOREM UnflaggedIsFresh == CacheSpec => []AnswersAreFresh
<1>1. CacheIInv => AnswersAreFresh
  BY DEF CacheIInv, AnswersAreFresh, RequestOK, Waiting
<1> QED
  BY <1>1, CacheInvariant, PTL

(* One request builds a page of the marketing display at a time, for any   *)
(* number of browsers.                                                     *)
THEOREM BuildersTakeTurns == CacheSpec => []OneBuilder
<1>1. CacheIInv => OneBuilder
  BY DEF CacheIInv
<1> QED
  BY <1>1, CacheInvariant, PTL

(* What browsers can cause is bounded, for any number of requests, pages   *)
(* and entries.                                                            *)
THEOREM CachesStayBounded == CacheSpec => []CachesAreBounded
BY CacheTypeCorrect, BuildersTakeTurns, PTL DEF CachesAreBounded
-----------------------------------------------------------------------------
(* The health check of the monitor.                                        *)

(* The last query succeeded before the database went down. *)
HealthIInv ==
    /\ database \in {"up", "down"} /\ lastQuery \in 0 .. clock
    /\ database = "down" => downSince \in 1 .. clock /\ lastQuery <= downSince

(* However long the cache goes on serving, the health check does not stay  *)
(* green on old queries, for any TTL and any number of outages (main.py of *)
(* the monitor).                                                           *)
THEOREM HealthStaysHonest == CacheSpec => []HealthIsHonest
<1>1. CacheInit => HealthIInv
  BY QueryCacheAssumption DEF CacheInit, HealthIInv, Never
<1>2. CacheIInv /\ HealthIInv /\ [CacheNext]_cacheVars => HealthIInv'
  <2> SUFFICES ASSUME CacheIInv, HealthIInv, [CacheNext]_cacheVars
               PROVE  HealthIInv'
    OBVIOUS
  <2>0. clock \in Nat /\ clock >= 1
    BY QueryCacheAssumption DEF CacheIInv
  <2>1. ASSUME NEW r \in Request, Builds(r)
        PROVE  HealthIInv'
    BY <2>0, <2>1 DEF Builds, HealthIInv, Never
  <2>2. ASSUME NEW r \in Request,
               (\E p \in Page : Asks(r, p)) \/ LooksUp(r) \/ BuildFails(r) \/ Finishes(r)
        PROVE  HealthIInv'
    <3>1. UNCHANGED <<clock, database, downSince, lastQuery>>
      BY <2>2 DEF Asks, LooksUp, BuildFails, Finishes
    <3> QED BY <3>1 DEF HealthIInv
  <2>3. CASE ClockTicks
    BY <2>0, <2>3 DEF ClockTicks, HealthIInv
  <2>4. CASE DatabaseFlips
    BY <2>0, <2>4 DEF DatabaseFlips, HealthIInv
  <2>5. CASE UNCHANGED cacheVars
    BY <2>5 DEF cacheVars, HealthIInv
  <2> QED
    BY <2>1, <2>2, <2>3, <2>4, <2>5 DEF CacheNext, RequestStep
<1>3. CacheIInv /\ HealthIInv => HealthIsHonest
  BY QueryCacheAssumption DEF CacheIInv, HealthIInv, HealthIsHonest, Health
<1> QED
  BY <1>1, <1>2, <1>3, CacheInvariant, PTL DEF CacheSpec

-----------------------------------------------------------------------------
(* Snapshots.                                                              *)
(* The inductive invariant.  A prune follows the snapshot of its own pass, *)
(* so it deletes nothing newer than that.                                  *)
SnapIInv ==
    /\ SnapTypeOK /\ step.until \in Nat
    /\ step.at = "prune" => last = start
    /\ LastIsStored

LEMMA SnapInitIInv == SnapInit => SnapIInv
BY SnapshotsAssumption DEF SnapInit, SnapIInv, SnapTypeOK, LastIsStored

(* Pruning keeps the last snapshot when it is the one of this pass. *)
LEMMA PruneKeepsLast ==
    ASSUME SnapIInv, step.at = "prune"
    PROVE  /\ last \in {h \in history : h >= Cutoff}
           /\ {h \in history : h >= Cutoff} \subseteq history
<1>1. /\ start \in Nat /\ Retention \in Nat /\ start # NotYet
      /\ last = start /\ last \in history
  BY SnapshotsAssumption DEF SnapIInv, SnapTypeOK, LastIsStored
<1>2. start >= Cutoff
  BY <1>1 DEF Cutoff
<1> QED
  BY <1>1, <1>2

LEMMA SnapNextIInv == SnapIInv /\ [SnapNext]_snapVars => SnapIInv'
<1> SUFFICES ASSUME SnapIInv, [SnapNext]_snapVars
             PROVE  SnapIInv'
  OBVIOUS
<1>0. /\ SnapTypeOK /\ LastIsStored /\ (step.at = "prune" => last = start)
      /\ Interval \in Nat /\ Warmup \in Nat /\ CallTime \in Nat /\ MaxTime \in Nat
      /\ NotYet \notin Nat /\ step.until \in Nat
  BY SnapshotsAssumption DEF SnapIInv
<1>t. time \in Nat /\ start \in 0 .. time
  BY <1>0 DEF SnapTypeOK
<1>1. CASE TimePasses
  <2>1. SnapTypeOK'
    BY <1>0, <1>t, <1>1 DEF TimePasses, SnapTypeOK
  <2> QED
    BY <1>0, <1>t, <1>1, <2>1 DEF TimePasses, SnapIInv, LastIsStored
<1>2. CASE Migrates
  <2>1. step' = Sleeping(time + Warmup) /\ error' \in {error, "migrate"}
        /\ UNCHANGED <<time, history, start, lastPrune, last>>
    BY <1>2 DEF Migrates
  <2>2. SnapTypeOK'
    BY <1>0, <1>t, <2>1 DEF Sleeping, SnapTypeOK
  <2> QED
    BY <1>0, <1>t, <2>1, <2>2 DEF Sleeping, SnapIInv, LastIsStored
<1>3. CASE Wakes
  <2>1. SnapTypeOK'
    BY <1>0, <1>t, <1>3 DEF Wakes, Calling, SnapTypeOK
  <2> QED
    BY <1>0, <1>t, <1>3, <2>1 DEF Wakes, Calling, SnapIInv, LastIsStored
<1>4. CASE Inserted
  <2>1. /\ history' = history \cup {start} /\ last' = start /\ error' = NotYet
        /\ step' = Calling("prune") \/ step' = Sleeping(time + Interval)
        /\ UNCHANGED <<time, start, lastPrune>>
    BY <1>4 DEF Inserted
  <2>2. SnapTypeOK'
    BY <1>0, <1>t, <2>1 DEF Calling, Sleeping, SnapTypeOK
  <2> QED
    BY <1>0, <1>t, <2>1, <2>2 DEF Calling, Sleeping, SnapIInv, LastIsStored
<1>5. CASE Pruned
  <2>1. /\ step.at = "prune" /\ step' = Sleeping(time + Interval)
        /\ history' = {h \in history : h >= Cutoff} /\ lastPrune' = start
        /\ UNCHANGED <<time, start, last, error>>
    BY <1>5 DEF Pruned
  <2>2. last \in history' /\ history' \subseteq history
    BY <2>1, PruneKeepsLast
  <2>3. SnapTypeOK'
    <3>1. /\ step'.at = "sleep" /\ step'.until = time + Interval
          /\ lastPrune' = start /\ UNCHANGED <<time, start, last, error>>
      BY <2>1 DEF Sleeping
    <3> QED
      BY <1>0, <1>t, <2>2, <3>1 DEF SnapTypeOK
  <2> QED
    BY <1>0, <1>t, <2>1, <2>2, <2>3 DEF Sleeping, SnapIInv, LastIsStored
<1>6. CASE CallFails
  <2>1. /\ step.at \in {"insert", "prune"} /\ error' = step.at
        /\ step' = Sleeping(time + Interval)
        /\ UNCHANGED <<time, start, lastPrune, last>>
        /\ \/ history' = history \/ history' = history \cup {start}
           \/ step.at = "prune" /\ history' = {h \in history : h >= Cutoff}
    BY <1>6 DEF CallFails
  <2>2. /\ history' \subseteq history \cup {start}
        /\ last # NotYet => last \in history'
    BY <1>0, <1>t, <2>1, PruneKeepsLast DEF LastIsStored
  <2>3. SnapTypeOK'
    BY <1>0, <1>t, <2>1, <2>2 DEF Sleeping, SnapTypeOK
  <2> QED
    BY <1>0, <1>t, <2>1, <2>2, <2>3 DEF Sleeping, SnapIInv, LastIsStored
<1>7. CASE Restarts
  <2>1. /\ step' = Calling("migrate")
        /\ lastPrune' = NotYet /\ last' = NotYet /\ error' = NotYet
        /\ UNCHANGED <<time, start>>
        /\ \/ history' = history \/ history' = history \cup {start}
           \/ history' = {h \in history : h >= Cutoff}
    BY <1>7 DEF Restarts
  <2>2. history' \subseteq history \cup {start}
    BY <2>1
  <2>3. SnapTypeOK'
    BY <1>0, <1>t, <2>1, <2>2 DEF Calling, SnapTypeOK
  <2> QED
    BY <1>0, <1>t, <2>1, <2>3 DEF Calling, SnapIInv, LastIsStored
<1>8. CASE UNCHANGED snapVars
  BY <1>0, <1>t, <1>8 DEF snapVars, SnapIInv, SnapTypeOK, LastIsStored
<1> QED
  BY <1>1, <1>2, <1>3, <1>4, <1>5, <1>6, <1>7, <1>8 DEF SnapNext
-----------------------------------------------------------------------------
(* The inductive invariant holds in every behaviour. *)
THEOREM SnapInvariant == SnapSpec => []SnapIInv
<1>1. SnapInit => SnapIInv
  BY SnapInitIInv
<1>2. SnapIInv /\ [SnapNext]_snapVars => SnapIInv'
  BY SnapNextIInv
<1> QED
  BY <1>1, <1>2, PTL DEF SnapSpec

(* The type invariant of the snapshot task. *)
THEOREM SnapTypeCorrect == SnapSpec => []SnapTypeOK
<1>1. SnapIInv => SnapTypeOK
  BY DEF SnapIInv
<1> QED
  BY <1>1, SnapInvariant, PTL

(* The snapshot the health check names is in the table, whatever calls     *)
(* fail and whenever the container restarts, for every retention (even     *)
(* none at all).                                                           *)
THEOREM LastStaysStored == SnapSpec => []LastIsStored
<1>1. SnapIInv => LastIsStored
  BY DEF SnapIInv
<1> QED
  BY <1>1, SnapInvariant, PTL
-----------------------------------------------------------------------------
(* The history is current.                                                 *)

(* How long the calls of a pass may take. *)
PassOK ==
    /\ calm \in 0 .. time
    /\ lastPrune # NotYet => lastPrune <= start
    /\ step.at = "insert" => step.until <= start + CallTime
    /\ step.at = "prune" => step.until <= start + 2 * CallTime

(* Since the last failure or restart there was no snapshot yet ...         *)
NoneSinceCalm ==
    /\ step.at \in {"migrate", "sleep", "insert"}
    /\ step.at = "migrate" => step.until <= calm + CallTime
    /\ step.at = "sleep" => step.until <= calm + CallTime + Warmup + Interval
    /\ step.at = "insert" => step.until <= calm + 2 * CallTime + Warmup + Interval

(* ... or the last one, at h, was in this pass or in the one before.       *)
LastTakenAt(h) ==
    /\ step.at \in {"sleep", "insert", "prune"}
    /\ step.at = "prune" => h = start
    /\ step.at = "sleep" => step.until <= h + Pass
    /\ step.at = "insert" => start <= h + Pass

TakenIInv == NoneSinceCalm \/ \E h \in history : LastTakenAt(h)

(* Since the last failure or restart nothing was deleted yet ...           *)
NoPruneSinceCalm ==
    /\ lastPrune # NotYet => lastPrune <= calm
    /\ step.at = "migrate" => step.until <= calm + CallTime
    /\ step.at = "sleep" => step.until <= calm + Warmup + PruneEvery + Pass
    /\ step.at \in {"insert", "prune"} => start <= calm + Warmup + PruneEvery + Pass

(* ... or what is left is not older than the last deletion allows, and the *)
(* next one is not due or is under way.                                    *)
PrunedInTime ==
    /\ lastPrune # NotYet
    /\ \A h \in history : lastPrune <= h + Retention
    /\ step.at \in {"sleep", "insert", "prune"}
    /\ step.at = "sleep" => step.until <= lastPrune + PruneEvery + Pass
    /\ step.at \in {"insert", "prune"} => start <= lastPrune + PruneEvery + Pass

CurrentIInv ==
    /\ PassOK
    /\ TakenIInv
    /\ NoPruneSinceCalm \/ PrunedInTime

LEMMA CurrentNext == SnapIInv /\ CurrentIInv /\ [SnapNext]_snapVars => CurrentIInv'
<1> SUFFICES ASSUME SnapIInv, CurrentIInv, [SnapNext]_snapVars
             PROVE  CurrentIInv'
  OBVIOUS
<1>0. /\ Interval \in Nat /\ Interval > 0 /\ PruneEvery \in Nat /\ PruneEvery > 0
      /\ Retention \in Nat /\ Warmup \in Nat /\ CallTime \in Nat /\ NotYet \notin Nat
      /\ Pass = Interval + 2 * CallTime
  BY SnapshotsAssumption DEF Pass
<1>1. /\ time \in Nat /\ start \in Nat /\ start <= time /\ calm \in Nat /\ calm <= time
      /\ step.until \in Nat /\ time <= step.until
      /\ \A h \in history : h \in Nat
      /\ lastPrune = NotYet \/ lastPrune \in Nat
      /\ step.at = "prune" => start \in history
  BY SnapshotsAssumption DEF SnapIInv, SnapTypeOK, LastIsStored, CurrentIInv, PassOK
<1>2. PassOK /\ TakenIInv /\ (NoPruneSinceCalm \/ PrunedInTime)
  BY DEF CurrentIInv
(* A failure or a restart: a new calm begins. *)
<1>3. ASSUME Break, UNCHANGED <<time, start>>,
             lastPrune' \in {lastPrune, NotYet},
             \/ step' = Sleeping(time + Interval) \/ step' = Sleeping(time + Warmup)
             \/ step' = Calling("migrate")
      PROVE  CurrentIInv'
  <2>1. /\ calm' = time /\ time' = time /\ start' = start
        /\ \/ step'.at = "sleep" /\ step'.until = time + Interval
           \/ step'.at = "sleep" /\ step'.until = time + Warmup
           \/ step'.at = "migrate" /\ step'.until = time + CallTime
    BY <1>3 DEF Break, Sleeping, Calling
  <2>2. PassOK'
    BY <1>0, <1>1, <1>2, <1>3, <2>1 DEF PassOK
  <2>3. NoneSinceCalm'
    BY <1>0, <1>1, <2>1 DEF NoneSinceCalm
  <2>4. NoPruneSinceCalm'
    BY <1>0, <1>1, <1>2, <1>3, <2>1 DEF NoPruneSinceCalm, PassOK
  <2> QED BY <2>2, <2>3, <2>4 DEF CurrentIInv, TakenIInv
<1>4. CASE TimePasses
  <2>1. /\ time' = time + 1 /\ UNCHANGED <<history, step, start, lastPrune, calm>>
    BY <1>4 DEF TimePasses
  <2> QED
    BY <1>1, <1>2, <2>1 DEF CurrentIInv, PassOK, TakenIInv, NoneSinceCalm, LastTakenAt,
       NoPruneSinceCalm, PrunedInTime
<1>5. CASE Migrates
  <2>1. CASE Break
    BY <1>3, <1>5, <2>1 DEF Migrates
  <2>2. CASE NoBreak
    <3>1. /\ step.at = "migrate" /\ step'.at = "sleep" /\ step'.until = time + Warmup
          /\ UNCHANGED <<time, history, start, lastPrune, calm>>
      BY <1>5, <2>2 DEF Migrates, NoBreak, Sleeping
    <3>2. PassOK'
      BY <1>2, <3>1 DEF PassOK
    <3>3. NoneSinceCalm /\ NoPruneSinceCalm
      BY <1>2, <3>1 DEF TakenIInv, LastTakenAt, PrunedInTime
    <3>4. NoneSinceCalm' /\ NoPruneSinceCalm'
      BY <1>0, <1>1, <3>1, <3>3 DEF NoneSinceCalm, NoPruneSinceCalm
    <3> QED BY <3>2, <3>4 DEF CurrentIInv, TakenIInv
  <2> QED BY <1>5, <2>1, <2>2 DEF Migrates
<1>6. CASE Wakes
  <2>1. /\ step.at = "sleep" /\ time = step.until /\ start' = time
        /\ step'.at = "insert" /\ step'.until = time + CallTime
        /\ UNCHANGED <<time, history, lastPrune, calm>>
    BY <1>6 DEF Wakes, NoBreak, Calling
  <2>2. PassOK'
    BY <1>0, <1>1, <1>2, <2>1 DEF PassOK
  <2>3. TakenIInv'
    <3>1. CASE NoneSinceCalm
      <4>1. NoneSinceCalm'
        BY <1>0, <1>1, <2>1, <3>1 DEF NoneSinceCalm
      <4> QED BY <4>1 DEF TakenIInv
    <3>2. CASE \E h \in history : LastTakenAt(h)
      <4>1. PICK h \in history : LastTakenAt(h)
        BY <3>2
      <4>2. LastTakenAt(h)'
        BY <1>0, <1>1, <2>1, <4>1 DEF LastTakenAt
      <4> QED BY <2>1, <4>2 DEF TakenIInv
    <3> QED BY <1>2, <3>1, <3>2 DEF TakenIInv
  <2>4. (NoPruneSinceCalm \/ PrunedInTime)'
    BY <1>0, <1>1, <1>2, <2>1 DEF NoPruneSinceCalm, PrunedInTime
  <2> QED BY <2>2, <2>3, <2>4 DEF CurrentIInv
<1>7. CASE Inserted
  <2>1. /\ step.at = "insert" /\ history' = history \cup {start}
        /\ UNCHANGED <<time, start, lastPrune, calm>>
        /\ \/ PruneDue /\ step'.at = "prune" /\ step'.until = time + CallTime
           \/ ~PruneDue /\ step'.at = "sleep" /\ step'.until = time + Interval
    BY <1>7 DEF Inserted, NoBreak, Calling, Sleeping
  <2>2. PassOK'
    BY <1>0, <1>1, <1>2, <2>1 DEF PassOK
  <2>3. LastTakenAt(start)'
    BY <1>0, <1>1, <1>2, <2>1 DEF LastTakenAt, PassOK
  <2>4. ~PruneDue => lastPrune # NotYet /\ lastPrune \in Nat /\ start < lastPrune + PruneEvery
    BY <1>0, <1>1 DEF PruneDue
  <2>5. CASE NoPruneSinceCalm
    <3>1. NoPruneSinceCalm'
      BY <1>0, <1>1, <1>2, <2>1, <2>4, <2>5 DEF NoPruneSinceCalm, PassOK
    <3> QED BY <2>1, <2>2, <2>3, <3>1 DEF CurrentIInv, TakenIInv
  <2>6. CASE PrunedInTime
    <3>1. PrunedInTime'
      BY <1>0, <1>1, <1>2, <2>1, <2>4, <2>6 DEF PrunedInTime, PassOK
    <3> QED BY <2>1, <2>2, <2>3, <3>1 DEF CurrentIInv, TakenIInv
  <2> QED BY <1>2, <2>5, <2>6
<1>8. CASE Pruned
  <2>1. /\ step.at = "prune" /\ history' = {h \in history : h >= Cutoff}
        /\ lastPrune' = start /\ UNCHANGED <<time, start, calm>>
        /\ step'.at = "sleep" /\ step'.until = time + Interval
    BY <1>8 DEF Pruned, NoBreak, Sleeping
  <2>2. PassOK'
    BY <1>0, <1>1, <1>2, <2>1 DEF PassOK
  <2>3. start \in history' /\ \A h \in history' : h \in Nat /\ start <= h + Retention
    BY <1>0, <1>1, <2>1 DEF Cutoff
  <2>4. LastTakenAt(start)'
    BY <1>0, <1>1, <1>2, <2>1 DEF LastTakenAt, PassOK
  <2>5. PrunedInTime'
    BY <1>0, <1>1, <1>2, <2>1, <2>3 DEF PrunedInTime, PassOK
  <2> QED BY <2>1, <2>2, <2>3, <2>4, <2>5 DEF CurrentIInv, TakenIInv
<1>9. CASE CallFails
  BY <1>3, <1>9 DEF CallFails
<1>10. CASE Restarts
  BY <1>3, <1>10 DEF Restarts
<1>11. CASE UNCHANGED snapVars
  BY <1>2, <1>11 DEF snapVars, CurrentIInv, PassOK, TakenIInv, NoneSinceCalm, LastTakenAt,
     NoPruneSinceCalm, PrunedInTime
<1> QED
  BY <1>4, <1>5, <1>6, <1>7, <1>8, <1>9, <1>10, <1>11 DEF SnapNext

(* For every interval and retention: when nothing has failed for a while,  *)
(* the newest snapshot is no older than a pass, and no row is older than   *)
(* the retention by more than a day and two passes (snapshots.py, loop).   *)
THEOREM HistoryStaysCurrent == SnapSpec => []HistoryIsCurrent
<1>1. SnapInit => CurrentIInv
  <2> SUFFICES ASSUME SnapInit
               PROVE  CurrentIInv
    OBVIOUS
  <2>1. /\ step.at = "migrate" /\ step.until = CallTime /\ CallTime \in Nat
        /\ time = 0 /\ calm = 0 /\ start = 0 /\ lastPrune = NotYet
    BY SnapshotsAssumption DEF SnapInit
  <2> QED
    BY <2>1 DEF CurrentIInv, PassOK, TakenIInv, NoneSinceCalm, NoPruneSinceCalm
<1>2. SnapIInv /\ CurrentIInv /\ [SnapNext]_snapVars => CurrentIInv'
  BY CurrentNext
<1>3. SnapIInv /\ CurrentIInv => HistoryIsCurrent
  <2> SUFFICES ASSUME SnapIInv, CurrentIInv
               PROVE  HistoryIsCurrent
    OBVIOUS
  <2>0. /\ Interval \in Nat /\ Interval > 0 /\ PruneEvery \in Nat /\ PruneEvery > 0
        /\ Retention \in Nat /\ Warmup \in Nat /\ CallTime \in Nat /\ NotYet \notin Nat
        /\ Pass = Interval + 2 * CallTime
        /\ time \in Nat /\ start \in Nat /\ calm \in Nat
        /\ step.until \in Nat /\ time <= step.until
        /\ \A h \in history : h \in Nat
        /\ step.at \in {"migrate", "sleep", "insert", "prune"}
        /\ lastPrune = NotYet \/ lastPrune \in Nat
        /\ PassOK /\ TakenIInv /\ (NoPruneSinceCalm \/ PrunedInTime)
    BY SnapshotsAssumption DEF Pass, SnapIInv, SnapTypeOK, CurrentIInv, PassOK
  <2>1. SnapshotsGoOn
    <3>1. CASE NoneSinceCalm
      BY <2>0, <3>1 DEF NoneSinceCalm, SnapshotsGoOn
    <3>2. ASSUME NEW h \in history, LastTakenAt(h)
          PROVE  time <= h + Pass + CallTime
      BY <2>0, <3>2 DEF LastTakenAt, PassOK
    <3> QED BY <2>0, <3>1, <3>2 DEF TakenIInv, SnapshotsGoOn
  <2>2. RetentionHolds
    <3>1. CASE NoPruneSinceCalm
      BY <2>0, <3>1 DEF NoPruneSinceCalm, PassOK, RetentionHolds
    <3>2. CASE PrunedInTime
      BY <2>0, <3>2 DEF PrunedInTime, PassOK, RetentionHolds
    <3> QED BY <2>0, <3>1, <3>2
  <2> QED BY <2>1, <2>2 DEF SnapIInv, HistoryIsCurrent
<1> QED
  BY <1>1, <1>2, <1>3, SnapInvariant, PTL DEF SnapSpec

-----------------------------------------------------------------------------
(* Telemetry: rows and the clock.                                          *)
PagesIInv ==
    /\ now \in Int
    /\ store \in Seq([device : Device, ts : Int, reading : [Part -> Nat]])

LEMMA PagesInitIInv == PagesInit => PagesIInv
BY TelemetryAssumption DEF PagesInit, PagesIInv

LEMMA PagesNextIInv == PagesIInv /\ [PagesNext]_pageVars => PagesIInv'
<1> SUFFICES ASSUME PagesIInv, [PagesNext]_pageVars
             PROVE  PagesIInv'
  OBVIOUS
<1>1. ASSUME NEW d \in Device, NEW r \in Reading, NEW late \in Lateness,
             PacketArrives(d, r, late)
      PROVE  PagesIInv'
  <2>1. [device |-> d, ts |-> now - late, reading |-> r]
            \in [device : Device, ts : Int, reading : [Part -> Nat]]
    BY TelemetryAssumption DEF PagesIInv
  <2> QED
    BY <1>1, <2>1 DEF PacketArrives, PagesIInv
<1>2. ASSUME TimeGoesOn
      PROVE  PagesIInv'
  BY <1>2 DEF TimeGoesOn, PagesIInv
<1>3. ASSUME UNCHANGED pageVars
      PROVE  PagesIInv'
  BY <1>3 DEF pageVars, PagesIInv
<1> QED
  BY <1>1, <1>2, <1>3 DEF PagesNext

(* What the pages are proved from: the clock and the dates of packets are  *)
(* whole half hours, each row is of a device, and its counts are not       *)
(* negative. mqtt_client and db_writer guarantee nothing more.             *)
THEOREM PagesInvariant == PagesSpec => []PagesIInv
BY PagesInitIInv, PagesNextIInv, PTL DEF PagesSpec
-----------------------------------------------------------------------------
(* The rows are finitely many, of devices, with dates and counts.          *)
LEMMA RowsAre ==
    ASSUME PagesIInv
    PROVE  /\ IsFiniteSet(All)
           /\ \A i \in All : store[i].device \in Device /\ Ts(i) \in Int
           /\ \A i \in All, part \in Part : store[i].reading[part] \in Nat
<1> DEFINE R == [device : Device, ts : Int, reading : [Part -> Nat]]
<1>1. store \in Seq(R)
  BY DEF PagesIInv
<1>2. Len(store) \in Nat /\ All = 1 .. Len(store) /\ \A i \in All : store[i] \in R
  <2> HIDE DEF R
  <2> QED
    BY <1>1 DEF All
<1>3. IsFiniteSet(All)
  BY <1>2, FS_Interval
<1> QED
  BY <1>2, <1>3 DEF Ts

Vals(part) == [i \in All |-> store[i].reading[part]]

(* Sums of some rows, as a sum over their indices.                         *)
LEMMA SumsAre ==
    ASSUME PagesIInv, NEW I \in SUBSET All, NEW part \in Part
    PROVE  /\ IsFiniteSet(I)
           /\ Sums(I)[part] = SumFunctionOnSet(Vals(part), I)
           /\ Sums(I)[part] \in Nat
           /\ \A i \in I : Vals(part)[i] \in Nat
<1> DEFINE f == [i \in I |-> store[i].reading[part]]
<1>1. IsFiniteSet(I)
  BY RowsAre, FS_Subset
<1>2. Sums(I)[part] = SumFunctionOnSet(f, I)
  BY DEF Sums, SumFunction
<1>3. \A i \in I : f[i] = Vals(part)[i] /\ Vals(part)[i] \in Nat
  BY RowsAre DEF Vals
<1> HIDE DEF f
<1>4. SumFunctionOnSet(f, I) = SumFunctionOnSet(Vals(part), I)
  BY <1>1, <1>3, SumSame
<1>5. SumFunctionOnSet(Vals(part), I) \in Nat
  BY <1>1, <1>3, SumNat
<1> QED
  BY <1>1, <1>2, <1>3, <1>4, <1>5

(* g has the sums by key. *)
SumsPerKey(g, I, K, S, part) == \A k \in S : g[k] = Sums(Having(I, K, k))[part]

(* Sums by key add up to the sum of the rows with one of the keys. *)
LEMMA KeySums ==
    ASSUME PagesIInv, NEW I \in SUBSET All, NEW K, NEW S, IsFiniteSet(S), NEW part \in Part,
           NEW g, SumsPerKey(g, I, K, S, part)
    PROVE  SumFunctionOnSet(g, S) = Sums(HavingAny(I, K, S))[part]
<1> DEFINE J == HavingAny(I, K, S)
           f == Vals(part)
<1>1. /\ J \in SUBSET All /\ IsFiniteSet(J) /\ Sums(J)[part] = SumFunctionOnSet(f, J)
      /\ \A i \in J : f[i] \in Int
  <2>1. J \in SUBSET All
    BY DEF HavingAny
  <2> HIDE DEF J, f
  <2> QED
    BY <2>1, SumsAre DEF f
<1>2. \A k \in S : g[k] = SumFunctionOnSet(f, Having(J, K, k))
  <2> SUFFICES ASSUME NEW k \in S
               PROVE  g[k] = SumFunctionOnSet(f, Having(J, K, k))
    OBVIOUS
  <2> DEFINE T == Having(I, K, k)
  <2>1. Having(J, K, k) = T /\ T \in SUBSET All
    BY DEF Having, HavingAny
  <2>2. Sums(T)[part] = SumFunctionOnSet(f, T)
    <3> HIDE DEF T
    <3> QED BY <2>1, SumsAre
  <2> QED
    BY <2>1, <2>2 DEF SumsPerKey
<1>3. \A i \in J : K[i] \in S
  BY DEF HavingAny
<1> HIDE DEF J, f
<1>4. SumFunctionOnSet(g, S) = SumFunctionOnSet(f, J)
  BY <1>1, <1>2, <1>3, SumGroups
<1> QED
  BY <1>1, <1>4 DEF J

(* What GROUP BY gives. *)
LEMMA GroupsAre ==
    ASSUME PagesIInv, NEW I \in SUBSET All, NEW K
    PROVE  /\ IsFiniteSet(KeysOf(I, K))
           /\ DOMAIN GroupBy(I, K) = KeysOf(I, K)
           /\ DOMAIN SumsBy(I, K) = KeysOf(I, K)
           /\ DOMAIN ItemsBy(I, K) = KeysOf(I, K)
           /\ \A k \in KeysOf(I, K) :
                 /\ GroupBy(I, K)[k] = Having(I, K, k)
                 /\ SumsBy(I, K)[k] = Sums(Having(I, K, k))
                 /\ ItemsBy(I, K)[k] = Items(Having(I, K, k))
<1> DEFINE D == KeysOf(I, K)
           f == [i \in I |-> K[i]]
<1>1. f \in Surjection(I, D)
  BY DEF Surjection, KeysOf
<1>2. IsFiniteSet(D)
  <2>1. IsFiniteSet(I)
    BY RowsAre, FS_Subset
  <2> HIDE DEF f, D
  <2> QED
    BY <1>1, <2>1, FS_Surjection
<1>3. GroupBy(I, K) = [k \in D |-> Having(I, K, k)]
  BY DEF GroupBy, Having, KeysOf
<1> DEFINE G == GroupBy(I, K)
<1>4. /\ SumsBy(I, K) = [k \in DOMAIN G |-> Sums(G[k])]
      /\ ItemsBy(I, K) = [k \in DOMAIN G |-> Items(G[k])]
  BY DEF SumsBy, ItemsBy
<1> HIDE DEF G
<1>5. DOMAIN G = D /\ \A k \in D : G[k] = Having(I, K, k)
  BY <1>3 DEF G
<1> HIDE DEF D
<1> QED
  BY <1>2, <1>4, <1>5 DEF G, D

(* sums is by key what the rows with that key sum up to. *)
SumsOfKeys(sums, I, K, S) == \A k \in S : sums[k] = Sums(Having(I, K, k))
ItemsOfKeys(items, I, K, S) == \A k \in S : items[k] = Items(Having(I, K, k))

(* The same of records of counts, which AddUp adds up.                     *)
LEMMA AddUpKeys ==
    ASSUME PagesIInv, NEW I \in SUBSET All, NEW K, NEW S, IsFiniteSet(S),
           NEW sums, DOMAIN sums = S, SumsOfKeys(sums, I, K, S)
    PROVE  AddUp(sums) = Sums(HavingAny(I, K, S))
<1> DEFINE J == HavingAny(I, K, S)
<1>1. ASSUME NEW part \in Part
      PROVE  AddUp(sums)[part] = Sums(J)[part]
  <2> DEFINE g == [k \in DOMAIN sums |-> sums[k][part]]
  <2>1. AddUp(sums)[part] = SumFunctionOnSet(g, S)
    BY DEF AddUp, SumFunction
  <2>2. SumsPerKey(g, I, K, S, part)
    BY DEF SumsPerKey, SumsOfKeys
  <2> HIDE DEF g
  <2> QED
    BY <2>1, <2>2, KeySums
<1>2. AddUp(sums) = [part \in Part |-> AddUp(sums)[part]]
  BY DEF AddUp
<1>3. Sums(J) = [part \in Part |-> Sums(J)[part]]
  BY DEF Sums
<1> HIDE DEF J
<1> QED
  BY <1>1, <1>2, <1>3 DEF J

(* The same of items alone.                                                *)
LEMMA ItemKeys ==
    ASSUME PagesIInv, NEW I \in SUBSET All, NEW K, NEW S, IsFiniteSet(S),
           NEW items, ItemsOfKeys(items, I, K, S)
    PROVE  /\ SumFunctionOnSet(items, S) = Items(HavingAny(I, K, S))
           /\ DOMAIN items = S => SumFunction(items) = Items(HavingAny(I, K, S))
<1>1. "items" \in Part
  BY DEF Part
<1>2. SumsPerKey(items, I, K, S, "items")
  BY DEF SumsPerKey, ItemsOfKeys, Items
<1>3. SumFunctionOnSet(items, S) = Sums(HavingAny(I, K, S))["items"]
  BY <1>1, <1>2, KeySums
<1> QED
  BY <1>3 DEF Items, SumFunction

(* Over some of the keys that GROUP BY gives, and over all. *)
LEMMA SomeKeys ==
    ASSUME PagesIInv, NEW I \in SUBSET All, NEW K, NEW S \in SUBSET KeysOf(I, K)
    PROVE  /\ AddUp([k \in S |-> SumsBy(I, K)[k]]) = Sums(HavingAny(I, K, S))
           /\ SumFunctionOnSet(ItemsBy(I, K), S) = Items(HavingAny(I, K, S))
<1> DEFINE h == [k \in S |-> SumsBy(I, K)[k]]
<1>1. IsFiniteSet(S)
  BY GroupsAre, FS_Subset
<1>2. SumsOfKeys(h, I, K, S) /\ ItemsOfKeys(ItemsBy(I, K), I, K, S)
  BY GroupsAre DEF SumsOfKeys, ItemsOfKeys
<1>3. DOMAIN h = S
  OBVIOUS
<1> HIDE DEF h
<1>4. AddUp(h) = Sums(HavingAny(I, K, S))
  BY <1>1, <1>2, <1>3, AddUpKeys
<1> QED
  BY <1>1, <1>2, <1>4, ItemKeys DEF h

(* GROUP BY loses nothing.                                                 *)
LEMMA AllKeys ==
    ASSUME PagesIInv, NEW I \in SUBSET All, NEW K
    PROVE  AddUp(SumsBy(I, K)) = Sums(I) /\ SumFunction(ItemsBy(I, K)) = Items(I)
<1> DEFINE S == KeysOf(I, K)
<1>1. HavingAny(I, K, S) = I
  BY DEF HavingAny, KeysOf
<1>2. DOMAIN SumsBy(I, K) = S /\ DOMAIN ItemsBy(I, K) = S /\ IsFiniteSet(S)
  BY GroupsAre
<1>3. SumsOfKeys(SumsBy(I, K), I, K, S) /\ ItemsOfKeys(ItemsBy(I, K), I, K, S)
  BY GroupsAre DEF SumsOfKeys, ItemsOfKeys
<1> HIDE DEF S
<1> QED
  BY <1>1, <1>2, <1>3, AddUpKeys, ItemKeys

(* Fewer rows have no more items.                                          *)
LEMMA ItemsMonotone ==
    ASSUME PagesIInv, NEW I \in SUBSET All, NEW J \in SUBSET I
    PROVE  Items(J) <= Items(I) /\ Items(J) \in Nat
<1>1. "items" \in Part /\ J \in SUBSET All
  BY DEF Part
<1> DEFINE f == Vals("items")
<1>2. /\ Items(I) = SumFunctionOnSet(f, I) /\ Items(J) = SumFunctionOnSet(f, J)
      /\ IsFiniteSet(I) /\ \A i \in I : f[i] \in Nat
      /\ Items(J) \in Nat
  BY <1>1, SumsAre DEF Items
<1> HIDE DEF f
<1> QED
  BY <1>2, SumMonotone

(* No rows give zeros.                                                     *)
LEMMA NoRowsNoSum ==
    ASSUME PagesIInv
    PROVE  Items({}) = 0 /\ Sums({}) = [part \in Part |-> 0]
<1>1. ASSUME NEW part \in Part
      PROVE  Sums({})[part] = 0
  BY SumsAre, SumEmpty
<1>2. Sums({}) = [part \in Part |-> Sums({})[part]]
  BY DEF Sums
<1>3. "items" \in Part
  BY DEF Part
<1> QED
  BY <1>1, <1>2, <1>3 DEF Items
-----------------------------------------------------------------------------
(* Clocks. *)
LEMMA Units ==
    /\ Day \in Nat \ {0} /\ DaysPerWeek \in Nat \ {0} /\ DaysPerMonth \in Nat \ {0}
    /\ HoursPerDay \in Nat \ {0} /\ Offset \in Nat
    /\ Week = DaysPerWeek * Day /\ Month = DaysPerMonth * Day
<1>1. /\ HoursPerDay \in Nat \ {0} /\ DaysPerWeek \in Nat \ {0}
      /\ DaysPerMonth \in Nat \ {0} /\ Offset \in Nat
  BY TelemetryAssumption
<1> QED
  BY <1>1 DEF Day, Week, Month

LEMMA ProductMonotone ==
    ASSUME NEW n \in Nat, NEW a \in Int, NEW b \in Int, a <= b
    PROVE  n * a \in Int /\ n * b \in Int /\ n * a <= n * b
<1> DEFINE k == b - a
<1>1. k \in Nat /\ b = a + k
  OBVIOUS
<1> HIDE DEF k
<1>2. n * k \in Nat /\ n * b = n * a + n * k /\ n * a \in Int
  BY <1>1
<1> QED
  BY <1>2

(* The greatest multiple of b up to t.                                     *)
LEMMA FloorIs ==
    ASSUME NEW t \in Int, NEW b \in Nat \ {0}
    PROVE  /\ Floor(t, b) = b * (t \div b) /\ Floor(t, b) \in Int /\ t \div b \in Int
           /\ Floor(t, b) <= t /\ t < Floor(t, b) + b
<1> DEFINE q == t \div b
           r == t % b
<1>1. q \in Int /\ r \in 0 .. b - 1 /\ t = b * q + r
  BY DivMod
<1>2. Floor(t, b) = t - r
  BY DEF Floor
<1> HIDE DEF q, r
<1>3. b * q \in Int
  BY <1>1
<1> QED
  BY <1>1, <1>2, <1>3 DEF q

(* A moment is on the local day k or later when it is not before its       *)
(* midnight.                                                               *)
LEMMA LocalDays ==
    ASSUME NEW t \in Int
    PROVE  /\ LocalDay(t) \in Int /\ LocalHour(t) \in 0 .. HoursPerDay - 1
           /\ \A k \in Int : k <= LocalDay(t) <=> Day * k - 2 * Offset <= t
<1>1. Local(t) \in Int /\ Local(t) = t + 2 * Offset
  BY Units DEF Local
<1>2. LocalDay(t) \in Int
  BY <1>1, Units, DivMod DEF LocalDay
<1>3. LocalHour(t) \in 0 .. HoursPerDay - 1
  <2>1. Local(t) \div 2 \in Int
    BY <1>1
  <2> QED
    BY <2>1, Units, DivMod DEF LocalHour
<1>4. ASSUME NEW k \in Int
      PROVE  k <= LocalDay(t) <=> Day * k - 2 * Offset <= t
  <2>1. k <= LocalDay(t) <=> Day * k <= Local(t)
    BY <1>1, Units, DivAtLeast DEF LocalDay
  <2>2. Day * k \in Int /\ Offset \in Nat
    BY Units
  <2> QED
    BY <1>1, <2>1, <2>2
<1> QED
  BY <1>2, <1>3, <1>4

(* The same of days of UTC.                                                *)
LEMMA UtcDays ==
    ASSUME NEW t \in Int
    PROVE  UtcDay(t) \in Int /\ \A k \in Int : k <= UtcDay(t) <=> Day * k <= t
BY Units, DivMod, DivAtLeast DEF UtcDay

(* The two midnights before now.                                           *)
LEMMA Midnights ==
    ASSUME PagesIInv
    PROVE  /\ now \in Int
           /\ LocalMidnight = Day * LocalDay(now) - 2 * Offset /\ LocalMidnight \in Int
           /\ LocalMidnight <= now /\ now < LocalMidnight + Day
           /\ UtcMidnight = Day * UtcDay(now) /\ UtcMidnight \in Int /\ UtcMidnight <= now
<1>1. now \in Int /\ Local(now) \in Int /\ Local(now) = now + 2 * Offset /\ Offset \in Nat
  BY Units DEF PagesIInv, Local
<1>2. /\ Floor(Local(now), Day) = Day * LocalDay(now)
      /\ Floor(Local(now), Day) \in Int /\ Floor(Local(now), Day) <= Local(now)
      /\ Local(now) < Floor(Local(now), Day) + Day
  BY <1>1, Units, FloorIs DEF LocalDay
<1>3. /\ UtcMidnight = Day * UtcDay(now) /\ UtcMidnight \in Int /\ UtcMidnight <= now
  BY <1>1, Units, FloorIs DEF UtcMidnight, UtcDay
<1>4. LocalMidnight = Floor(Local(now), Day) - 2 * Offset
  BY DEF LocalMidnight
<1> QED
  BY <1>1, <1>2, <1>3, <1>4, Units

-----------------------------------------------------------------------------
(* Rows of a device, or of some. *)
Devices == [i \in All |-> store[i].device]
Owners == [i \in All |-> CustomerOf[store[i].device]]

(* Rows of some devices, chosen by key.                                    *)
LEMMA RowsOfDevices ==
    ASSUME PagesIInv, NEW I \in SUBSET All, NEW D
    PROVE  I \cap RowsOf(D) = HavingAny(I, Devices, D)
BY DEF RowsOf, HavingAny, Devices

LEMMA FiniteOwners ==
    IsFiniteSet({CustomerOf[d] : d \in Device})
<1>1. {CustomerOf[d] : d \in Device} \in SUBSET Customer /\ IsFiniteSet(Customer)
  BY TelemetryAssumption
<1> QED
  BY <1>1, FS_Subset

(* Whatever the length of a month, its first day begins with it, so that   *)
(* today is in it.                                                         *)
LEMMA TodayIsThisMonth ==
    ASSUME PagesIInv
    PROVE  StatsToday <= StatsMonth
<1> DEFINE I == {i \in All : Local(Ts(i)) >= Floor(Local(now), Month)}
           J == {i \in All : LocalDay(Ts(i)) = LocalDay(now)}
           month == Local(now) \div Month
<1>1. /\ Day \in Nat \ {0} /\ DaysPerMonth \in Nat \ {0} /\ Offset \in Nat
      /\ Month = DaysPerMonth * Day
  BY Units
<1>2. now \in Int /\ Local(now) \in Int /\ Month \in Nat \ {0}
  BY <1>1 DEF PagesIInv, Local
<1>3. /\ month \in Int /\ Floor(Local(now), Month) = Month * month
      /\ Floor(Local(now), Month) <= Local(now)
  BY <1>2, FloorIs
<1> HIDE DEF month
<1> DEFINE first == DaysPerMonth * month
<1>4. first \in Int /\ Month * month = Day * first
  BY <1>1, <1>3
<1>5. first <= LocalDay(now)
  <2>1. Day * first <= Local(now)
    BY <1>3, <1>4
  <2> HIDE DEF first
  <2> QED
    BY <1>1, <1>2, <1>4, <2>1, DivAtLeast DEF LocalDay
<1> HIDE DEF first
<1>6. ASSUME NEW i \in J
      PROVE  i \in I
  <2>1. Ts(i) \in Int /\ i \in All
    BY RowsAre
  <2>2. Local(Ts(i)) \in Int
    BY <1>1, <2>1 DEF Local
  <2>3. first <= LocalDay(Ts(i))
    BY <1>5
  <2>4. Day * first <= Local(Ts(i))
    BY <1>1, <1>4, <2>2, <2>3, DivAtLeast DEF LocalDay
  <2>5. Floor(Local(now), Month) = Day * first
    BY <1>3, <1>4
  <2>6. Day * first \in Int
    BY <1>1, <1>4
  <2> QED
    BY <2>1, <2>2, <2>4, <2>5, <2>6
<1>7. I \in SUBSET All /\ J \in SUBSET I
  BY <1>6
<1>8. StatsToday = Items(J) /\ StatsMonth = Items(I)
  BY DEF StatsToday, StatsMonth
<1> HIDE DEF I, J
<1> QED
  BY <1>7, <1>8, ItemsMonotone

-----------------------------------------------------------------------------
(* Every range reaches the present and starts where one of its buckets,    *)
(* or of its hours, does.                                                  *)
LEMMA WindowOfDays ==
    ASSUME PagesIInv, NEW p, p.daily = TRUE, p.bucket = Day, NEW n \in Nat \ {0},
           p.span = n * Day
    PROVE  LET w == Window(p)
           IN  /\ w.from \in Int /\ w.end \in Int /\ w.from <= now /\ now < w.end
               /\ w.from = Day * (LocalDay(now) - n + 1) - 2 * Offset
               /\ w.end = Day * (LocalDay(now) + 1) - 2 * Offset
<1> DEFINE today == LocalDay(now)
           w == Window(p)
<1>1. /\ Day \in Nat \ {0} /\ Offset \in Nat /\ now \in Int /\ today \in Int
      /\ LocalMidnight = Day * today - 2 * Offset
      /\ LocalMidnight <= now /\ now < LocalMidnight + Day
  BY Units, Midnights, LocalDays
<1>2. w = [from |-> LocalMidnight - (n * Day - Day), end |-> LocalMidnight + Day]
  BY DEF Window
<1> HIDE DEF today, w
<1>3. /\ n * Day \in Int /\ Day * today \in Int /\ Day <= n * Day
      /\ Day * (today - n + 1) = Day * today - n * Day + Day
      /\ Day * (today + 1) = Day * today + Day
  <2>1. n >= 1
    OBVIOUS
  <2> QED
    BY <1>1, <2>1
<1>4. w.from = LocalMidnight - (n * Day - Day) /\ w.end = LocalMidnight + Day
  BY <1>2
<1> DEFINE nd == n * Day
           dt == Day * today
<1>5. nd \in Int /\ dt \in Int /\ Day <= nd
  BY <1>3
<1>6. w.from = dt - 2 * Offset - (nd - Day) /\ w.end = dt - 2 * Offset + Day
  BY <1>1, <1>4
<1> HIDE DEF nd, dt
<1>7. w.from \in Int /\ w.end \in Int /\ w.from <= now /\ now < w.end
  <2>1. LocalMidnight = dt - 2 * Offset
    BY <1>1 DEF dt
  <2> QED
    BY <1>1, <1>5, <1>6, <2>1
<1>8. /\ w.from = Day * (today - n + 1) - 2 * Offset
      /\ w.end = Day * (today + 1) - 2 * Offset
  <2>1. Day * (today - n + 1) = dt - nd + Day /\ Day * (today + 1) = dt + Day
    BY <1>3 DEF nd, dt
  <2> QED
    BY <1>1, <1>5, <1>6, <2>1
<1> QED
  BY <1>7, <1>8 DEF w, today

(* The ranges of a day and of two start where a bucket does.               *)
LEMMA WindowOfHours ==
    ASSUME PagesIInv, NEW p, p.daily = FALSE, NEW b \in {1, 2}, p.bucket = b,
           p.span = b * Day
    PROVE  LET w == Window(p)
           IN  /\ w.from \in Int /\ w.end \in Int /\ w.from <= now /\ now < w.end
               /\ \E c \in Int : w.from + 2 * Offset = b * c
<1> DEFINE w == Window(p)
           q == now \div b
<1>1. /\ Day \in Nat \ {0} /\ Offset \in Nat /\ now \in Int /\ q \in Int
      /\ Floor(now, b) = b * q /\ Floor(now, b) <= now /\ now < Floor(now, b) + b
  <2>1. now \in Int /\ b \in Nat \ {0}
    BY DEF PagesIInv
  <2> QED
    BY <2>1, Units, FloorIs
<1>2. w = [from |-> Floor(now, b) - b * Day + b, end |-> Floor(now, b) + b]
  BY DEF Window
<1> HIDE DEF w, q
<1>3. w.from = b * q - b * Day + b /\ w.end = b * q + b
  BY <1>1, <1>2
<1>4. CASE b = 1
  <2>1. w.from + 2 * Offset = b * (q - Day + 1 + 2 * Offset)
    BY <1>1, <1>3, <1>4
  <2>2. q - Day + 1 + 2 * Offset \in Int
    BY <1>1
  <2>3. w.from \in Int /\ w.end \in Int /\ w.from <= now /\ now < w.end
    BY <1>1, <1>3, <1>4
  <2> QED
    BY <2>1, <2>2, <2>3 DEF w
<1>5. CASE b = 2
  <2>1. w.from + 2 * Offset = b * (q - Day + 1 + Offset)
    BY <1>1, <1>3, <1>5
  <2>2. q - Day + 1 + Offset \in Int
    BY <1>1
  <2>3. w.from \in Int /\ w.end \in Int /\ w.from <= now /\ now < w.end
    BY <1>1, <1>3, <1>5
  <2> QED
    BY <2>1, <2>2, <2>3 DEF w
<1> QED
  BY <1>4, <1>5

(* All four ranges.                                                        *)
LEMMA Ranges ==
    ASSUME PagesIInv, NEW name \in DOMAIN Presets
    PROVE  LET p == Presets[name]
               w == Window(p)
           IN  /\ p.bucket \in Nat \ {0} /\ p.daily \in BOOLEAN
               /\ w.from \in Int /\ w.end \in Int /\ w.from <= now /\ now < w.end
               /\ \E c \in Int : w.from + 2 * Offset = p.bucket * c
               /\ p.daily => \E c \in Int : w.from + 2 * Offset = 2 * c
<1> DEFINE p == Presets[name]
           w == Window(p)
<1>0. /\ Day \in Nat \ {0} /\ Offset \in Nat /\ DaysPerWeek \in Nat \ {0}
      /\ DaysPerMonth \in Nat \ {0} /\ LocalDay(now) \in Int
      /\ HoursPerDay \in Nat /\ Day = 2 * HoursPerDay
  BY Units, LocalDays, Midnights DEF Day
<1>1. CASE name \in {"d7", "d30"}
  <2>1. PICK n \in Nat \ {0} : p.span = n * Day
    BY <1>0, <1>1, Units DEF Presets
  <2>2. p.daily = TRUE /\ p.bucket = Day
    BY <1>1 DEF Presets
  <2> DEFINE c == LocalDay(now) - n + 1
  <2>3. /\ w.from \in Int /\ w.end \in Int /\ w.from <= now /\ now < w.end
        /\ w.from = Day * c - 2 * Offset /\ c \in Int
    <3> HIDE DEF p
    <3>1. LET v == Window(p)
          IN  /\ v.from \in Int /\ v.end \in Int /\ v.from <= now /\ now < v.end
              /\ v.from = Day * (LocalDay(now) - n + 1) - 2 * Offset
              /\ v.end = Day * (LocalDay(now) + 1) - 2 * Offset
      BY <2>1, <2>2, WindowOfDays
    <3> QED BY <1>0, <3>1
  <2> HIDE DEF c, w
  <2>4. w.from + 2 * Offset = Day * c
    <3>1. Day * c \in Int
      BY <1>0, <2>3
    <3> QED BY <1>0, <2>3, <3>1
  <2>5. Day * c = 2 * (HoursPerDay * c) /\ HoursPerDay * c \in Int
    BY <1>0, <2>3
  <2> HIDE DEF p
  <2> QED
    BY <1>0, <2>2, <2>3, <2>4, <2>5 DEF w, p
<1>2. CASE name \in {"d1", "d2"}
  <2>1. PICK b \in {1, 2} : p.bucket = b /\ p.span = b * Day
    BY <1>0, <1>2 DEF Presets
  <2>2. p.daily = FALSE
    BY <1>2 DEF Presets
  <2> HIDE DEF p
  <2>3. /\ w.from \in Int /\ w.end \in Int /\ w.from <= now /\ now < w.end
        /\ \E c \in Int : w.from + 2 * Offset = b * c
    BY <2>1, <2>2, WindowOfHours
  <2>4. p.bucket \in Nat \ {0} /\ p.daily \in BOOLEAN /\ ~p.daily
    <3>1. b \in Nat \ {0}
      OBVIOUS
    <3>2. p.daily \in BOOLEAN /\ ~p.daily
      BY <2>2, Zenon
    <3> QED
      BY <2>1, <3>1, <3>2, Zenon
  <2>5. \E c \in Int : w.from + 2 * Offset = p.bucket * c
    BY <2>1, <2>3
  <2> HIDE DEF w
  <2> QED
    BY <2>3, <2>4, <2>5 DEF w, p
<1> QED
  BY <1>1, <1>2 DEF Presets
-----------------------------------------------------------------------------
BucketOf(b) == [i \in All |-> Floor(Local(Ts(i)), b) - 2 * Offset]
Buckets(d, b, from, end) ==
    FillBuckets(FetchBuckets(d, b, from, end), BucketStarts(from, end, b))

(* Every packet of the range has its bucket on the axis.                   *)
LEMMA OnTheAxis ==
    ASSUME NEW ts \in Int, NEW b \in Nat \ {0}, NEW from \in Int, NEW end \in Int,
           NEW c \in Int, from + 2 * Offset = b * c, from <= ts, ts < end
    PROVE  Floor(Local(ts), b) - 2 * Offset \in BucketStarts(from, end, b)
<1> DEFINE q == Local(ts) \div b
           k == Floor(Local(ts), b) - 2 * Offset
<1>1. Offset \in Nat /\ Local(ts) = ts + 2 * Offset /\ Local(ts) \in Int
  BY Units DEF Local
<1>2. q \in Int /\ Floor(Local(ts), b) = b * q /\ Floor(Local(ts), b) <= Local(ts)
  BY <1>1, FloorIs
<1>3. c <= q
  <2>1. b * c <= Local(ts)
    BY <1>1
  <2> QED
    BY <1>1, <2>1, DivAtLeast
<1> HIDE DEF q
<1> DEFINE n == q - c
<1>4. n \in Nat /\ b * q = b * c + b * n /\ b * n \in Nat
  BY <1>2, <1>3
<1>5. (b * n) % b = 0
  <2>1. (b * n + 0) % b = 0
    <3>1. n \in Int /\ 0 \in 0 .. b - 1
      BY <1>4
    <3> HIDE DEF n
    <3> QED BY <3>1, DivIs
  <2>2. b * n + 0 = b * n
    BY <1>4
  <2> QED
    BY <2>1, <2>2
<1> DEFINE m == b * n
<1>6. m \in Nat /\ m % b = 0 /\ Floor(Local(ts), b) = from + 2 * Offset + m
  BY <1>1, <1>2, <1>4, <1>5
<1> HIDE DEF m, n
<1>7. k = from + m /\ k <= ts
  BY <1>1, <1>2, <1>6
<1> HIDE DEF k
<1>8. k \in from .. end - 1 /\ k - from = m
  BY <1>6, <1>7
<1>9. k \in BucketStarts(from, end, b)
  BY <1>6, <1>8 DEF BucketStarts
<1> QED
  BY <1>9 DEF k

(* The buckets of an axis have all the packets of the range. *)
BucketsHold(d, b, from, end) ==
    LET I == Between(RowsOf({d}), from, end)
        S == BucketStarts(from, end, b)
    IN  /\ IsFiniteSet(S) /\ DOMAIN Buckets(d, b, from, end) = S
        /\ SumsOfKeys(Buckets(d, b, from, end), I, BucketOf(b), S)
        /\ HavingAny(I, BucketOf(b), S) = I
        /\ AddUp(Buckets(d, b, from, end)) = Sums(I)

(* On an axis aligned with the local buckets, no bucket of a packet is     *)
(* missing (fill_buckets would leave its packets out).                     *)
LEMMA BucketsAre ==
    ASSUME PagesIInv, NEW d, NEW b \in Nat \ {0}, NEW from \in Int, NEW end \in Int,
           NEW c \in Int, from + 2 * Offset = b * c
    PROVE  BucketsHold(d, b, from, end)
<1> DEFINE I == Between(RowsOf({d}), from, end)
           S == BucketStarts(from, end, b)
           K == BucketOf(b)
           G == FetchBuckets(d, b, from, end)
           B == Buckets(d, b, from, end)
<1>1. I \in SUBSET All
  BY DEF Between, RowsOf
<1>2. IsFiniteSet(S)
  <2>1. IsFiniteSet(from .. end - 1)
    BY FS_Interval
  <2>2. S \in SUBSET (from .. end - 1)
    BY DEF BucketStarts
  <2> HIDE DEF S
  <2> QED
    BY <2>1, <2>2, FS_Subset
<1>3. G = GroupBy(I, K)
  BY DEF FetchBuckets, BucketOf
<1>4. B = [s \in S |-> IF s \in DOMAIN G THEN Sums(G[s]) ELSE Sums({})]
  BY DEF Buckets, FillBuckets
<1>5. \A i \in I : K[i] \in S
  <2> SUFFICES ASSUME NEW i \in I
               PROVE  Floor(Local(Ts(i)), b) - 2 * Offset \in S
    BY <1>1 DEF BucketOf
  <2>1. Ts(i) \in Int /\ from <= Ts(i) /\ Ts(i) < end
    BY RowsAre, <1>1 DEF Between
  <2> QED
    BY <2>1, OnTheAxis
<1> HIDE DEF I, S, K, G, B
<1>6. /\ DOMAIN G = KeysOf(I, K)
      /\ \A k \in KeysOf(I, K) : G[k] = Having(I, K, k)
  BY <1>1, <1>3, GroupsAre
<1>7. SumsOfKeys(B, I, K, S)
  <2> SUFFICES ASSUME NEW s \in S
               PROVE  B[s] = Sums(Having(I, K, s))
    BY DEF SumsOfKeys
  <2>1. CASE s \in KeysOf(I, K)
    BY <1>4, <1>6, <2>1
  <2>2. CASE s \notin KeysOf(I, K)
    <3>1. Having(I, K, s) = {}
      BY <2>2 DEF KeysOf, Having
    <3> QED
      BY <1>4, <1>6, <2>2, <3>1
  <2> QED
    BY <2>1, <2>2
<1>8. HavingAny(I, K, S) = I
  BY <1>5 DEF HavingAny
<1>9. DOMAIN B = S
  BY <1>4
<1>10. AddUp(B) = Sums(I)
  BY <1>1, <1>2, <1>7, <1>8, <1>9, AddUpKeys
<1> QED
  BY <1>2, <1>7, <1>8, <1>9, <1>10 DEF I, S, K, B, BucketsHold

-----------------------------------------------------------------------------
(* Leaving out what is 0 changes no sum.                                   *)
LEMMA WithoutZeros ==
    ASSUME NEW f, NEW S, IsFiniteSet(S), \A x \in S : f[x] \in Nat
    PROVE  SumFunction([x \in {y \in S : f[y] > 0} |-> f[x]]) = SumFunctionOnSet(f, S)
<1> DEFINE A == {y \in S : f[y] > 0}
           g == [x \in A |-> f[x]]
<1>1. SumFunction(g) = SumFunctionOnSet(g, A)
  BY DEF SumFunction
<1>2. A \in SUBSET S /\ IsFiniteSet(A)
  BY FS_Subset
<1>3. \A x \in A : f[x] = g[x]
  OBVIOUS
<1>4. \A x \in S \ A : f[x] = 0
  OBVIOUS
<1> HIDE DEF A, g
<1>5. SumFunctionOnSet(f, A) = SumFunctionOnSet(g, A)
  BY <1>2, <1>3, SumSame
<1>6. SumFunctionOnSet(f, S) = SumFunctionOnSet(f, A)
  BY <1>2, <1>4, SumZeros
<1> QED
  BY <1>1, <1>5, <1>6 DEF g, A

(* The lesser of two numbers.                                              *)
LEMMA LeastOfTwo ==
    ASSUME NEW a \in Int, NEW b \in Int
    PROVE  Min({a, b}) = IF a <= b THEN a ELSE b
<1> DEFINE m == IF a <= b THEN a ELSE b
<1>1. m \in {a, b} /\ \A y \in {a, b} : m <= y
  OBVIOUS
<1>2. \A x \in {a, b} : (\A y \in {a, b} : x <= y) => x = m
  OBVIOUS
<1> HIDE DEF m
<1>3. Min({a, b}) = m
  BY <1>1, <1>2 DEF Min
<1> QED
  BY <1>3 DEF m

(* The device page, as SeriesReconciles says.                              *)
LEMMA SeriesAddsUp == PagesIInv => SeriesReconciles
<1> SUFFICES ASSUME PagesIInv, NEW d \in Heard, NEW name \in DOMAIN Presets
             PROVE  LET p == Presets[name]
                        w == Window(p)
                        t == AddUp(Series(d, p))
                        pie == Partition(t)
                        per == PerUnit(d, p)
                    IN  /\ t = Sums(Between(RowsOf({d}), w.from, w.end))
                        /\ p.daily => AddUp(Hourly(d, p)) = t
                        /\ w.from <= now /\ now < w.end
                        /\ t.items = SumFunction(per)
                        /\ pie.good + pie.hand + pie.notRecovered = t.good_read + t.no_read
                        /\ pie.notRecovered >= 0
  BY Zenon DEF SeriesReconciles
<1> DEFINE p == Presets[name]
           w == Window(p)
           t == AddUp(Series(d, p))
           pie == Partition(t)
           per == PerUnit(d, p)
           I == Between(RowsOf({d}), w.from, w.end)
<1>1. /\ p.bucket \in Nat \ {0} /\ p.daily \in BOOLEAN
      /\ w.from \in Int /\ w.end \in Int /\ w.from <= now /\ now < w.end
      /\ \E c \in Int : w.from + 2 * Offset = p.bucket * c
      /\ p.daily => \E c \in Int : w.from + 2 * Offset = 2 * c
  BY Ranges
<1>2. I \in SUBSET All
  BY DEF Between, RowsOf
<1>3. Series(d, p) = Buckets(d, p.bucket, w.from, w.end)
  BY Zenon DEF Series, Buckets
<1>4. Hourly(d, p) = Buckets(d, 2, w.from, w.end)
  BY Zenon DEF Hourly, Buckets
<1> DEFINE hours == Hourly(d, p)
           S == BucketStarts(w.from, w.end, 2)
<1>5. /\ p.daily => per = [s \in {h \in DOMAIN hours : hours[h].items > 0} |-> hours[s].items]
      /\ ~p.daily => per = [i \in {r \in I : store[r].reading.items > 0} |-> store[i].reading.items]
  BY Zenon DEF PerUnit
<1>6. t = Sums(I)
  <2>1. PICK c \in Int : w.from + 2 * Offset = p.bucket * c
    BY <1>1
  <2> HIDE DEF p, w, I
  <2>2. BucketsHold(d, p.bucket, w.from, w.end)
    BY <1>1, <2>1, BucketsAre
  <2> QED
    BY <1>3, <2>2, Zenon DEF I, BucketsHold, t
<1>7. ASSUME p.daily
      PROVE  /\ DOMAIN hours = S /\ IsFiniteSet(S) /\ AddUp(hours) = Sums(I)
             /\ SumsOfKeys(hours, I, BucketOf(2), S) /\ HavingAny(I, BucketOf(2), S) = I
  <2>1. PICK c \in Int : w.from + 2 * Offset = 2 * c
    BY <1>1, <1>7
  <2> HIDE DEF p, w
  <2>2. 2 \in Nat \ {0}
    OBVIOUS
  <2>3. BucketsHold(d, 2, w.from, w.end)
    BY <1>1, <2>1, <2>2, BucketsAre
  <2> QED
    BY <1>4, <2>3, Zenon DEF BucketsHold
<1> HIDE DEF p, w, t, per, I, hours, S
<1>8. "items" \in Part /\ "good_read" \in Part /\ "no_read" \in Part /\ "hand_scanned" \in Part
  BY DEF Part
<1>9. t.items = SumFunction(per)
  <2>1. CASE p.daily
    <3> DEFINE f == [h \in S |-> hours[h].items]
    <3>1. ItemsOfKeys(f, I, BucketOf(2), S)
      BY <1>7, <2>1 DEF ItemsOfKeys, SumsOfKeys, Items
    <3>2. \A s \in S : f[s] \in Nat
      <4>1. ASSUME NEW s \in S
            PROVE  Sums(Having(I, BucketOf(2), s))["items"] \in Nat
        <5>1. Having(I, BucketOf(2), s) \in SUBSET All
          BY <1>2 DEF Having
        <5> QED
          BY <1>8, <5>1, SumsAre
      <4> QED
        BY <1>7, <2>1, <4>1 DEF SumsOfKeys
    <3>3. per = [s \in {h \in S : f[h] > 0} |-> f[s]]
      BY <1>5, <1>7, <2>1
    <3> HIDE DEF f
    <3>4. SumFunctionOnSet(f, S) = Items(I)
      BY <1>2, <1>7, <2>1, <3>1, ItemKeys
    <3>5. SumFunction(per) = SumFunctionOnSet(f, S)
      BY <1>7, <2>1, <3>2, <3>3, WithoutZeros
    <3> QED
      BY <1>6, <3>4, <3>5 DEF Items
  <2>2. CASE ~p.daily
    <3> DEFINE f == Vals("items")
    <3>1. IsFiniteSet(I) /\ Sums(I)["items"] = SumFunctionOnSet(f, I) /\ \A i \in I : f[i] \in Nat
      BY <1>2, <1>8, SumsAre
    <3>2. per = [i \in {r \in I : f[r] > 0} |-> f[i]]
      BY <1>2, <1>5, <2>2 DEF Vals
    <3> HIDE DEF f
    <3>3. SumFunction(per) = SumFunctionOnSet(f, I)
      BY <3>1, <3>2, WithoutZeros
    <3> QED
      BY <1>6, <3>1, <3>3
  <2> QED
    BY <2>1, <2>2
<1>10. t.good_read \in Nat /\ t.no_read \in Nat /\ t.hand_scanned \in Nat
  BY <1>2, <1>6, <1>8, SumsAre
<1> DEFINE hand == Min({t.hand_scanned, t.no_read})
<1>11. pie = [good |-> t.good_read, hand |-> hand, notRecovered |-> t.no_read - hand]
  BY DEF Partition
<1>12. hand \in Int /\ hand <= t.no_read
  BY <1>10, LeastOfTwo
<1> HIDE DEF hand, pie
<1>13. /\ pie.good + pie.hand + pie.notRecovered = t.good_read + t.no_read
       /\ pie.notRecovered >= 0
  BY <1>10, <1>11, <1>12
<1>14. p.daily => AddUp(hours) = t
  BY <1>6, <1>7
<1> QED
  BY <1>1, <1>6, <1>9, <1>13, <1>14 DEF p, w, t, pie, per, I, hours

-----------------------------------------------------------------------------
(* What a page shows of a key is the sum of its rows, if it has some. *)
LEMMA ShownIs ==
    ASSUME PagesIInv, NEW I \in SUBSET All, NEW K, NEW key
    PROVE  Shown(SumsBy(I, K), key) = Sums(Having(I, K, key))
<1>1. DOMAIN SumsBy(I, K) = KeysOf(I, K)
  BY GroupsAre
<1>2. CASE key \in KeysOf(I, K)
  BY <1>1, <1>2, GroupsAre DEF Shown
<1>3. CASE key \notin KeysOf(I, K)
  <2>1. Having(I, K, key) = {}
    BY <1>3 DEF KeysOf, Having
  <2> QED
    BY <1>1, <1>3, <2>1 DEF Shown
<1> QED
  BY <1>2, <1>3

(* Hours are the same in local time and in UTC, and a day of UTC is whole  *)
(* hours.                                                                  *)
LEMMA HoursAre ==
    ASSUME NEW t \in Int
    PROVE  /\ t \div 2 \in Int /\ 2 * (t \div 2) <= t /\ t < 2 * (t \div 2) + 2
           /\ Floor(t, 2) = 2 * (t \div 2)
           /\ Floor(Local(t), 2) - 2 * Offset = 2 * (t \div 2)
           /\ UtcDay(t) = (t \div 2) \div HoursPerDay
<1>1. /\ t \div 2 \in Int /\ 2 * (t \div 2) <= t /\ t < 2 * (t \div 2) + 2
      /\ Floor(t, 2) = 2 * (t \div 2)
  <2>1. 2 \in Nat \ {0}
    OBVIOUS
  <2>2. /\ Floor(t, 2) = 2 * (t \div 2) /\ t \div 2 \in Int
        /\ Floor(t, 2) <= t /\ t < Floor(t, 2) + 2
    BY <2>1, FloorIs
  <2> QED
    BY <2>2
<1>2. Floor(Local(t), 2) - 2 * Offset = 2 * (t \div 2)
  <2>1. Offset \in Nat /\ Local(t) = t + 2 * Offset
    BY Units DEF Local
  <2> QED
    BY <2>1 DEF Floor
<1>3. UtcDay(t) = (t \div 2) \div HoursPerDay
  <2> DEFINE h == t \div 2
             day == h \div HoursPerDay
             r == h % HoursPerDay
             e == t - 2 * h
  <2>1. /\ HoursPerDay \in Nat \ {0} /\ Day = 2 * HoursPerDay
        /\ Day \in Nat \ {0} /\ h \in Int
    BY <1>1, Units DEF Day
  <2>2. day \in Int /\ r \in 0 .. HoursPerDay - 1 /\ h = HoursPerDay * day + r
    <3> HIDE DEF h
    <3> QED BY <2>1, DivMod
  <2>3. e \in 0 .. 1 /\ t = 2 * h + e
    BY <1>1
  <2> HIDE DEF h, day, r, e
  <2> DEFINE hd == HoursPerDay * day
  <2>4. hd \in Int /\ Day * day = 2 * hd
    BY <2>1, <2>2
  <2>5. h = hd + r
    BY <2>2
  <2> HIDE DEF hd
  <2>6. t = Day * day + (2 * r + e) /\ 2 * r + e \in 0 .. Day - 1
    BY <2>1, <2>2, <2>3, <2>4, <2>5
  <2> DEFINE rest == 2 * r + e
  <2>7. (Day * day + rest) \div Day = day
    <3> HIDE DEF rest
    <3> QED BY <2>1, <2>2, <2>6, DivIs DEF rest
  <2> QED
    BY <2>6, <2>7 DEF UtcDay, day, h
<1> QED
  BY <1>1, <1>2, <1>3

(* The rows of an hour, and those of a device.                             *)
InHour(h) == {i \in All : Ts(i) \div 2 = h}
HourRows(d, h) == {i \in RowsOf({d}) : Ts(i) \div 2 = h}

(* On an axis of whole hours a bucket has all rows of its hour.            *)
LEMMA HourBucket ==
    ASSUME PagesIInv, NEW d, NEW from \in Int, NEW end \in Int,
           NEW c \in Int, from + 2 * Offset = 2 * c, NEW e \in Int, end + 2 * Offset = 2 * e
    PROVE  /\ IsFiniteSet(BucketStarts(from, end, 2))
           /\ DOMAIN Buckets(d, 2, from, end) = BucketStarts(from, end, 2)
           /\ \A s \in BucketStarts(from, end, 2) :
                 /\ s \in Int /\ s = 2 * (s \div 2)
                 /\ Buckets(d, 2, from, end)[s] = Sums(HourRows(d, s \div 2))
<1> DEFINE S == BucketStarts(from, end, 2)
           I == Between(RowsOf({d}), from, end)
<1>0. Offset \in Nat
  BY Units
<1>1. BucketsHold(d, 2, from, end)
  <2>1. 2 \in Nat \ {0}
    OBVIOUS
  <2> QED
    BY <2>1, BucketsAre
<1>2. ASSUME NEW s \in S
      PROVE  s \in Int /\ s = 2 * (s \div 2) /\ from <= s /\ s + 2 <= end
  <2>1. s \in from .. end - 1 /\ (s - from) % 2 = 0
    BY DEF BucketStarts
  <2>2. from = 2 * (c - Offset) /\ end = 2 * (e - Offset)
    BY <1>0
  <2> QED
    BY <1>0, <2>1, <2>2
<1>3. ASSUME NEW s \in S
      PROVE  Having(I, BucketOf(2), s) = HourRows(d, s \div 2)
  <2>1. ASSUME NEW i \in RowsOf({d})
        PROVE  (from <= Ts(i) /\ Ts(i) < end /\ BucketOf(2)[i] = s) <=> Ts(i) \div 2 = s \div 2
    <3>1. i \in All /\ Ts(i) \in Int
      BY RowsAre DEF RowsOf
    <3>2. BucketOf(2)[i] = 2 * (Ts(i) \div 2)
      BY <3>1, HoursAre DEF BucketOf
    <3>3. /\ Ts(i) \div 2 \in Int /\ s \div 2 \in Int
          /\ 2 * (Ts(i) \div 2) <= Ts(i) /\ Ts(i) < 2 * (Ts(i) \div 2) + 2
      BY <1>2, <3>1, HoursAre
    <3> HIDE DEF S
    <3> QED
      BY <1>2, <3>1, <3>2, <3>3
  <2> QED
    BY <2>1 DEF Having, Between, HourRows
<1>4. \A s \in S : Buckets(d, 2, from, end)[s] = Sums(HourRows(d, s \div 2))
  BY <1>1, <1>3 DEF BucketsHold, SumsOfKeys
<1> QED
  BY <1>1, <1>2, <1>4 DEF BucketsHold

(* The hours of the last days of a device page.                            *)
LEMMA HoursOfPage ==
    ASSUME PagesIInv, NEW d
    PROVE  LET w == Window(Presets.d7)
               axis == BucketStarts(w.from, w.end, 2)
               hours == Hourly(d, Presets.d7)
           IN  /\ w.from \in Int /\ w.end \in Int
               /\ \E c \in Int : w.from + 2 * Offset = 2 * c
               /\ IsFiniteSet(axis) /\ DOMAIN hours = axis
               /\ \A s \in axis : /\ s \in Int /\ s = 2 * (s \div 2)
                                  /\ hours[s] = Sums(HourRows(d, s \div 2))
<1> DEFINE p == Presets.d7
           w == Window(p)
           first == LocalDay(now) - DaysPerWeek + 1
           next == LocalDay(now) + 1
<1>1. p.daily = TRUE /\ p.bucket = Day /\ p.span = DaysPerWeek * Day
  BY Units DEF Presets
<1>2. /\ HoursPerDay \in Nat /\ Offset \in Nat /\ Day = 2 * HoursPerDay
      /\ first \in Int /\ next \in Int /\ DaysPerWeek \in Nat \ {0}
  BY Units, LocalDays, Midnights DEF Day
<1>3. /\ w.from \in Int /\ w.end \in Int
      /\ w.from = Day * first - 2 * Offset /\ w.end = Day * next - 2 * Offset
  <2> HIDE DEF p
  <2>1. LET v == Window(p)
        IN  /\ v.from \in Int /\ v.end \in Int /\ v.from <= now /\ now < v.end
            /\ v.from = Day * (LocalDay(now) - DaysPerWeek + 1) - 2 * Offset
            /\ v.end = Day * (LocalDay(now) + 1) - 2 * Offset
    BY <1>1, <1>2, WindowOfDays
  <2> QED BY <2>1
<1>4. Hourly(d, p) = Buckets(d, 2, w.from, w.end)
  BY Zenon DEF Hourly, Buckets
<1> HIDE DEF w, first, next
<1> DEFINE c == HoursPerDay * first
           e == HoursPerDay * next
<1>5. /\ c \in Int /\ w.from + 2 * Offset = 2 * c
      /\ e \in Int /\ w.end + 2 * Offset = 2 * e
  BY <1>2, <1>3
<1> HIDE DEF c, e, p
<1>6. /\ IsFiniteSet(BucketStarts(w.from, w.end, 2))
      /\ DOMAIN Buckets(d, 2, w.from, w.end) = BucketStarts(w.from, w.end, 2)
      /\ \A s \in BucketStarts(w.from, w.end, 2) :
            /\ s \in Int /\ s = 2 * (s \div 2)
            /\ Buckets(d, 2, w.from, w.end)[s] = Sums(HourRows(d, s \div 2))
  BY <1>3, <1>5, HourBucket
<1> QED
  BY <1>3, <1>4, <1>5, <1>6, Zenon DEF w, p

-----------------------------------------------------------------------------
(* The marketing dashboard's hour of today, and all devices' pages.        *)
LEMMA PanelHours ==
    ASSUME PagesIInv, \A i \in All : UtcDay(Ts(i)) <= UtcDay(now),
           NEW s \in BucketStarts(Window(Presets.d7).from, Window(Presets.d7).end, 2),
           UtcDay(s) = UtcDay(now)
    PROVE  Shown(DashHourly, (s \div 2) % HoursPerDay)
               = AddUp([d \in Device |-> Hourly(d, Presets.d7)[s]])
<1> DEFINE h == s \div 2
           H == HoursPerDay
           K == [i \in All |-> (Ts(i) \div 2) % H]
           g == [d \in Device |-> Hourly(d, Presets.d7)[s]]
<1>0. H \in Nat \ {0} /\ InHour(h) \in SUBSET All /\ TodayRows \in SUBSET All
  BY Units DEF InHour, TodayRows, Since
<1>1. s \in Int /\ s = 2 * h /\ h \in Int
  BY HoursOfPage, HoursAre
<1>2. UtcDay(s) = h \div H /\ UtcDay(now) \in Int
  BY <1>1, HoursAre, UtcDays, Midnights
<1>3. Having(TodayRows, K, h % H) = InHour(h)
  <2>1. ASSUME NEW i \in All
        PROVE  (UtcMidnight <= Ts(i) /\ (Ts(i) \div 2) % H = h % H) <=> Ts(i) \div 2 = h
    <3> DEFINE q == Ts(i) \div 2
    <3>1. Ts(i) \in Int /\ q \in Int /\ UtcDay(Ts(i)) = q \div H
      BY RowsAre, HoursAre
    <3>2. UtcDay(now) <= UtcDay(Ts(i)) <=> UtcMidnight <= Ts(i)
      BY <1>2, <3>1, UtcDays, Midnights
    <3>3. UtcDay(Ts(i)) <= UtcDay(now)
      OBVIOUS
    <3> HIDE DEF q, h, H
    <3>4. q \div H \in Int /\ q = H * (q \div H) + (q % H) /\ h = H * (h \div H) + (h % H)
      BY <1>0, <1>1, <3>1, DivMod
    <3>5. UtcMidnight <= Ts(i) <=> q \div H = h \div H
      BY <1>2, <3>1, <3>2, <3>3, <3>4
    <3>6. q \div H = h \div H /\ q % H = h % H => q = h
      BY <3>4
    <3>7. UtcMidnight <= Ts(i) /\ q % H = h % H <=> q = h
      BY <3>5, <3>6
    <3> QED
      BY <3>7 DEF q
  <2> QED
    BY <2>1 DEF Having, TodayRows, Since, InHour
<1>4. Shown(DashHourly, h % H) = Sums(InHour(h))
  <2>1. DashHourly = SumsBy(TodayRows, K)
    BY DEF DashHourly
  <2> HIDE DEF K, h, H
  <2> QED
    BY <1>0, <1>3, <2>1, ShownIs
<1>5. AddUp(g) = Sums(InHour(h))
  <2>1. DOMAIN g = Device /\ IsFiniteSet(Device)
    BY TelemetryAssumption
  <2>2. SumsOfKeys(g, InHour(h), Devices, Device)
    <3> SUFFICES ASSUME NEW d \in Device
                 PROVE  g[d] = Sums(Having(InHour(h), Devices, d))
      BY DEF SumsOfKeys
    <3>1. g[d] = Sums(HourRows(d, h))
      BY HoursOfPage
    <3>2. HourRows(d, h) = Having(InHour(h), Devices, d)
      BY DEF HourRows, InHour, Having, RowsOf, Devices
    <3> QED
      BY <3>1, <3>2
  <2>3. HavingAny(InHour(h), Devices, Device) = InHour(h)
    BY <1>0, RowsAre DEF HavingAny, Devices
  <2> HIDE DEF g, h
  <2> QED
    BY <1>0, <2>1, <2>2, <2>3, AddUpKeys
<1> QED
  BY <1>4, <1>5

(* The hours of the fleet page.                                            *)
LEMMA SparkHours ==
    ASSUME PagesIInv, NEW d
    PROVE  LET next == Floor(now, 2) + 2
           IN  /\ next \in Int /\ next \div 2 \in Int /\ next = 2 * (next \div 2)
               /\ now < next /\ next <= now + 2
               /\ IsFiniteSet(DOMAIN Spark(d))
               /\ DOMAIN Spark(d) = {h \in next - Day .. next - 1 : h = 2 * (h \div 2)}
               /\ \A h \in DOMAIN Spark(d) : Spark(d)[h] = Items(HourRows(d, h \div 2))
<1> DEFINE next == Floor(now, 2) + 2
           q == now \div 2
           I == Since(RowsOf({d}), now - Day)
           K == [i \in All |-> Floor(Ts(i), 2)]
           H == {Floor(now, 2) - 2 * n : n \in 0 .. HoursPerDay - 1}
           T == {h \in next - Day .. next - 1 : h = 2 * (h \div 2)}
           s == Spark(d)
<1>1. I \in SUBSET All
  BY DEF Since, RowsOf
<1>2. /\ HoursPerDay \in Nat \ {0} /\ Day = 2 * HoursPerDay /\ Day \in Nat
      /\ now \in Int /\ q \in Int /\ Floor(now, 2) = 2 * q /\ 2 * q <= now /\ now < 2 * q + 2
  BY Units, Midnights, HoursAre DEF Day
<1>3. next = 2 * (q + 1) /\ next \in Int /\ now < next /\ next <= now + 2
  BY <1>2
<1>4. H = T
  <2> HIDE DEF q
  <2>1. ASSUME NEW n \in 0 .. HoursPerDay - 1
        PROVE  Floor(now, 2) - 2 * n \in T
    <3> DEFINE h == 2 * (q - n)
    <3>1. h = Floor(now, 2) - 2 * n /\ h \in Int /\ h = 2 * (h \div 2)
      BY <1>2
    <3>2. next - Day <= h /\ h <= next - 1
      BY <1>2, <1>3
    <3> HIDE DEF h, next
    <3>3. next - Day \in Int /\ next - 1 \in Int
      BY <1>2, <1>3
    <3> QED
      BY <3>1, <3>2, <3>3
  <2>2. ASSUME NEW h \in T
        PROVE  h \in H
    <3> DEFINE n == q - (h \div 2)
    <3>1. h \in Int /\ next - Day <= h /\ h <= next - 1 /\ h = 2 * (h \div 2)
      BY <1>2, <1>3
    <3>2. n \in 0 .. HoursPerDay - 1 /\ h = Floor(now, 2) - 2 * n
      BY <1>2, <1>3, <3>1
    <3> HIDE DEF n
    <3> QED
      BY <3>2
  <2> HIDE DEF T
  <2> QED
    BY <2>1, <2>2
<1>5. IsFiniteSet(T)
  <2>1. IsFiniteSet(next - Day .. next - 1)
    BY <1>2, <1>3, FS_Interval
  <2> QED
    BY <2>1, FS_Subset
<1>6. s = [h \in H |-> IF h \in DOMAIN ItemsBy(I, K) THEN ItemsBy(I, K)[h] ELSE 0]
  BY DEF Spark
<1>7. ASSUME NEW h \in T
      PROVE  Having(I, K, h) = HourRows(d, h \div 2)
  <2>1. h \in Int /\ next - Day <= h /\ h = 2 * (h \div 2) /\ h \div 2 \in Int
    BY <1>2, <1>3
  <2>2. ASSUME NEW i \in RowsOf({d})
        PROVE  (now - Day <= Ts(i) /\ K[i] = h) <=> Ts(i) \div 2 = h \div 2
    <3>1. i \in All /\ Ts(i) \in Int
      BY RowsAre DEF RowsOf
    <3>2. /\ Ts(i) \div 2 \in Int /\ K[i] = 2 * (Ts(i) \div 2) /\ 2 * (Ts(i) \div 2) <= Ts(i)
      BY <3>1, HoursAre
    <3> HIDE DEF K, T, next, q
    <3> QED
      BY <1>2, <1>3, <2>1, <3>1, <3>2
  <2> QED
    BY <2>2 DEF Having, Since, HourRows
<1> HIDE DEF s, H, T, I, K, q
<1>8. DOMAIN ItemsBy(I, K) = KeysOf(I, K)
  BY <1>1, GroupsAre
<1>9. ASSUME NEW h \in T
      PROVE  s[h] = Items(HourRows(d, h \div 2))
  <2>1. CASE h \in KeysOf(I, K)
    BY <1>1, <1>4, <1>6, <1>7, <1>8, <2>1, GroupsAre
  <2>2. CASE h \notin KeysOf(I, K)
    <3>1. Having(I, K, h) = {}
      BY <2>2 DEF KeysOf, Having
    <3> QED
      BY <1>4, <1>6, <1>7, <1>8, <2>2, <3>1, NoRowsNoSum
  <2> QED
    BY <2>1, <2>2
<1>10. DOMAIN s = T
  BY <1>4, <1>6
<1>11. next \div 2 \in Int /\ next = 2 * (next \div 2)
  BY <1>2, <1>3
<1> QED
  BY <1>3, <1>5, <1>9, <1>10, <1>11 DEF s, T

(* They are hours of the device page. *)
LEMMA SparkOnPage ==
    ASSUME PagesIInv, NEW d, NEW h \in DOMAIN Spark(d)
    PROVE  Spark(d)[h] = Series(d, Presets.d2)[h].items
<1> DEFINE p == Presets.d2
           w == Window(p)
           q == now \div 2
           next == Floor(now, 2) + 2
           S == BucketStarts(w.from, w.end, 2)
<1>1. /\ HoursPerDay \in Nat \ {0} /\ Offset \in Nat /\ Day = 2 * HoursPerDay /\ Day \in Nat
      /\ now \in Int /\ q \in Int /\ Floor(now, 2) = 2 * q
  BY Units, Midnights, HoursAre DEF Day
<1>2. w = [from |-> Floor(now, 2) - 2 * Day + 2, end |-> Floor(now, 2) + 2]
  BY DEF Window, Presets
<1>3. Series(d, p) = Buckets(d, 2, w.from, w.end)
  <2>1. p.bucket = 2
    BY DEF Presets
  <2> QED
    BY <2>1, Zenon DEF Series, Buckets
<1>4. h \in next - Day .. next - 1 /\ h = 2 * (h \div 2) /\ next \in Int
  BY SparkHours
<1> HIDE DEF p, w
<1>5. w.from = next - 2 * Day /\ w.end = next /\ next = 2 * (q + 1)
  BY <1>1, <1>2
<1>6. /\ w.from \in Int /\ w.end \in Int
      /\ w.from + 2 * Offset = 2 * (q + 1 - Day + Offset)
      /\ w.end + 2 * Offset = 2 * (q + 1 + Offset)
  BY <1>1, <1>5
<1>7. h \in S
  <2>1. h \in w.from .. w.end - 1 /\ (h - w.from) % 2 = 0
    <3> HIDE DEF next, q
    <3> QED BY <1>1, <1>4, <1>5
  <2> QED
    BY <2>1 DEF BucketStarts
<1> DEFINE c == q + 1 - Day + Offset
           e == q + 1 + Offset
<1>8. c \in Int /\ e \in Int /\ w.from + 2 * Offset = 2 * c /\ w.end + 2 * Offset = 2 * e
  BY <1>1, <1>6
<1> HIDE DEF c, e, S, q, next
<1>9. \A x \in S : Buckets(d, 2, w.from, w.end)[x] = Sums(HourRows(d, x \div 2))
  BY <1>6, <1>8, HourBucket DEF S
<1>10. Spark(d)[h] = Items(HourRows(d, h \div 2))
  BY SparkHours
<1>11. Series(d, p)[h].items = Items(HourRows(d, h \div 2))
  BY <1>3, <1>7, <1>9 DEF Items
<1> QED
  BY <1>10, <1>11 DEF p

(* Items of rows split in two. *)
LEMMA ItemsOfTwo ==
    ASSUME PagesIInv, NEW A \in SUBSET All, NEW B \in SUBSET All, A \cap B = {}
    PROVE  /\ Items(A \cup B) = Items(A) + Items(B)
           /\ Items(A) \in Nat /\ Items(B) \in Nat
<1> DEFINE f == Vals("items")
<1>1. "items" \in Part /\ A \cup B \in SUBSET All
  BY DEF Part
<1>2. /\ Items(A) = SumFunctionOnSet(f, A) /\ Items(B) = SumFunctionOnSet(f, B)
      /\ Items(A \cup B) = SumFunctionOnSet(f, A \cup B)
      /\ Items(A) \in Nat /\ Items(B) \in Nat
      /\ IsFiniteSet(A \cup B) /\ \A i \in A \cup B : f[i] \in Nat
  BY <1>1, SumsAre DEF Items
<1> HIDE DEF f
<1>3. SumFunctionOnSet(f, A \cup B) = SumFunctionOnSet(f, A) + SumFunctionOnSet(f, B)
  <2> DEFINE S == A \cup B
  <2>1. A \in SUBSET S /\ B \in SUBSET S /\ IsFiniteSet(S) /\ \A i \in S : f[i] \in Int
    BY <1>2
  <2> HIDE DEF S
  <2>2. SumFunctionOnSet(f, A \cup B) = SumFunctionOnSet(f, A) + SumFunctionOnSet(f, B)
    BY <2>1, SumUnion
  <2> QED
    BY <2>2
<1> QED
  BY <1>2, <1>3

(* What the fleet page shows of a device's last hours, packet for packet.  *)
LEMMA SparkIs ==
    ASSUME PagesIInv, NEW d
    PROVE  LET next == Floor(now, 2) + 2
           IN  SumFunction(Spark(d)) = Items(Between(RowsOf({d}), next - Day, next))
<1> DEFINE next == Floor(now, 2) + 2
           I == Between(RowsOf({d}), next - Day, next)
           K == [i \in All |-> Floor(Ts(i), 2)]
           T == DOMAIN Spark(d)
<1>1. I \in SUBSET All
  BY DEF Between, RowsOf
<1>2. /\ next \in Int /\ next \div 2 \in Int /\ next = 2 * (next \div 2) /\ IsFiniteSet(T)
      /\ T = {h \in next - Day .. next - 1 : h = 2 * (h \div 2)}
      /\ \A h \in T : Spark(d)[h] = Items(HourRows(d, h \div 2))
  BY SparkHours
<1>3. HoursPerDay \in Nat /\ Day = 2 * HoursPerDay
  BY Units DEF Day
<1> HIDE DEF next, T
<1>4. ASSUME NEW i \in RowsOf({d})
      PROVE  /\ i \in All /\ Ts(i) \in Int /\ Ts(i) \div 2 \in Int
             /\ K[i] = 2 * (Ts(i) \div 2) /\ K[i] <= Ts(i) /\ Ts(i) < K[i] + 2
  <2>1. i \in All /\ Ts(i) \in Int
    BY RowsAre DEF RowsOf
  <2> QED
    BY <2>1, HoursAre
<1> DEFINE n == next \div 2
<1>5. n \in Int /\ next = 2 * n /\ next - Day = 2 * (n - HoursPerDay)
  BY <1>2, <1>3
<1> HIDE DEF n
<1>6. ASSUME NEW h \in T
      PROVE  Having(I, K, h) = HourRows(d, h \div 2)
  <2>1. h \in Int /\ h = 2 * (h \div 2) /\ h \div 2 \in Int /\ next - Day <= h /\ h < next
    BY <1>2, <1>3
  <2>2. ASSUME NEW i \in RowsOf({d})
        PROVE  (next - Day <= Ts(i) /\ Ts(i) < next /\ K[i] = h) <=> Ts(i) \div 2 = h \div 2
    <3>1. /\ Ts(i) \in Int /\ Ts(i) \div 2 \in Int
          /\ K[i] = 2 * (Ts(i) \div 2) /\ K[i] <= Ts(i) /\ Ts(i) < K[i] + 2
      BY <1>4
    <3> HIDE DEF K
    <3> QED
      BY <1>3, <1>5, <2>1, <3>1
  <2> QED
    BY <2>2 DEF Having, Between, HourRows
<1>7. ASSUME NEW i \in I
      PROVE  K[i] \in T
  <2>1. i \in RowsOf({d}) /\ next - Day <= Ts(i) /\ Ts(i) < next
    BY DEF Between
  <2>2. /\ Ts(i) \in Int /\ Ts(i) \div 2 \in Int
        /\ K[i] = 2 * (Ts(i) \div 2) /\ K[i] <= Ts(i) /\ Ts(i) < K[i] + 2
    BY <1>4, <2>1
  <2> HIDE DEF K, I
  <2>3. next - Day <= K[i] /\ K[i] < next /\ K[i] \in Int /\ K[i] = 2 * (K[i] \div 2)
    BY <1>3, <1>5, <2>1, <2>2
  <2> QED
    BY <1>2, <1>3, <2>3
<1>8. ItemsOfKeys(Spark(d), I, K, T)
  BY <1>2, <1>6 DEF ItemsOfKeys
<1>9. HavingAny(I, K, T) = I
  BY <1>7 DEF HavingAny
<1> HIDE DEF I, K
<1>10. SumFunction(Spark(d)) = Items(HavingAny(I, K, T))
  BY <1>1, <1>2, <1>8, ItemKeys DEF T
<1>11. SumFunction(Spark(d)) = Items(I)
  BY <1>9, <1>10
<1> QED
  BY <1>11, Zenon DEF I, next

(* The statistics page and the fleet page, over the last day. *)
LEMMA SparklineIs ==
    ASSUME PagesIInv
    PROVE  LET next == Floor(now, 2) + 2
           IN  SumFunction(Sparkline)
                   = SumFunction([d \in Device |-> SumFunction(Spark(d))])
                     + Items(Between(All, now - Day, next - Day)) + Items(Since(All, next))
<1> DEFINE next == Floor(now, 2) + 2
           f == [d \in Device |-> SumFunction(Spark(d))]
           A == Between(All, now - Day, next - Day)
           B == Between(All, next - Day, next)
           C == Since(All, next)
           I == Since(All, now - Day)
<1>1. A \in SUBSET All /\ B \in SUBSET All /\ C \in SUBSET All /\ I \in SUBSET All
  BY DEF Between, Since
<1>2. SumFunction(Sparkline) = Items(I)
  BY <1>1, AllKeys DEF Sparkline
<1>3. SumFunction(f) = Items(B)
  <2>1. DOMAIN f = Device /\ IsFiniteSet(Device)
    BY TelemetryAssumption
  <2>2. ItemsOfKeys(f, B, Devices, Device)
    <3>1. ASSUME NEW d \in Device
          PROVE  Between(RowsOf({d}), next - Day, next) = Having(B, Devices, d)
      BY DEF Between, RowsOf, Having, Devices
    <3>2. \A d \in Device : SumFunction(Spark(d)) = Items(Between(RowsOf({d}), next - Day, next))
      BY SparkIs, Zenon
    <3>3. \A d \in Device : f[d] = SumFunction(Spark(d))
      OBVIOUS
    <3> HIDE DEF f, B, next
    <3> QED
      BY <3>1, <3>2, <3>3 DEF ItemsOfKeys
  <2>3. HavingAny(B, Devices, Device) = B
    BY <1>1, RowsAre DEF HavingAny, Devices
  <2> HIDE DEF f, B
  <2> QED
    BY <1>1, <2>1, <2>2, <2>3, ItemKeys
<1>4. /\ now \in Int /\ Day \in Nat \ {0} /\ next \in Int
      /\ now < next /\ next <= now + 2 /\ \A i \in All : Ts(i) \in Int
  BY Midnights, Units, RowsAre, SparkHours
<1> HIDE DEF next
<1>5. now - Day <= next - Day /\ next - Day < next
  BY <1>4
<1>6. I = (A \cup B) \cup C /\ A \cap B = {} /\ (A \cup B) \cap C = {}
  <2>1. ASSUME NEW i \in All
        PROVE  now - Day <= Ts(i) <=>
                  \/ now - Day <= Ts(i) /\ Ts(i) < next - Day
                  \/ next - Day <= Ts(i) /\ Ts(i) < next
                  \/ next <= Ts(i)
    BY <1>4, <1>5
  <2>2. ASSUME NEW i \in All
        PROVE  /\ ~(Ts(i) < next - Day /\ next - Day <= Ts(i))
               /\ ~(Ts(i) < next - Day /\ next <= Ts(i))
               /\ ~(Ts(i) < next /\ next <= Ts(i))
    BY <1>4, <1>5
  <2> QED
    BY <2>1, <2>2 DEF Between, Since
<1> HIDE DEF f, A, B, C, I
<1>7. Items(A \cup B) = Items(A) + Items(B) /\ Items(A) \in Nat /\ Items(B) \in Nat
  BY <1>1, <1>6, ItemsOfTwo
<1>8. Items(I) = Items(A \cup B) + Items(C) /\ Items(C) \in Nat
  BY <1>1, <1>6, ItemsOfTwo
<1>9. Items(I) = Items(B) + Items(A) + Items(C)
  BY <1>7, <1>8
<1> QED
  BY <1>2, <1>3, <1>9 DEF f, A, B, C, I, next

LEMMA HoursAgree == PagesIInv => HoursReconcile
<1> SUFFICES ASSUME PagesIInv
             PROVE  HoursReconcile
  OBVIOUS
<1> DEFINE w == Window(Presets.d7)
<1>1. ASSUME \A i \in All : UtcDay(Ts(i)) <= UtcDay(now),
             NEW s \in BucketStarts(w.from, w.end, 2), UtcDay(s) = UtcDay(now)
      PROVE  Shown(DashHourly, (s \div 2) % HoursPerDay)
                 = AddUp([d \in Device |-> FleetHours[d][s]])
  <2>1. [d \in Device |-> FleetHours[d][s]] = [d \in Device |-> Hourly(d, Presets.d7)[s]]
    BY DEF FleetHours
  <2> QED
    BY <1>1, <2>1, PanelHours
<1> DEFINE spark == [d \in Device |-> Spark(d)]
<1>2. ASSUME NEW d \in Device, NEW h \in DOMAIN spark[d]
      PROVE  spark[d][h] = Series(d, Presets.d2)[h].items
  BY SparkOnPage
<1>3. LET next == Floor(now, 2) + 2
      IN  SumFunction(Sparkline)
              = SumFunction([d \in Device |-> SumFunction(spark[d])])
                + Items(Between(All, now - Day, next - Day)) + Items(Since(All, next))
  <2>1. [d \in Device |-> SumFunction(spark[d])] = [d \in Device |-> SumFunction(Spark(d))]
    OBVIOUS
  <2> HIDE DEF spark
  <2> QED
    BY <2>1, SparklineIs, Zenon
<1> QED
  BY <1>1, <1>2, <1>3, Zenon DEF HoursReconcile
-----------------------------------------------------------------------------
(* A row of a table of the history.                                        *)
LEMMA HistoryIs ==
    ASSUME PagesIInv, NEW from \in Int, NEW to \in Int
    PROVE  LET h == History(Device, from, to)
           IN  /\ \A d \in Device : Shown(h.machineSummary, d)
                     = Sums({i \in RowsOf({d}) : from <= UtcDay(Ts(i)) /\ UtcDay(Ts(i)) <= to})
               /\ \A day \in from .. to :
                     /\ Shown(h.fleetDaily, day) = Sums({i \in All : UtcDay(Ts(i)) = day})
                     /\ \A d \in Device : Shown(h.daily, <<day, d>>)
                           = Sums({i \in RowsOf({d}) : UtcDay(Ts(i)) = day})
                     /\ \A c : Shown(h.customerDaily, <<day, c>>)
                           = Sums({i \in All : UtcDay(Ts(i)) = day /\ Owners[i] = c})
<1> DEFINE R == HistoryRows(Device, from, to)
           KD == [i \in All |-> <<UtcDay(Ts(i)), store[i].device>>]
           KF == [i \in All |-> UtcDay(Ts(i))]
           KC == [i \in All |-> <<UtcDay(Ts(i)), CustomerOf[store[i].device]>>]
           h == History(Device, from, to)
<1>1. /\ h.daily = SumsBy(R, KD) /\ h.fleetDaily = SumsBy(R, KF)
      /\ h.machineSummary = SumsBy(R, Devices) /\ h.customerDaily = SumsBy(R, KC)
  BY DEF History, Devices
<1>2. /\ R \in SUBSET All
      /\ R = {i \in All : from <= UtcDay(Ts(i)) /\ UtcDay(Ts(i)) <= to}
  BY RowsAre DEF HistoryRows, RowsOf
<1>3. \A i \in All : UtcDay(Ts(i)) \in Int
  BY RowsAre, UtcDays
<1>4. \A day \in from .. to : from <= day /\ day <= to
  OBVIOUS
<1> HIDE DEF h
<1>5. ASSUME NEW d \in Device
      PROVE  Having(R, Devices, d)
                 = {i \in RowsOf({d}) : from <= UtcDay(Ts(i)) /\ UtcDay(Ts(i)) <= to}
  BY <1>2 DEF Having, Devices, RowsOf
<1>6. ASSUME NEW day \in from .. to
      PROVE  /\ Having(R, KF, day) = {i \in All : UtcDay(Ts(i)) = day}
             /\ \A d \in Device : Having(R, KD, <<day, d>>)
                   = {i \in RowsOf({d}) : UtcDay(Ts(i)) = day}
             /\ \A c : Having(R, KC, <<day, c>>)
                   = {i \in All : UtcDay(Ts(i)) = day /\ Owners[i] = c}
  <2>1. ASSUME NEW i \in All
        PROVE  UtcDay(Ts(i)) = day => i \in R
    BY <1>2, <1>4
  <2>2. Having(R, KF, day) = {i \in All : UtcDay(Ts(i)) = day}
    BY <1>2, <2>1 DEF Having
  <2>3. ASSUME NEW d \in Device
        PROVE  Having(R, KD, <<day, d>>) = {i \in RowsOf({d}) : UtcDay(Ts(i)) = day}
    <3>1. \A i \in All : KD[i] = <<day, d>> <=> UtcDay(Ts(i)) = day /\ store[i].device \in {d}
      OBVIOUS
    <3> HIDE DEF KD, R
    <3> QED
      BY <1>2, <2>1, <3>1 DEF Having, RowsOf
  <2>4. ASSUME NEW c
        PROVE  Having(R, KC, <<day, c>>) = {i \in All : UtcDay(Ts(i)) = day /\ Owners[i] = c}
    <3>1. \A i \in All : KC[i] = <<day, c>> <=> UtcDay(Ts(i)) = day /\ Owners[i] = c
      BY DEF Owners
    <3> HIDE DEF KC, R
    <3> QED
      BY <1>2, <2>1, <3>1 DEF Having
  <2> QED
    BY <2>2, <2>3, <2>4
<1> HIDE DEF R, KD, KF, KC
<1>7. \A K, key : Shown(SumsBy(R, K), key) = Sums(Having(R, K, key))
  BY <1>2, ShownIs
<1>8. /\ \A d : Shown(h.machineSummary, d) = Sums(Having(R, Devices, d))
      /\ \A day : Shown(h.fleetDaily, day) = Sums(Having(R, KF, day))
      /\ \A key : Shown(h.daily, key) = Sums(Having(R, KD, key))
      /\ \A key : Shown(h.customerDaily, key) = Sums(Having(R, KC, key))
  BY <1>1, <1>7
<1>9. \A d \in Device : Shown(h.machineSummary, d)
          = Sums({i \in RowsOf({d}) : from <= UtcDay(Ts(i)) /\ UtcDay(Ts(i)) <= to})
  BY <1>5, <1>8
<1>10. ASSUME NEW day \in from .. to
       PROVE  /\ Shown(h.fleetDaily, day) = Sums({i \in All : UtcDay(Ts(i)) = day})
              /\ \A d \in Device : Shown(h.daily, <<day, d>>)
                    = Sums({i \in RowsOf({d}) : UtcDay(Ts(i)) = day})
              /\ \A c : Shown(h.customerDaily, <<day, c>>)
                    = Sums({i \in All : UtcDay(Ts(i)) = day /\ Owners[i] = c})
  <2>1. Shown(h.fleetDaily, day) = Sums({i \in All : UtcDay(Ts(i)) = day})
    BY <1>6, <1>8
  <2>2. \A d \in Device : Shown(h.daily, <<day, d>>)
                             = Sums({i \in RowsOf({d}) : UtcDay(Ts(i)) = day})
    BY <1>6, <1>8
  <2>3. ASSUME NEW c
        PROVE  Shown(h.customerDaily, <<day, c>>)
                   = Sums({i \in All : UtcDay(Ts(i)) = day /\ Owners[i] = c})
    <3>1. Having(R, KC, <<day, c>>) = {i \in All : UtcDay(Ts(i)) = day /\ Owners[i] = c}
      BY <1>6
    <3> QED
      BY <1>8, <3>1
  <2> QED
    BY <2>1, <2>2, <2>3
<1> QED
  BY <1>9, <1>10 DEF h

(* The trends start with a whole day.                                      *)
LEMMA TrendsAre ==
    ASSUME PagesIInv, NEW n \in Nat, NEW day \in Int, UtcDay(now) - n <= day
    PROVE  /\ Shown(Trend(n), day) = Sums({i \in All : UtcDay(Ts(i)) = day})
           /\ \A c : Shown(CustomerTrend(n), <<day, c>>)
                 = Sums({i \in All : UtcDay(Ts(i)) = day /\ Owners[i] = c})
<1> DEFINE first == UtcDay(now) - n
           from == UtcMidnight - n * Day
           I == Since(All, from)
           K == [i \in All |-> UtcDay(Ts(i))]
           KC == [i \in All |-> <<UtcDay(Ts(i)), CustomerOf[store[i].device]>>]
<1>1. UtcDay(now) \in Int /\ first \in Int /\ Day \in Nat /\ UtcMidnight = Day * UtcDay(now)
  BY Midnights, UtcDays, Units
<1>2. from = Day * first
  BY <1>1
<1>3. ASSUME NEW i \in All, UtcDay(Ts(i)) = day
      PROVE  i \in I
  <2>1. Ts(i) \in Int /\ first <= UtcDay(Ts(i))
    BY <1>1, <1>3, RowsAre
  <2> HIDE DEF first, from
  <2>2. Day * first <= Ts(i)
    BY <1>1, <2>1, UtcDays
  <2> QED
    BY <1>2, <2>2 DEF Since
<1>4. I \in SUBSET All
  BY DEF Since
<1>5. Trend(n) = SumsBy(I, K) /\ CustomerTrend(n) = SumsBy(I, KC)
  BY DEF Trend, CustomerTrend
<1>6. Having(I, K, day) = {i \in All : UtcDay(Ts(i)) = day}
  BY <1>3, <1>4 DEF Having
<1>7. ASSUME NEW c
      PROVE  Having(I, KC, <<day, c>>) = {i \in All : UtcDay(Ts(i)) = day /\ Owners[i] = c}
  <2>1. \A i \in All : KC[i] = <<day, c>> <=> UtcDay(Ts(i)) = day /\ Owners[i] = c
    BY DEF Owners
  <2> HIDE DEF I, KC
  <2> QED
    BY <1>3, <1>4, <2>1 DEF Having
<1> HIDE DEF I, K, KC
<1> QED
  BY <1>4, <1>5, <1>6, <1>7, ShownIs

(* The hours of a device page give any days of UTC that are within it.     *)
LEMMA HoursOfDays ==
    ASSUME PagesIInv, NEW d, NEW from \in Int, NEW to \in Int,
           Window(Presets.d7).from <= Day * from, Day * (to + 1) <= Window(Presets.d7).end
    PROVE  OnUtcDays(Hourly(d, Presets.d7), from, to)
               = Sums({i \in RowsOf({d}) : from <= UtcDay(Ts(i)) /\ UtcDay(Ts(i)) <= to})
<1> DEFINE w == Window(Presets.d7)
           axis == BucketStarts(w.from, w.end, 2)
           hours == Hourly(d, Presets.d7)
           S == {s \in axis : from <= UtcDay(s) /\ UtcDay(s) <= to}
           I == {i \in RowsOf({d}) : from <= UtcDay(Ts(i)) /\ UtcDay(Ts(i)) <= to}
           K == BucketOf(2)
           g == [s \in S |-> hours[s]]
<1>1. /\ w.from \in Int /\ w.end \in Int /\ \E c \in Int : w.from + 2 * Offset = 2 * c
      /\ IsFiniteSet(axis) /\ DOMAIN hours = axis
      /\ \A s \in axis : /\ s \in Int /\ s = 2 * (s \div 2)
                         /\ hours[s] = Sums(HourRows(d, s \div 2))
  BY HoursOfPage
<1>2. OnUtcDays(hours, from, to) = AddUp(g)
  BY <1>1 DEF OnUtcDays
<1>3. Day \in Nat \ {0} /\ Day * from \in Int /\ Day * (to + 1) \in Int
  BY Units
<1>4. w.from <= Day * from /\ Day * (to + 1) <= w.end
  OBVIOUS
<1> HIDE DEF w, axis, hours
<1>5. ASSUME NEW i \in All
      PROVE  /\ Ts(i) \in Int /\ Ts(i) \div 2 \in Int /\ K[i] \in Int /\ K[i] = 2 * (Ts(i) \div 2)
             /\ K[i] \div 2 = Ts(i) \div 2 /\ UtcDay(K[i]) = UtcDay(Ts(i))
  <2> DEFINE q == Ts(i) \div 2
  <2>1. Ts(i) \in Int /\ q \in Int /\ K[i] = 2 * q /\ UtcDay(Ts(i)) = q \div HoursPerDay
    BY RowsAre, HoursAre DEF BucketOf
  <2> HIDE DEF q, K
  <2>2. K[i] \in Int /\ K[i] \div 2 = q
    BY <2>1
  <2>3. UtcDay(K[i]) = q \div HoursPerDay
    BY <2>2, HoursAre
  <2> QED
    BY <2>1, <2>2, <2>3 DEF q
<1>6. ASSUME NEW i \in I
      PROVE  K[i] \in S
  <2>1. i \in All /\ from <= UtcDay(Ts(i)) /\ UtcDay(Ts(i)) <= to
    BY DEF RowsOf
  <2>2. Ts(i) \in Int /\ UtcDay(Ts(i)) \in Int
    BY <1>5, <2>1, UtcDays
  <2>3. w.from <= Ts(i)
    <3>1. Day * from <= Ts(i)
      BY <2>1, <2>2, UtcDays
    <3> QED
      BY <1>1, <1>3, <1>4, <2>2, <3>1
  <2>4. Ts(i) < w.end
    <3>1. to + 1 \in Int /\ ~(to + 1 <= UtcDay(Ts(i)))
      BY <2>1, <2>2
    <3>2. ~(Day * (to + 1) <= Ts(i))
      BY <2>2, <3>1, UtcDays
    <3> DEFINE next == Day * (to + 1)
    <3>3. next \in Int /\ ~(next <= Ts(i)) /\ next <= w.end
      BY <1>3, <1>4, <3>2
    <3> HIDE DEF next
    <3> QED
      BY <1>1, <2>2, <3>3
  <2>5. K[i] \in axis
    <3>1. PICK c \in Int : w.from + 2 * Offset = 2 * c
      BY <1>1
    <3>2. 2 \in Nat \ {0}
      OBVIOUS
    <3>3. Floor(Local(Ts(i)), 2) - 2 * Offset \in BucketStarts(w.from, w.end, 2)
      BY <1>1, <2>2, <2>3, <2>4, <3>1, <3>2, OnTheAxis
    <3> QED
      BY <2>1, <3>3 DEF BucketOf, axis
  <2> HIDE DEF K
  <2> QED
    BY <1>5, <2>1, <2>5
<1>7. ASSUME NEW s \in S
      PROVE  g[s] = Sums(Having(I, K, s))
  <2>1. s \in axis /\ from <= UtcDay(s) /\ UtcDay(s) <= to
    OBVIOUS
  <2>2. s \in Int /\ s = 2 * (s \div 2) /\ s \div 2 \in Int /\ hours[s] = Sums(HourRows(d, s \div 2))
    BY <1>1, <2>1, HoursAre
  <2>3. ASSUME NEW i \in RowsOf({d})
        PROVE  (from <= UtcDay(Ts(i)) /\ UtcDay(Ts(i)) <= to /\ K[i] = s)
                  <=> Ts(i) \div 2 = s \div 2
    <3>1. i \in All
      BY DEF RowsOf
    <3>2. /\ Ts(i) \div 2 \in Int /\ K[i] = 2 * (Ts(i) \div 2) /\ K[i] \div 2 = Ts(i) \div 2
          /\ UtcDay(K[i]) = UtcDay(Ts(i))
      BY <1>5, <3>1
    <3> HIDE DEF K, S
    <3>3. K[i] = s <=> Ts(i) \div 2 = s \div 2
      BY <2>2, <3>2
    <3>4. K[i] = s => UtcDay(Ts(i)) = UtcDay(s)
      BY <3>2
    <3> QED
      BY <2>1, <3>3, <3>4
  <2>4. Having(I, K, s) = HourRows(d, s \div 2)
    BY <2>3 DEF Having, HourRows
  <2> QED
    BY <2>2, <2>4
<1>8. I \in SUBSET All
  BY DEF RowsOf
<1>9. IsFiniteSet(S) /\ DOMAIN g = S
  BY <1>1, FS_Subset
<1>10. HavingAny(I, K, S) = I
  BY <1>6 DEF HavingAny
<1>11. SumsOfKeys(g, I, K, S)
  BY <1>7 DEF SumsOfKeys
<1> HIDE DEF g, S, I, K
<1>12. AddUp(g) = Sums(I)
  BY <1>8, <1>9, <1>10, <1>11, AddUpKeys
<1> QED
  BY <1>2, <1>12 DEF I, hours

LEMMA HistoryAgrees == PagesIInv => HistoryReconciles
<1> SUFFICES ASSUME PagesIInv
             PROVE  HistoryReconciles
  OBVIOUS
<1> DEFINE today == UtcDay(now)
           w == Window(Presets.d7)
           first == today - 2 * DaysPerWeek
           past == History(Device, first, today)
           trend == Trend(2 * DaysPerWeek)
           customers == CustomerTrend(DaysPerWeek)
<1>1. today \in Int /\ DaysPerWeek \in Nat /\ 2 * DaysPerWeek \in Nat /\ first \in Int
  BY Units, UtcDays, Midnights
<1>2. ASSUME NEW day \in first .. today
      PROVE  /\ Shown(past.fleetDaily, day) = Shown(trend, day)
             /\ day >= today - DaysPerWeek => \A c \in Customer :
                   Shown(past.customerDaily, <<day, c>>) = Shown(customers, <<day, c>>)
  <2>1. day \in Int /\ today - 2 * DaysPerWeek <= day
    BY <1>1
  <2>2. /\ Shown(past.fleetDaily, day) = Sums({i \in All : UtcDay(Ts(i)) = day})
        /\ \A c : Shown(past.customerDaily, <<day, c>>)
                     = Sums({i \in All : UtcDay(Ts(i)) = day /\ Owners[i] = c})
    <3> HIDE DEF today, first
    <3> QED BY <1>1, HistoryIs
  <2> HIDE DEF past, first
  <2>3. Shown(trend, day) = Sums({i \in All : UtcDay(Ts(i)) = day})
    BY <1>1, <2>1, TrendsAre
  <2>4. ASSUME day >= today - DaysPerWeek, NEW c \in Customer
        PROVE  Shown(customers, <<day, c>>)
                   = Sums({i \in All : UtcDay(Ts(i)) = day /\ Owners[i] = c})
    <3>1. today - DaysPerWeek <= day
      BY <1>1, <2>1, <2>4
    <3>2. \A x : Shown(CustomerTrend(DaysPerWeek), <<day, x>>)
                    = Sums({i \in All : UtcDay(Ts(i)) = day /\ Owners[i] = x})
      BY <1>1, <2>1, <3>1, TrendsAre
    <3> QED
      BY <3>2
  <2> HIDE DEF trend, customers
  <2> QED
    BY <2>2, <2>3, <2>4
<1>3. ASSUME NEW from \in today - DaysPerWeek .. today, NEW to \in today - DaysPerWeek .. today,
             w.from <= Day * from, Day * (to + 1) <= w.end, NEW d \in Device
      PROVE  LET h == History(Device, from, to)
             IN  /\ Shown(h.machineSummary, d) = OnUtcDays(FleetHours[d], from, to)
                 /\ \A day \in from .. to :
                       Shown(h.daily, <<day, d>>) = OnUtcDays(FleetHours[d], day, day)
  <2>1. from \in Int /\ to \in Int
    BY <1>1
  <2>2. FleetHours[d] = Hourly(d, Presets.d7)
    BY DEF FleetHours
  <2>3. OnUtcDays(FleetHours[d], from, to)
            = Sums({i \in RowsOf({d}) : from <= UtcDay(Ts(i)) /\ UtcDay(Ts(i)) <= to})
    BY <1>3, <2>1, <2>2, HoursOfDays
  <2>4. ASSUME NEW day \in from .. to
        PROVE  OnUtcDays(FleetHours[d], day, day) = Sums({i \in RowsOf({d}) : UtcDay(Ts(i)) = day})
    <3>1. day \in Int /\ from <= day /\ day <= to
      BY <2>1
    <3>2. w.from \in Int /\ w.end \in Int
      BY HoursOfPage
    <3>3. Day \in Nat /\ Day * from <= Day * day /\ Day * (day + 1) <= Day * (to + 1)
          /\ Day * from \in Int /\ Day * day \in Int
          /\ Day * (day + 1) \in Int /\ Day * (to + 1) \in Int
      BY <2>1, <3>1, Units, ProductMonotone
    <3> HIDE DEF w
    <3>4. w.from <= Day * day /\ Day * (day + 1) <= w.end
      <4> DEFINE a == Day * from
                 b == Day * day
                 x == Day * (day + 1)
                 y == Day * (to + 1)
      <4>1. a \in Int /\ b \in Int /\ x \in Int /\ y \in Int /\ a <= b /\ x <= y
            /\ w.from <= a /\ y <= w.end
        BY <1>3, <3>3
      <4> HIDE DEF a, b, x, y
      <4>2. w.from <= b /\ x <= w.end
        BY <3>2, <4>1
      <4> QED
        BY <4>2 DEF b, x
    <3>5. {i \in RowsOf({d}) : day <= UtcDay(Ts(i)) /\ UtcDay(Ts(i)) <= day}
              = {i \in RowsOf({d}) : UtcDay(Ts(i)) = day}
      <4>1. \A i \in RowsOf({d}) : UtcDay(Ts(i)) \in Int
        BY RowsAre, UtcDays DEF RowsOf
      <4>2. \A x \in Int : day <= x /\ x <= day <=> x = day
        BY <3>1
      <4> QED
        BY <4>1, <4>2
    <3>6. OnUtcDays(Hourly(d, Presets.d7), day, day)
              = Sums({i \in RowsOf({d}) : day <= UtcDay(Ts(i)) /\ UtcDay(Ts(i)) <= day})
      BY <3>1, <3>4, HoursOfDays DEF w
    <3> QED
      BY <2>2, <3>5, <3>6
  <2>5. /\ Shown(History(Device, from, to).machineSummary, d)
               = Sums({i \in RowsOf({d}) : from <= UtcDay(Ts(i)) /\ UtcDay(Ts(i)) <= to})
        /\ \A day \in from .. to : Shown(History(Device, from, to).daily, <<day, d>>)
               = Sums({i \in RowsOf({d}) : UtcDay(Ts(i)) = day})
    <3>1. LET h == History(Device, from, to)
          IN  /\ \A x \in Device : Shown(h.machineSummary, x)
                    = Sums({i \in RowsOf({x}) : from <= UtcDay(Ts(i)) /\ UtcDay(Ts(i)) <= to})
              /\ \A day \in from .. to : \A x \in Device : Shown(h.daily, <<day, x>>)
                    = Sums({i \in RowsOf({x}) : UtcDay(Ts(i)) = day})
      BY <2>1, HistoryIs
    <3> QED
      BY <3>1
  <2> QED
    BY <2>3, <2>4, <2>5
<1> QED
  BY <1>2, <1>3, TodayIsThisMonth, Zenon DEF HistoryReconciles

-----------------------------------------------------------------------------
(* The greatest of some numbers.                                           *)
LEMMA MaxIs ==
    ASSUME NEW S \in SUBSET Int, IsFiniteSet(S), S # {}
    PROVE  Max(S) \in S /\ \A x \in S : x <= Max(S)
<1>1. PICK g \in S : \A x \in S : x <= g
  BY GreatestInt
<1>2. \E g2 \in S : \A x \in S : g2 >= x
  BY <1>1
<1> QED
  BY <1>2 DEF Max

Times(I) == {Ts(i) : i \in I}

(* The dates of some rows.                                                 *)
LEMMA TimesAre ==
    ASSUME PagesIInv, NEW I \in SUBSET All
    PROVE  Times(I) \in SUBSET Int /\ IsFiniteSet(Times(I))
<1> DEFINE f == [i \in I |-> Ts(i)]
           T == Times(I)
<1>1. f \in Surjection(I, T)
  BY DEF Surjection, Times
<1>2. IsFiniteSet(I)
  BY RowsAre, FS_Subset
<1>3. T \in SUBSET Int
  BY RowsAre DEF Times
<1> HIDE DEF f, T
<1>4. IsFiniteSet(T)
  BY <1>1, <1>2, FS_Surjection
<1> QED
  BY <1>3, <1>4 DEF T

(* A device that was heard of is called offline or stale when its newest   *)
(* packet is Gap old.                                                      *)
LEMMA StateOfHeard ==
    ASSUME PagesIInv, NEW d \in Heard
    PROVE  LET seen == Times(RowsOf({d}))
           IN  /\ seen # {} /\ Max(seen) \in seen /\ \A t \in seen : t <= Max(seen)
               /\ State(d) \in {"offline", "stale"} <=> now - Max(seen) >= Gap
<1> DEFINE seen == Times(RowsOf({d}))
           age == now - Max(seen)
<1>1. RowsOf({d}) \in SUBSET All /\ seen # {}
  BY DEF Heard, RowsOf, Times
<1>2. Max(seen) \in seen /\ \A t \in seen : t <= Max(seen)
  BY <1>1, TimesAre, MaxIs
<1>3. Max(seen) \in Int /\ now \in Int /\ Gap \in Nat /\ StaleAge \in Nat /\ Gap < StaleAge
  BY <1>1, <1>2, TimesAre, TelemetryAssumption DEF PagesIInv
<1>4. State(d) = IF age >= StaleAge THEN "stale" ELSE IF age >= Gap THEN "offline" ELSE "online"
  BY <1>1 DEF State, Times
<1> HIDE DEF seen
<1>5. State(d) \in {"offline", "stale"} <=> age >= Gap
  <2>1. age \in Int
    BY <1>3
  <2> HIDE DEF age
  <2> QED
    BY <1>3, <1>4, <2>1
<1> QED
  BY <1>1, <1>2, <1>5 DEF seen

(* The outages of the device page and the state of the fleet page, as      *)
(* OutagesAreReal says.                                                    *)
LEMMA OutagesReal == PagesIInv => OutagesAreReal
<1> SUFFICES ASSUME PagesIInv, NEW d \in Heard, NEW name \in DOMAIN Presets
             PROVE  LET p == Presets[name]
                        out == Outages(d, p)
                        heard == {Ts(i) : i \in Since(RowsOf({d}), Window(p).from)}
                    IN  /\ \A o \in out : ~\E t \in heard : o.after < t /\ t < o.until
                        /\ (\E o \in out : o.open)
                             <=> /\ heard # {} /\ State(d) \in {"offline", "stale"}
                                 /\ now - Max(heard) # Gap
  BY Zenon DEF OutagesAreReal
<1> DEFINE p == Presets[name]
           w == Window(p)
           out == Outages(d, p)
           rows == Since(RowsOf({d}), w.from)
           heard == Times(rows)
           seen == Times(RowsOf({d}))
           closed == {ab \in heard \X heard :
                         /\ ab[2] - ab[1] > Gap
                         /\ ~\E t \in heard : ab[1] < t /\ t < ab[2]}
           silent == {t \in heard : now - t > Gap /\ \A u \in heard : u <= t}
<1>1. w.from \in Int /\ w.end \in Int /\ w.from <= now /\ now < w.end
  BY Ranges
<1>2. /\ seen # {} /\ Max(seen) \in seen /\ \A t \in seen : t <= Max(seen)
      /\ State(d) \in {"offline", "stale"} <=> now - Max(seen) >= Gap
  BY StateOfHeard
<1>3. RowsOf({d}) \in SUBSET All /\ rows \in SUBSET All
  BY DEF RowsOf, Since
<1>4. /\ heard \in SUBSET Int /\ IsFiniteSet(heard) /\ seen \in SUBSET Int
      /\ heard = {t \in seen : w.from <= t}
  <2>1. heard = {t \in seen : w.from <= t}
    BY DEF Times, Since
  <2> HIDE DEF rows
  <2> QED
    BY <1>3, <2>1, TimesAre
<1>5. now \in Int /\ Gap \in Nat
  BY TelemetryAssumption DEF PagesIInv
<1>6. Min({now, w.end}) = now
  BY <1>1, <1>5, LeastOfTwo
<1>7. out = {[after |-> ab[1], until |-> ab[2], open |-> FALSE] : ab \in closed}
            \cup {[after |-> a, until |-> now, open |-> TRUE] : a \in silent}
  BY <1>6 DEF Outages, Times
<1> HIDE DEF p, w, out, rows, heard, seen, closed, silent
<1>8. \A o \in out : ~\E t \in heard : o.after < t /\ t < o.until
  <2> SUFFICES ASSUME NEW o \in out, NEW t \in heard, o.after < t, t < o.until
               PROVE  FALSE
    OBVIOUS
  <2>1. ASSUME NEW ab \in closed, o = [after |-> ab[1], until |-> ab[2], open |-> FALSE]
        PROVE  FALSE
    BY <2>1 DEF closed
  <2>2. ASSUME NEW a \in silent, o = [after |-> a, until |-> now, open |-> TRUE]
        PROVE  FALSE
    BY <1>4, <2>2 DEF silent
  <2> QED
    BY <1>7, <2>1, <2>2
<1>9. (\E o \in out : o.open) <=> silent # {}
  <2>1. ASSUME NEW a \in silent
        PROVE  \E o \in out : o.open
    <3> DEFINE o == [after |-> a, until |-> now, open |-> TRUE]
    <3>1. o \in out /\ o.open
      BY <1>7
    <3> QED
      BY <3>1
  <2>2. ASSUME NEW o \in out, o.open
        PROVE  silent # {}
    BY <1>7, <2>2
  <2> QED
    BY <2>1, <2>2
<1>10. CASE heard = {}
  BY <1>9, <1>10 DEF silent, heard, rows, w, out, p, Times
<1>11. CASE heard # {}
  <2>1. Max(heard) \in heard /\ \A x \in heard : x <= Max(heard)
    BY <1>4, <1>11, MaxIs
  <2>2. Max(heard) = Max(seen)
    <3> DEFINE a == Max(heard)
               b == Max(seen)
               from == w.from
    <3>1. a \in heard /\ b \in seen /\ from \in Int /\ a \in Int /\ b \in Int
      BY <1>1, <1>2, <1>4, <2>1
    <3>2. a <= b /\ from <= a
      BY <1>2, <1>4, <3>1
    <3> HIDE DEF from, b
    <3>3. from <= b
      BY <3>1, <3>2
    <3>4. b \in heard
      BY <1>4, <3>1, <3>3 DEF from
    <3>5. b <= a
      BY <2>1, <3>4
    <3> HIDE DEF a
    <3> QED
      BY <3>1, <3>2, <3>5 DEF a, b
  <2>3. silent # {} <=> now - Max(heard) > Gap
    BY <1>4, <1>5, <2>1 DEF silent
  <2>4. Max(heard) \in Int
    BY <1>4, <2>1
  <2>5. (\E o \in out : o.open) <=> /\ heard # {} /\ State(d) \in {"offline", "stale"}
                                    /\ now - Max(heard) # Gap
    BY <1>2, <1>5, <1>9, <1>11, <2>2, <2>3, <2>4
  <2> QED
    BY <1>8, <2>5, Zenon DEF heard, rows, w, out, p, Times
<1> QED
  BY <1>10, <1>11

-----------------------------------------------------------------------------
DayOf == [i \in All |-> LocalDay(Ts(i))]
OnDays(D, a, b) == {i \in RowsOf(D) : a <= LocalDay(Ts(i)) /\ LocalDay(Ts(i)) <= b}

(* The bounds in UTC cut the local days out of the rows.                   *)
LEMMA RangedIs ==
    ASSUME PagesIInv, NEW D, NEW a \in Int, NEW b \in Int
    PROVE  Ranged(D, a, b) = OnDays(D, a, b)
<1>1. Ranged(D, a, b) = Between(RowsOf(D), a * Day - 2 * Offset, (b + 1) * Day - 2 * Offset)
  BY DEF Ranged, UtcBounds
<1>2. ASSUME NEW i \in All
      PROVE  /\ a * Day - 2 * Offset <= Ts(i) <=> a <= LocalDay(Ts(i))
             /\ Ts(i) < (b + 1) * Day - 2 * Offset <=> LocalDay(Ts(i)) <= b
  <2>1. /\ Ts(i) \in Int /\ LocalDay(Ts(i)) \in Int
        /\ a <= LocalDay(Ts(i)) <=> Day * a - 2 * Offset <= Ts(i)
        /\ b + 1 <= LocalDay(Ts(i)) <=> Day * (b + 1) - 2 * Offset <= Ts(i)
    <3>1. Ts(i) \in Int
      BY RowsAre
    <3>2. b + 1 \in Int
      OBVIOUS
    <3> QED
      BY <3>1, <3>2, LocalDays
  <2>2. Day \in Nat /\ Offset \in Nat
    BY Units
  <2>3. a * Day = Day * a /\ (b + 1) * Day = Day * (b + 1)
    BY <2>2
  <2> DEFINE e == Day * (b + 1)
             s == Day * a
  <2>4. e \in Int /\ s \in Int
    BY <2>2
  <2> HIDE DEF e, s
  <2>5. /\ a * Day = s /\ (b + 1) * Day = e
        /\ a <= LocalDay(Ts(i)) <=> s - 2 * Offset <= Ts(i)
        /\ b + 1 <= LocalDay(Ts(i)) <=> e - 2 * Offset <= Ts(i)
    BY <2>1, <2>3 DEF e, s
  <2> QED
    BY <2>1, <2>2, <2>4, <2>5
<1>3. RowsOf(D) \in SUBSET All
  BY DEF RowsOf
<1> QED
  BY <1>1, <1>2, <1>3 DEF Between, OnDays

(* Multiples are in the order of what they are multiples of.               *)
LEMMA Multiples ==
    ASSUME NEW a \in Int, NEW b \in Int, a <= b, NEW d \in Nat
    PROVE  d * a <= d * b
<1>1. (b - a) \in Nat
  OBVIOUS
<1>2. d * (b - a) \in Nat
  BY <1>1
<1>3. d * (b - a) = d * b - d * a
  OBVIOUS
<1>4. d * a \in Int /\ d * b \in Int
  OBVIOUS
<1> QED
  BY <1>2, <1>3, <1>4

(* The days of a week that the trends page adds up.                        *)
LEMMA AggIs ==
    ASSUME PagesIInv, NEW d, NEW p, NEW a \in Int, NEW b \in Int, NEW c \in Int,
           TrendsFrom(p) <= Day * a - 2 * Offset, TrendsFrom(p) \in Int, c = b - 1
    PROVE  Agg(Daily(d, p), a, b) = Items(Ranged({d}, a, c))
<1> DEFINE I == Since(RowsOf({d}), TrendsFrom(p))
           rows == Daily(d, p)
           S == {day \in DOMAIN rows : a <= day /\ day < b}
<1>1. I \in SUBSET All
  BY DEF Since, RowsOf
<1>2. rows = ItemsBy(I, DayOf)
  BY DEF Daily, DayOf
<1>3. Agg(rows, a, b) = SumFunctionOnSet(rows, S)
  BY DEF Agg
<1>4. DOMAIN rows = KeysOf(I, DayOf)
  BY <1>1, <1>2, GroupsAre
<1>5. HavingAny(I, DayOf, S) = OnDays({d}, a, c)
  <2>1. ASSUME NEW i \in All
        PROVE  /\ LocalDay(Ts(i)) < b <=> LocalDay(Ts(i)) <= c
               /\ a <= LocalDay(Ts(i)) => TrendsFrom(p) <= Ts(i)
    <3>1. /\ Ts(i) \in Int /\ LocalDay(Ts(i)) \in Int
          /\ a <= LocalDay(Ts(i)) <=> Day * a - 2 * Offset <= Ts(i)
      BY RowsAre, LocalDays
    <3>2. Day * a - 2 * Offset \in Int
      BY Units
    <3> QED
      BY <3>1, <3>2
  <2>2. HavingAny(I, DayOf, S) = {i \in I : a <= LocalDay(Ts(i)) /\ LocalDay(Ts(i)) < b}
    BY <1>1, <1>4 DEF HavingAny, KeysOf, DayOf
  <2>3. RowsOf({d}) \in SUBSET All
    BY DEF RowsOf
  <2> QED
    <3>1. \A i \in All : i \in HavingAny(I, DayOf, S) <=> i \in OnDays({d}, a, c)
      BY <2>1, <2>2 DEF OnDays, Since
    <3>2. HavingAny(I, DayOf, S) \in SUBSET All /\ OnDays({d}, a, c) \in SUBSET All
      BY <1>1, <2>3 DEF HavingAny, OnDays
    <3> HIDE DEF I, S
    <3> QED
      BY <3>1, <3>2
<1>6. S \in SUBSET KeysOf(I, DayOf)
  BY <1>4
<1> HIDE DEF I, rows, S
<1>7. SumFunctionOnSet(ItemsBy(I, DayOf), S) = Items(HavingAny(I, DayOf, S))
  BY <1>1, <1>6, SomeKeys
<1> QED
  BY <1>2, <1>3, <1>5, <1>7, RangedIs DEF rows

(* The trends page, as WeeksCompare says: its query starts no later than   *)
(* the midnight of six weeks before, and the fourth Monday back is later.  *)
LEMMA WeeksAgree == PagesIInv => WeeksCompare
<1> SUFFICES ASSUME PagesIInv, NEW d \in Heard, NEW name \in {"d7", "d30"}
             PROVE  LET w == WeekOverWeek(d, Presets[name], "items")
                        rates == WeekOverWeek(d, Presets[name], "good_read_pct")
                        monday == Floor(LocalDay(now), DaysPerWeek)
                        items(from, to) == Items(Ranged({d}, from, to))
                    IN  /\ \A i \in 1 .. 4 :
                              LET from == monday - i * DaysPerWeek
                              IN  /\ w.full[i] = items(from, from + DaysPerWeek - 1)
                                  /\ rates.prev[i] = w.full[i]
                                  /\ w.prev[i] = items(from, from + LocalDay(now) - monday)
                        /\ w.thisWeek = items(monday, LocalDay(now))
                        /\ LocalDay(now) = monday + DaysPerWeek - 1 => w.prev = w.full
  BY Zenon DEF WeeksCompare
<1> DEFINE p == Presets[name]
           rows == Daily(d, p)
           today == LocalDay(now)
           monday == Floor(today, DaysPerWeek)
           elapsed == today - monday + 1
           w == WeekOverWeek(d, p, "items")
           rates == WeekOverWeek(d, p, "good_read_pct")
           items(from, to) == Items(Ranged({d}, from, to))
           first(i) == monday - i * DaysPerWeek
<1>1. /\ today \in Int /\ monday \in Int /\ DaysPerWeek \in Nat \ {0} /\ Day \in Nat \ {0}
      /\ Offset \in Nat /\ monday <= today /\ today < monday + DaysPerWeek
      /\ LocalMidnight = Day * today - 2 * Offset
  <2>1. today \in Int /\ DaysPerWeek \in Nat \ {0}
    BY Units, LocalDays DEF PagesIInv
  <2> HIDE DEF today
  <2> QED
    BY <2>1, Units, FloorIs, Midnights DEF today
<1>2. TrendsFrom(p) \in Int /\ TrendsFrom(p) <= LocalMidnight - 6 * Week
  <2>1. Window(p).from \in Int
    <3>1. name \in DOMAIN Presets
      BY DEF Presets
    <3> QED
      BY <3>1, Ranges
  <2>2. LocalMidnight - 6 * Week \in Int
    BY Units, Midnights
  <2> QED
    BY <2>1, <2>2, LeastOfTwo DEF TrendsFrom
<1>3. /\ w.thisWeek = Agg(rows, monday, monday + elapsed)
      /\ w.prev = [i \in 1 .. 4 |-> Agg(rows, first(i), first(i) + elapsed)]
      /\ w.full = [i \in 1 .. 4 |-> Agg(rows, first(i), first(i) + DaysPerWeek)]
      /\ rates.prev = [i \in 1 .. 4 |-> Agg(rows, first(i), first(i) + DaysPerWeek)]
  BY DEF WeekOverWeek
<1> HIDE DEF p, rows, today, monday, w, rates
<1>4. ASSUME NEW a \in Int, NEW b \in Int, NEW c \in Int, monday - 4 * DaysPerWeek <= a, c = b - 1
      PROVE  Agg(rows, a, b) = items(a, c)
  <2>1. today - 6 * DaysPerWeek <= a /\ today - 6 * DaysPerWeek \in Int
    BY <1>1, <1>4
  <2>2. Day * (today - 6 * DaysPerWeek) <= Day * a
    BY <1>1, <2>1, Multiples
  <2>3. Day * (today - 6 * DaysPerWeek) = Day * today - 6 * Week
    BY <1>1, Units
  <2>4. Day * today \in Int /\ Day * a \in Int /\ Week \in Int
    BY <1>1, Units
  <2>5. TrendsFrom(p) <= Day * a - 2 * Offset
    BY <1>1, <1>2, <2>2, <2>3, <2>4
  <2> QED
    BY <1>2, <1>4, <2>5, AggIs DEF rows
<1>5. ASSUME NEW i \in 1 .. 4
      PROVE  /\ first(i) \in Int /\ monday - 4 * DaysPerWeek <= first(i)
             /\ first(i) + DaysPerWeek \in Int /\ first(i) + elapsed \in Int
             /\ first(i) + DaysPerWeek - 1 \in Int /\ first(i) + today - monday \in Int
             /\ first(i) + today - monday = (first(i) + elapsed) - 1
  BY <1>1
<1>6. ASSUME NEW i \in 1 .. 4
      PROVE  /\ w.full[i] = items(first(i), first(i) + DaysPerWeek - 1)
             /\ rates.prev[i] = w.full[i]
             /\ w.prev[i] = items(first(i), first(i) + today - monday)
  <2> HIDE DEF elapsed, first, items
  <2>1. Agg(rows, first(i), first(i) + DaysPerWeek) = items(first(i), first(i) + DaysPerWeek - 1)
    BY <1>1, <1>4, <1>5
  <2>2. Agg(rows, first(i), first(i) + elapsed) = items(first(i), first(i) + today - monday)
    BY <1>1, <1>4, <1>5
  <2> QED
    BY <1>3, <2>1, <2>2
<1>7. w.thisWeek = items(monday, today)
  <2>1. /\ monday + elapsed \in Int /\ today = (monday + elapsed) - 1
        /\ monday - 4 * DaysPerWeek <= monday
    BY <1>1
  <2> HIDE DEF elapsed, items
  <2> QED
    BY <1>1, <1>3, <1>4, <2>1
<1>8. today = monday + DaysPerWeek - 1 => w.prev = w.full
  <2>1. today = monday + DaysPerWeek - 1 => elapsed = DaysPerWeek
    BY <1>1
  <2> HIDE DEF elapsed, first
  <2> QED
    BY <1>3, <2>1
<1> QED
  BY <1>6, <1>7, <1>8, Zenon DEF w, rates, monday, today, p, first

-----------------------------------------------------------------------------
(* The rows of one local day.                                              *)
LEMMA FleetDay ==
    ASSUME PagesIInv, NEW a \in Int, NEW D
    PROVE  /\ OnDays(D, a, a) \in SUBSET All
           /\ OnDays(D, a, a) = {i \in RowsOf(D) : LocalDay(Ts(i)) = a}
<1>1. \A i \in All : LocalDay(Ts(i)) \in Int
  BY RowsAre, LocalDays
<1>2. RowsOf(D) \in SUBSET All
  BY DEF RowsOf
<1>3. \A x \in Int : a <= x /\ x <= a <=> x = a
  OBVIOUS
<1> QED
  BY <1>1, <1>2, <1>3 DEF OnDays

(* The fleet's items of today, from the monitor's rows since midnight.     *)
LEMMA ItemsOfFleet ==
    ASSUME PagesIInv
    PROVE  NoneAhead => ItemsToday = ParcelsToday(Device) /\ ItemsToday = StatsToday
<1> DEFINE today == LocalDay(now)
           I == Since(All, LocalMidnight)
           R == OnDays(Device, today, today)
           g == [d \in Device |-> FleetToday(d).items]
<1>1. now \in Int /\ today \in Int
  BY LocalDays DEF PagesIInv
<1>2. I \in SUBSET All /\ IsFiniteSet(Device)
  BY TelemetryAssumption DEF Since
<1>3. ItemsToday = Items(I)
  <2>1. ItemsOfKeys(g, I, Devices, Device)
    <3>1. \A d \in Device : Since(RowsOf({d}), LocalMidnight) = Having(I, Devices, d)
      BY DEF Since, RowsOf, Having, Devices
    <3> QED
      BY <3>1 DEF ItemsOfKeys, FleetToday, Items
  <2>2. HavingAny(I, Devices, Device) = I
    BY <1>2, RowsAre DEF HavingAny, Devices
  <2>3. ItemsToday = SumFunction(g) /\ DOMAIN g = Device
    BY DEF ItemsToday
  <2> HIDE DEF g, I
  <2> QED
    BY <1>2, <2>1, <2>2, <2>3, ItemKeys
<1>4. ParcelsToday(Device) = Items(R)
  <2> HIDE DEF R, today
  <2> QED BY <1>1, RangedIs DEF ParcelsToday, today, R
<1>5. R = {i \in All : LocalDay(Ts(i)) = today}
  <2>1. RowsOf(Device) = All
    BY RowsAre DEF RowsOf
  <2> HIDE DEF today
  <2> QED
    BY <1>1, <2>1, FleetDay
<1>6. StatsToday = Items(R)
  BY <1>5 DEF StatsToday
<1>7. ASSUME NoneAhead
      PROVE  I = R
  <2>1. ASSUME NEW i \in All
        PROVE  LocalMidnight <= Ts(i) <=> LocalDay(Ts(i)) = today
    <3>1. Ts(i) \in Int /\ LocalDay(Ts(i)) \in Int
      BY RowsAre, LocalDays
    <3>2. LocalDay(Ts(i)) <= today
      BY <1>7 DEF NoneAhead
    <3>3. today <= LocalDay(Ts(i)) <=> LocalMidnight <= Ts(i)
      <4> HIDE DEF today
      <4> QED BY <1>1, <3>1, LocalDays, Midnights DEF today
    <3> HIDE DEF today
    <3> QED
      BY <1>1, <3>1, <3>2, <3>3
  <2> QED
    BY <1>5, <2>1 DEF Since
<1> QED
  BY <1>3, <1>4, <1>6, <1>7
-----------------------------------------------------------------------------
(* One day of one device, on the monitor's daily axis.                     *)
LEMMA MonitorDay ==
    ASSUME PagesIInv, NEW d, NEW day \in Int,
           LocalDay(now) - DaysPerWeek + 1 <= day, day <= LocalDay(now)
    PROVE  Series(d, Presets.d7)[day * Day - 2 * Offset] = Sums(OnDays({d}, day, day))
<1> DEFINE p == Presets.d7
           w == Window(p)
           s == Day * day - 2 * Offset
           I == Between(RowsOf({d}), w.from, w.end)
           first == LocalDay(now) - DaysPerWeek + 1
           next == LocalDay(now) + 1
<1>1. /\ Day \in Nat \ {0} /\ Offset \in Nat /\ DaysPerWeek \in Nat \ {0}
      /\ LocalDay(now) \in Int /\ first \in Int /\ next \in Int
      /\ first <= day /\ day < next
  <2>1. LocalDay(now) \in Int /\ DaysPerWeek \in Nat \ {0}
    BY Units, LocalDays DEF PagesIInv
  <2> QED
    BY <2>1, Units
<1>2. p.daily = TRUE /\ p.bucket = Day /\ p.span = DaysPerWeek * Day
  BY Units DEF Presets
<1>3. w.from = Day * first - 2 * Offset /\ w.end = Day * next - 2 * Offset
  <2> HIDE DEF p, w
  <2>1. LET v == Window(p)
        IN  /\ v.from \in Int /\ v.end \in Int /\ v.from <= now /\ now < v.end
            /\ v.from = Day * (LocalDay(now) - DaysPerWeek + 1) - 2 * Offset
            /\ v.end = Day * (LocalDay(now) + 1) - 2 * Offset
    BY <1>1, <1>2, WindowOfDays
  <2> QED
    BY <2>1 DEF w
<1> DEFINE from == w.from
           end == w.end
<1>4. Series(d, p) = Buckets(d, Day, from, end)
  BY <1>2, Zenon DEF Series, Buckets
<1>5. day * Day - 2 * Offset = s
  BY <1>1
<1> HIDE DEF p, w, first, next
<1> DEFINE a == Day * first
           b == Day * day
           c == Day * next
<1>6. /\ a \in Int /\ b \in Int /\ c \in Int /\ from = a - 2 * Offset /\ end = c - 2 * Offset
      /\ s = b - 2 * Offset /\ from \in Int /\ end \in Int
  BY <1>1, <1>3
<1>7. from + 2 * Offset = Day * first
  BY <1>1, <1>6
<1> HIDE DEF from, end
<1>8. BucketsHold(d, Day, from, end)
  BY <1>1, <1>6, <1>7, BucketsAre
<1>9. s \in BucketStarts(from, end, Day)
  <2>1. a <= b /\ b + Day <= c
    <3>1. a <= b
      BY <1>1, Multiples
    <3>2. day + 1 \in Int /\ day + 1 <= next
      BY <1>1
    <3>3. Day * (day + 1) <= c
      BY <1>1, <3>2, Multiples
    <3>4. Day * (day + 1) = b + Day
      BY <1>1
    <3> QED
      BY <3>1, <3>3, <3>4
  <2> DEFINE n == day - first
  <2>2. n \in Int /\ 0 \in 0 .. Day - 1
    BY <1>1
  <2>3. s - from = Day * n + 0
    <3>1. Day * n = b - a
      BY <1>1
    <3> HIDE DEF a, b, n
    <3> QED
      BY <1>1, <1>6, <3>1
  <2>4. (s - from) % Day = 0
    <3> HIDE DEF n, s
    <3>1. (Day * n + 0) % Day = 0
      BY <1>1, <2>2, DivIs
    <3> QED
      BY <2>3, <3>1
  <2> HIDE DEF a, b, c
  <2>5. s \in from .. end - 1
    BY <1>1, <1>6, <2>1
  <2> QED
    BY <2>4, <2>5 DEF BucketStarts
<1> HIDE DEF s
<1>10. Buckets(d, Day, from, end)[s] = Sums(Having(I, BucketOf(Day), s))
  BY <1>8, <1>9 DEF BucketsHold, SumsOfKeys, from, end
<1>11. Having(I, BucketOf(Day), s) = OnDays({d}, day, day)
  <2>1. RowsOf({d}) \in SUBSET All
    BY DEF RowsOf
  <2>2. ASSUME NEW i \in All
        PROVE  /\ Floor(Local(Ts(i)), Day) - 2 * Offset = s <=> LocalDay(Ts(i)) = day
               /\ LocalDay(Ts(i)) = day => from <= Ts(i) /\ Ts(i) < end
    <3> DEFINE ld == LocalDay(Ts(i))
    <3>1. Ts(i) \in Int /\ ld \in Int
      BY RowsAre, LocalDays
    <3>2. Floor(Local(Ts(i)), Day) = Day * ld
      <4>1. Local(Ts(i)) \in Int
        BY <1>1, <3>1 DEF Local
      <4> QED
        BY <1>1, <4>1, FloorIs DEF LocalDay
    <3>3. /\ first <= ld <=> a - 2 * Offset <= Ts(i)
          /\ next <= ld <=> c - 2 * Offset <= Ts(i)
      BY <1>1, <3>1, LocalDays
    <3> HIDE DEF ld
    <3>4. Day * ld \in Int
      BY <1>1, <3>1
    <3>5. Day * ld = b <=> ld = day
      BY <1>1, <3>1
    <3> HIDE DEF a, b, c
    <3>6. ld = day => from <= Ts(i) /\ Ts(i) < end
      BY <1>1, <1>6, <3>1, <3>3
    <3>7. Day * ld - 2 * Offset = s <=> ld = day
      <4> DEFINE e == Day * ld
      <4>1. e \in Int /\ (e = b <=> ld = day)
        BY <3>4, <3>5
      <4> HIDE DEF e
      <4>2. e - 2 * Offset = s <=> ld = day
        BY <1>1, <1>6, <4>1
      <4> QED
        BY <4>2 DEF e
    <3> QED
      BY <3>2, <3>6, <3>7 DEF ld
  <2>3. Having(I, BucketOf(Day), s)
            = {i \in RowsOf({d}) : LocalDay(Ts(i)) = day}
    <3>1. Having(I, BucketOf(Day), s)
            = {i \in I : Floor(Local(Ts(i)), Day) - 2 * Offset = s}
      BY <2>1 DEF Having, BucketOf, Between
    <3> QED
      BY <2>1, <2>2, <3>1 DEF Between, from, end
  <2> QED
    BY <2>3, FleetDay
<1> QED
  BY <1>4, <1>5, <1>10, <1>11 DEF p

-----------------------------------------------------------------------------
(* Keys of a row. *)
DeviceDayHour == [i \in All |-> <<store[i].device, LocalDay(Ts(i)), LocalHour(Ts(i))>>]
DeviceDay == [i \in All |-> <<store[i].device, LocalDay(Ts(i))>>]
DayHour == [i \in All |-> <<LocalDay(Ts(i)), LocalHour(Ts(i))>>]
HourOf == [i \in All |-> LocalHour(Ts(i))]
ShiftHour == [i \in All |-> ShiftOf(LocalHour(Ts(i)))]

(* The items of some groups are the items of their rows.                   *)
LEMMA ItemsOfGroups ==
    ASSUME PagesIInv, NEW I \in SUBSET All, NEW K, NEW S \in SUBSET KeysOf(I, K)
    PROVE  SumFunction([k \in S |-> Items(GroupBy(I, K)[k])]) = Items(HavingAny(I, K, S))
<1> DEFINE g == [k \in S |-> Items(GroupBy(I, K)[k])]
<1>1. IsFiniteSet(S)
  BY GroupsAre, FS_Subset
<1>2. ItemsOfKeys(g, I, K, S)
  BY GroupsAre DEF ItemsOfKeys
<1>3. DOMAIN g = S
  OBVIOUS
<1> HIDE DEF g
<1>4. SumFunction(g) = Items(HavingAny(I, K, S))
  BY <1>1, <1>2, <1>3, ItemKeys
<1> QED
  BY <1>4 DEF g

(* A page that has a number for every key there is has all items.          *)
LEMMA ItemsOfAll ==
    ASSUME PagesIInv, NEW I \in SUBSET All, NEW K, NEW S, IsFiniteSet(S),
           \A i \in I : K[i] \in S, NEW g, DOMAIN g = S, ItemsOfKeys(g, I, K, S)
    PROVE  SumFunction(g) = Items(I)
<1>1. HavingAny(I, K, S) = I
  BY DEF HavingAny
<1> QED
  BY <1>1, ItemKeys

(* The numbers of the fleet page's panels, by the keys they are shown for. *)
LEMMA KpisAre ==
    ASSUME PagesIInv, NEW D, NEW from, NEW to
    PROVE  LET k == Kpis(D, from, to)
               R == Ranged(D, from, to)
           IN  /\ R \in SUBSET All
               /\ DOMAIN k.machines = KeysOf(R, Devices)
               /\ ItemsOfKeys(k.machines, R, Devices, KeysOf(R, Devices))
               /\ DOMAIN k.fleetHours = KeysOf(R, DayHour)
               /\ ItemsOfKeys(k.fleetHours, R, DayHour, KeysOf(R, DayHour))
               /\ DOMAIN k.shifts = DOMAIN Shifts
               /\ ItemsOfKeys(k.shifts, R, ShiftHour, DOMAIN Shifts)
<1> DEFINE k == Kpis(D, from, to)
           R == Ranged(D, from, to)
           rows == HourlyRows(D, from, to)
           keys == DOMAIN rows
           sum(S) == SumFunction([x \in S |-> Items(rows[x])])
           machine(d) == {x \in keys : x[1] = d}
           hour(h) == {x \in keys : <<x[2], x[3]>> = h}
           shift(n) == {x \in keys : ShiftOf(x[3]) = n}
<1>1. R \in SUBSET All
  BY DEF Ranged, Between, RowsOf
<1>2. rows = GroupBy(R, DeviceDayHour)
  BY DEF HourlyRows, DeviceDayHour
<1>3. keys = KeysOf(R, DeviceDayHour)
  <2> HIDE DEF R, rows
  <2> QED BY <1>1, <1>2, GroupsAre
<1>4. /\ k.machines = [d \in {x[1] : x \in keys} |-> sum(machine(d))]
      /\ k.fleetHours = [h \in {<<x[2], x[3]>> : x \in keys} |-> sum(hour(h))]
      /\ k.shifts = [n \in DOMAIN Shifts |-> sum(shift(n))]
  BY DEF Kpis
<1> HIDE DEF k, R, rows
<1>5. \A i \in R : /\ DeviceDayHour[i] = <<store[i].device, LocalDay(Ts(i)), LocalHour(Ts(i))>>
                   /\ Devices[i] = DeviceDayHour[i][1]
                   /\ DayHour[i] = <<DeviceDayHour[i][2], DeviceDayHour[i][3]>>
                   /\ ShiftHour[i] = ShiftOf(DeviceDayHour[i][3])
  BY <1>1 DEF DeviceDayHour, Devices, DayHour, ShiftHour
<1>6. ASSUME NEW S \in SUBSET keys
      PROVE  sum(S) = Items(HavingAny(R, DeviceDayHour, S))
  BY <1>1, <1>2, <1>3, ItemsOfGroups
<1> HIDE DEF sum
<1>7. \A d : HavingAny(R, DeviceDayHour, machine(d)) = Having(R, Devices, d)
  BY <1>3, <1>5 DEF HavingAny, Having, KeysOf
<1>8. \A h : HavingAny(R, DeviceDayHour, hour(h)) = Having(R, DayHour, h)
  BY <1>3, <1>5 DEF HavingAny, Having, KeysOf
<1>9. \A n : HavingAny(R, DeviceDayHour, shift(n)) = Having(R, ShiftHour, n)
  BY <1>3, <1>5 DEF HavingAny, Having, KeysOf
<1>10. /\ \A d : machine(d) \in SUBSET keys
       /\ \A h : hour(h) \in SUBSET keys
       /\ \A n : shift(n) \in SUBSET keys
  OBVIOUS
<1>11. /\ {x[1] : x \in keys} = KeysOf(R, Devices)
       /\ {<<x[2], x[3]>> : x \in keys} = KeysOf(R, DayHour)
  <2>1. \A x \in keys : \E i \in R : x = DeviceDayHour[i]
    BY <1>3 DEF KeysOf
  <2>2. \A i \in R : DeviceDayHour[i] \in keys
    BY <1>3 DEF KeysOf
  <2> HIDE DEF keys
  <2>3. {x[1] : x \in keys} = KeysOf(R, Devices)
    BY <1>5, <2>1, <2>2 DEF KeysOf
  <2>4. {<<x[2], x[3]>> : x \in keys} = KeysOf(R, DayHour)
    BY <1>5, <2>1, <2>2 DEF KeysOf
  <2> QED
    BY <2>3, <2>4
<1> HIDE DEF machine, hour, shift, keys
<1>12. /\ DOMAIN k.machines = KeysOf(R, Devices)
       /\ ItemsOfKeys(k.machines, R, Devices, KeysOf(R, Devices))
  BY <1>4, <1>6, <1>7, <1>10, <1>11 DEF ItemsOfKeys
<1>13. /\ DOMAIN k.fleetHours = KeysOf(R, DayHour)
       /\ ItemsOfKeys(k.fleetHours, R, DayHour, KeysOf(R, DayHour))
  BY <1>4, <1>6, <1>8, <1>10, <1>11 DEF ItemsOfKeys
<1>14. /\ DOMAIN k.shifts = DOMAIN Shifts
       /\ ItemsOfKeys(k.shifts, R, ShiftHour, DOMAIN Shifts)
  BY <1>4, <1>6, <1>9, <1>10 DEF ItemsOfKeys
<1> QED
  BY <1>1, <1>12, <1>13, <1>14 DEF k, R
-----------------------------------------------------------------------------
(* Every hour is in one shift.                                             *)
LEMMA ShiftIs ==
    ASSUME NEW h \in 0 .. HoursPerDay - 1
    PROVE  /\ ShiftOf(h) \in DOMAIN Shifts
           /\ \A n \in DOMAIN Shifts : ShiftOf(h) = n <=> Covers(Shifts[n], h)
<1> DEFINE N == {n \in DOMAIN Shifts : Covers(Shifts[n], h)}
<1>1. Len(Shifts) \in Nat /\ DOMAIN Shifts = 1 .. Len(Shifts)
  BY TelemetryAssumption
<1>2. IsFiniteSet(N) /\ Cardinality(N) = 1
  <2>1. N \in SUBSET (1 .. Len(Shifts)) /\ IsFiniteSet(1 .. Len(Shifts))
    BY <1>1, FS_Interval
  <2>2. Cardinality(N) = 1
    BY TelemetryAssumption
  <2> HIDE DEF N
  <2> QED
    BY <2>1, <2>2, FS_Subset
<1>3. PICK m : N = {m}
  <2> HIDE DEF N
  <2> QED BY <1>2, FS_Singleton
<1>4. m \in 1 .. Len(Shifts) /\ m <= Len(Shifts) /\ m \in Int
  BY <1>1, <1>3
<1>5. N \cup {Len(Shifts)} = {m, Len(Shifts)}
  BY <1>3
<1>6. ShiftOf(h) = m
  BY <1>1, <1>4, <1>5, LeastOfTwo DEF ShiftOf
<1> QED
  BY <1>1, <1>3, <1>4, <1>6

-----------------------------------------------------------------------------
(* The rows of a range are rows.                                           *)
LEMMA RangedRows ==
    ASSUME NEW D, NEW from, NEW to
    PROVE  Ranged(D, from, to) \in SUBSET All /\ Ranged(D, from, to) \in SUBSET RowsOf(D)
BY DEF Ranged, Between, RowsOf

(* The profile of a day has the items of every hour.                       *)
LEMMA ProfileIs ==
    ASSUME PagesIInv, NEW D, NEW day
    PROVE  /\ DOMAIN Profile(D, day) = 0 .. HoursPerDay - 1
           /\ IsFiniteSet(0 .. HoursPerDay - 1)
           /\ ItemsOfKeys(Profile(D, day), Ranged(D, day, day), HourOf, 0 .. HoursPerDay - 1)
<1> DEFINE R == Ranged(D, day, day)
           H == 0 .. HoursPerDay - 1
           p == Profile(D, day)
           items == ItemsBy(R, HourOf)
<1>1. p = [h \in H |-> IF h \in DOMAIN items THEN items[h] ELSE 0]
  BY DEF Profile, HourOf
<1>2. R \in SUBSET All
  BY RangedRows
<1>3. IsFiniteSet(H)
  BY Units, FS_Interval
<1> HIDE DEF R, H, p
<1>4. DOMAIN items = KeysOf(R, HourOf)
  BY <1>2, GroupsAre
<1>5. \A k \in KeysOf(R, HourOf) : items[k] = Items(Having(R, HourOf, k))
  BY <1>2, GroupsAre
<1> HIDE DEF items
<1>6. ItemsOfKeys(p, R, HourOf, H)
  <2> SUFFICES ASSUME NEW h \in H
               PROVE  p[h] = Items(Having(R, HourOf, h))
    BY DEF ItemsOfKeys
  <2>1. CASE h \in KeysOf(R, HourOf)
    BY <1>1, <1>4, <1>5, <2>1
  <2>2. CASE h \notin KeysOf(R, HourOf)
    <3>1. Having(R, HourOf, h) = {}
      BY <2>2 DEF KeysOf, Having
    <3> QED
      BY <1>1, <1>4, <2>2, <3>1, NoRowsNoSum
  <2> QED
    BY <2>1, <2>2
<1> QED
  BY <1>1, <1>3, <1>6 DEF R, H, p

(* A shift's parcels are those of its hours.                               *)
LEMMA ShiftsAgree ==
    ASSUME PagesIInv, NEW D, NEW day, NEW n \in DOMAIN Shifts
    PROVE  Kpis(D, day, day).shifts[n]
               = SumFunctionOnSet(Profile(D, day),
                                  {h \in 0 .. HoursPerDay - 1 : Covers(Shifts[n], h)})
<1> DEFINE R == Ranged(D, day, day)
           S == {h \in 0 .. HoursPerDay - 1 : Covers(Shifts[n], h)}
           k == Kpis(D, day, day)
           p == Profile(D, day)
<1>1. R \in SUBSET All /\ ItemsOfKeys(k.shifts, R, ShiftHour, DOMAIN Shifts)
  BY KpisAre
<1>2. k.shifts[n] = Items(Having(R, ShiftHour, n))
  BY <1>1 DEF ItemsOfKeys
<1>3. ItemsOfKeys(p, R, HourOf, S) /\ IsFiniteSet(S)
  <2>1. S \in SUBSET (0 .. HoursPerDay - 1)
    OBVIOUS
  <2> HIDE DEF S
  <2> QED
    BY <2>1, ProfileIs, FS_Subset DEF ItemsOfKeys
<1>4. HavingAny(R, HourOf, S) = Having(R, ShiftHour, n)
  <2>1. ASSUME NEW i \in R
        PROVE  HourOf[i] \in S <=> ShiftHour[i] = n
    <3>1. LocalHour(Ts(i)) \in 0 .. HoursPerDay - 1 /\ i \in All
      BY <1>1, RowsAre, LocalDays
    <3>2. HourOf[i] = LocalHour(Ts(i)) /\ ShiftHour[i] = ShiftOf(LocalHour(Ts(i)))
      BY <3>1 DEF HourOf, ShiftHour
    <3> QED
      BY <3>1, <3>2, ShiftIs
  <2> HIDE DEF R, S
  <2> QED
    BY <2>1 DEF HavingAny, Having
<1> HIDE DEF R, S, k, p
<1>5. SumFunctionOnSet(p, S) = Items(HavingAny(R, HourOf, S))
  BY <1>1, <1>3, ItemKeys
<1> QED
  BY <1>2, <1>4, <1>5 DEF k, p, S

(* What a caller sees is the sum of the customers they may see.            *)
LEMMA CustomersAgree ==
    ASSUME PagesIInv, NEW A \in SUBSET Customer, NEW c \in Customer \cup {None}
    PROVE  ParcelsToday(Scope(c, A))
               = SumFunction([a \in (IF c = None THEN A ELSE A \cap {c}) |->
                                 ParcelsToday(Scope(a, None))])
<1> DEFINE C == IF c = None THEN A ELSE A \cap {c}
           today == LocalDay(now)
           I == OnDays(Device, today, today)
           g == [a \in C |-> ParcelsToday(Scope(a, None))]
<1>1. today \in Int
  BY LocalDays DEF PagesIInv
<1> HIDE DEF today
<1>2. C \in SUBSET Customer /\ IsFiniteSet(C) /\ None \notin Customer /\ A # None
  <2>1. C \in SUBSET Customer
    OBVIOUS
  <2> HIDE DEF C
  <2> QED
    BY <2>1, TelemetryAssumption, FS_Subset
<1>3. I \in SUBSET All /\ I = {i \in RowsOf(Device) : LocalDay(Ts(i)) = today}
  BY <1>1, FleetDay
<1>4. \A D : ParcelsToday(D) = Items(OnDays(D, today, today))
  BY <1>1, RangedIs DEF ParcelsToday, today
<1>5. \A D \in SUBSET Device : OnDays(D, today, today) = {i \in I : store[i].device \in D}
  BY <1>1, <1>3, FleetDay DEF RowsOf
<1>6. \A i \in I : store[i].device \in Device /\ Owners[i] = CustomerOf[store[i].device]
  BY <1>3, RowsAre DEF Owners
<1>7. Scope(c, A) = {d \in Device : CustomerOf[d] \in C}
  BY <1>2 DEF Scope
<1>8. \A a \in C : Scope(a, None) = {d \in Device : CustomerOf[d] = a}
  BY <1>2 DEF Scope
<1> HIDE DEF C, I
<1>9. OnDays(Scope(c, A), today, today) = HavingAny(I, Owners, C)
  BY <1>5, <1>6, <1>7 DEF HavingAny
<1>10. ItemsOfKeys(g, I, Owners, C)
  <2> SUFFICES ASSUME NEW a \in C
               PROVE  g[a] = Items(Having(I, Owners, a))
    BY DEF ItemsOfKeys
  <2>1. OnDays(Scope(a, None), today, today) = Having(I, Owners, a)
    BY <1>5, <1>6, <1>8 DEF Having
  <2> QED
    BY <1>4, <2>1
<1>11. DOMAIN g = C
  OBVIOUS
<1> HIDE DEF g
<1>12. SumFunction(g) = Items(HavingAny(I, Owners, C))
  BY <1>2, <1>3, <1>10, <1>11, ItemKeys
<1> QED
  BY <1>4, <1>9, <1>12 DEF g, C

(* Panels of one day have all its items.                                   *)
LEMMA PanelsAgree ==
    ASSUME PagesIInv, NEW D, NEW day
    PROVE  LET k == Kpis(D, day, day)
           IN  /\ SumFunction(k.shifts) = SumFunction(k.machines)
               /\ SumFunction(k.fleetHours) = SumFunction(k.machines)
               /\ SumFunction(Profile(D, day)) = SumFunction(k.machines)
<1> DEFINE k == Kpis(D, day, day)
           R == Ranged(D, day, day)
<1>1. /\ R \in SUBSET All
      /\ DOMAIN k.machines = KeysOf(R, Devices)
      /\ ItemsOfKeys(k.machines, R, Devices, KeysOf(R, Devices))
      /\ DOMAIN k.fleetHours = KeysOf(R, DayHour)
      /\ ItemsOfKeys(k.fleetHours, R, DayHour, KeysOf(R, DayHour))
      /\ DOMAIN k.shifts = DOMAIN Shifts
      /\ ItemsOfKeys(k.shifts, R, ShiftHour, DOMAIN Shifts)
  BY KpisAre
<1> DEFINE p == Profile(D, day)
           H == 0 .. HoursPerDay - 1
<1>2. DOMAIN p = H /\ IsFiniteSet(H) /\ ItemsOfKeys(p, R, HourOf, H)
  BY ProfileIs
<1> HIDE DEF k, R, p, H
<1>3. SumFunction(k.machines) = Items(R) /\ SumFunction(k.fleetHours) = Items(R)
  <2>1. /\ IsFiniteSet(KeysOf(R, Devices)) /\ IsFiniteSet(KeysOf(R, DayHour))
        /\ \A i \in R : Devices[i] \in KeysOf(R, Devices) /\ DayHour[i] \in KeysOf(R, DayHour)
    <3>1. IsFiniteSet(KeysOf(R, Devices)) /\ IsFiniteSet(KeysOf(R, DayHour))
      BY <1>1, GroupsAre
    <3>2. \A K : \A i \in R : K[i] \in KeysOf(R, K)
      BY DEF KeysOf
    <3> QED
      BY <3>1, <3>2
  <2> QED
    BY <1>1, <2>1, ItemsOfAll
<1>4. ASSUME NEW i \in R
      PROVE  HourOf[i] \in H /\ ShiftHour[i] \in DOMAIN Shifts
  <2>1. i \in All /\ LocalHour(Ts(i)) \in H
    BY <1>1, RowsAre, LocalDays DEF H
  <2> QED
    BY <2>1, ShiftIs DEF HourOf, ShiftHour, H
<1>5. IsFiniteSet(DOMAIN Shifts)
  <2>1. Len(Shifts) \in Nat /\ DOMAIN Shifts = 1 .. Len(Shifts)
    BY TelemetryAssumption
  <2> QED
    BY <2>1, FS_Interval
<1>6. SumFunction(k.shifts) = Items(R)
  BY <1>1, <1>4, <1>5, ItemsOfAll
<1>7. SumFunction(p) = Items(R)
  BY <1>1, <1>2, <1>4, ItemsOfAll
<1> QED
  BY <1>3, <1>6, <1>7 DEF k, p

-----------------------------------------------------------------------------
(* The rows of a day, by device.                                           *)
LEMMA RowsOfDay ==
    ASSUME PagesIInv, NEW day \in Int
    PROVE  LET R == Ranged(Device, day, day)
           IN  /\ R \in SUBSET All
               /\ \A i \in R : LocalDay(Ts(i)) = day /\ store[i].device \in Device
               /\ \A d \in Device : OnDays({d}, day, day) = {i \in R : store[i].device = d}
<1>1. /\ Ranged(Device, day, day) = OnDays(Device, day, day)
      /\ OnDays(Device, day, day) \in SUBSET All
      /\ \A D : OnDays(D, day, day) = {i \in RowsOf(D) : LocalDay(Ts(i)) = day}
  BY RangedIs, FleetDay
<1> QED
  BY <1>1 DEF RowsOf

(* A device has the same day on every page that shows it.                  *)
LEMMA DevicesAgree ==
    ASSUME PagesIInv, NEW d \in Device, NEW day \in Int
    PROVE  LET k == Kpis(Device, day, day)
               perf == Performance(Device, day, day)
               machines == ByMachine(Device, day, day)
               s == Sums(OnDays({d}, day, day))
           IN  /\ <<d, day>> \in DOMAIN perf.series =>
                     perf.series[<<d, day>>] = s /\ perf.current[d] = s
               /\ <<d, day>> \in DOMAIN machines => machines[<<d, day>>].items = s.items
               /\ s.items = IF d \in DOMAIN k.machines THEN k.machines[d] ELSE 0
<1> DEFINE k == Kpis(Device, day, day)
           perf == Performance(Device, day, day)
           machines == ByMachine(Device, day, day)
           R == Ranged(Device, day, day)
           T == OnDays({d}, day, day)
           dd == <<d, day>>
<1>1. /\ R \in SUBSET All
      /\ \A i \in R : LocalDay(Ts(i)) = day /\ store[i].device \in Device
      /\ T = {i \in R : store[i].device = d}
  BY RowsOfDay
<1> HIDE DEF T
<1>2. ASSUME dd \in DOMAIN perf.series
      PROVE  perf.series[dd] = Sums(T) /\ perf.current[d] = Sums(T)
  <2> DEFINE series == SumsBy(R, DeviceDay)
             some == {o \in DOMAIN series : o[1] = d}
  <2>1. /\ perf.series = series
        /\ perf.current = [e \in {o[1] : o \in DOMAIN series} |->
               AddUp([o \in {o \in DOMAIN series : o[1] = e} |-> series[o]])]
    BY DEF Performance, DeviceDay
  <2> HIDE DEF R, perf
  <2>2. DOMAIN series = KeysOf(R, DeviceDay)
    BY <1>1, GroupsAre
  <2>3. dd \in DOMAIN series
    BY <1>2, <2>1
  <2>4. series[dd] = Sums(Having(R, DeviceDay, dd))
    BY <1>1, <2>2, <2>3, GroupsAre
  <2>5. Having(R, DeviceDay, dd) = T
    BY <1>1 DEF Having, DeviceDay
  <2>6. d \in {o[1] : o \in DOMAIN series}
    <3>1. dd[1] = d
      OBVIOUS
    <3> HIDE DEF dd, series
    <3> QED BY <2>3, <3>1
  <2>7. perf.current[d] = AddUp([o \in some |-> series[o]])
    <3> HIDE DEF series
    <3> QED BY <2>1, <2>6
  <2>8. some \in SUBSET KeysOf(R, DeviceDay)
    BY <2>2
  <2>9. HavingAny(R, DeviceDay, some) = T
    BY <1>1, <2>2 DEF HavingAny, KeysOf, DeviceDay
  <2> HIDE DEF some
  <2>10. AddUp([o \in some |-> series[o]]) = Sums(HavingAny(R, DeviceDay, some))
    BY <1>1, <2>8, SomeKeys
  <2> QED
    BY <2>1, <2>4, <2>5, <2>7, <2>9, <2>10
<1>3. ASSUME dd \in DOMAIN machines
      PROVE  machines[dd].items = Items(T)
  <2> DEFINE rows == HourlyRows(Device, day, day)
             some(e) == {x \in DOMAIN rows : <<x[1], x[2]>> = e}
  <2>1. machines = [e \in {<<x[1], x[2]>> : x \in DOMAIN rows} |->
                       [items |-> SumFunction([x \in some(e) |-> Items(rows[x])]),
                        hours |-> Cardinality(some(e))]]
    BY DEF ByMachine
  <2>2. rows = GroupBy(R, DeviceDayHour)
    BY DEF HourlyRows, DeviceDayHour
  <2> HIDE DEF R, machines, rows
  <2>3. machines[dd].items = SumFunction([x \in some(dd) |-> Items(rows[x])])
    <3> HIDE DEF dd, some
    <3> QED BY <1>3, <2>1
  <2>4. DOMAIN rows = KeysOf(R, DeviceDayHour)
    BY <1>1, <2>2, GroupsAre
  <2> DEFINE S == some(dd)
  <2>5. S \in SUBSET KeysOf(R, DeviceDayHour)
    BY <2>4
  <2>6. HavingAny(R, DeviceDayHour, S) = T
    BY <1>1, <2>4 DEF HavingAny, KeysOf, DeviceDayHour
  <2>7. SumFunction([x \in S |-> Items(rows[x])]) = Items(HavingAny(R, DeviceDayHour, S))
    <3> HIDE DEF S
    <3> QED BY <1>1, <2>2, <2>5, ItemsOfGroups
  <2> QED
    BY <2>3, <2>6, <2>7
<1>4. Items(T) = IF d \in DOMAIN k.machines THEN k.machines[d] ELSE 0
  <2>1. /\ DOMAIN k.machines = KeysOf(R, Devices)
        /\ ItemsOfKeys(k.machines, R, Devices, KeysOf(R, Devices))
    BY KpisAre
  <2> HIDE DEF R, k
  <2>2. Having(R, Devices, d) = T
    BY <1>1 DEF Having, Devices
  <2>3. CASE d \in KeysOf(R, Devices)
    BY <2>1, <2>2, <2>3 DEF ItemsOfKeys
  <2>4. CASE d \notin KeysOf(R, Devices)
    <3>1. Having(R, Devices, d) = {}
      BY <2>4 DEF Having, KeysOf
    <3> QED
      BY <2>1, <2>2, <2>4, <3>1, NoRowsNoSum
  <2> QED
    BY <2>3, <2>4
<1> QED
  BY <1>2, <1>3, <1>4, Zenon DEF Items, T

(* The greater of two numbers.                                             *)
LEMMA GreatestOfTwo ==
    ASSUME NEW a \in Int, NEW b \in Int
    PROVE  Max({a, b}) \in Int /\ a <= Max({a, b}) /\ b <= Max({a, b})
<1>1. \E x \in {a, b} : \A y \in {a, b} : x >= y
  OBVIOUS
<1>2. Max({a, b}) \in {a, b} /\ \A y \in {a, b} : Max({a, b}) >= y
  BY <1>1 DEF Max
<1> QED
  BY <1>2

(* Packets received and missed come to what is expected of every device    *)
(* that sent some.                                                         *)
LEMMA PacketsExpected ==
    ASSUME PagesIInv, NEW day \in Int
    PROVE  LET k == Kpis(Device, day, day)
           IN  k.received + k.missed >= ExpectedPerDay * Cardinality(DOMAIN k.machines)
<1> DEFINE k == Kpis(Device, day, day)
           R == Ranged(Device, day, day)
           rows == HourlyRows(Device, day, day)
           keys == DOMAIN rows
           f == [x \in keys |-> Cardinality(rows[x])]
           cell == [x \in keys |-> <<x[1], x[2]>>]
           cells == {<<x[1], x[2]>> : x \in keys}
           count(S) == SumFunction([x \in S |-> Cardinality(rows[x])])
           cnt == [dd \in cells |-> count({x \in keys : <<x[1], x[2]>> = dd})]
           m == [dd \in cells |-> Max({0, ExpectedPerDay - cnt[dd]})]
<1>1. /\ R \in SUBSET All
      /\ \A i \in R : LocalDay(Ts(i)) = day /\ store[i].device \in Device
  BY RowsOfDay
<1>2. rows = GroupBy(R, DeviceDayHour)
  BY DEF HourlyRows, DeviceDayHour
<1>3. DOMAIN k.machines = KeysOf(R, Devices)
  BY KpisAre
<1>4. k.received = count(keys)
  BY DEF Kpis
<1>5. k.missed = SumFunction(m)
  BY DEF Kpis
<1> HIDE DEF k, R, rows
<1>6. /\ keys = KeysOf(R, DeviceDayHour) /\ IsFiniteSet(keys)
      /\ \A x \in keys : rows[x] = Having(R, DeviceDayHour, x)
  BY <1>1, <1>2, GroupsAre
<1>7. \A x \in keys : f[x] \in Nat
  <2> SUFFICES ASSUME NEW x \in keys
               PROVE  Cardinality(rows[x]) \in Nat
    OBVIOUS
  <2>1. rows[x] \in SUBSET All
    BY <1>1, <1>6 DEF Having
  <2>2. IsFiniteSet(rows[x])
    BY <2>1, RowsAre, FS_Subset
  <2> QED
    BY <2>2, FS_CardinalityType
<1>8. cells = KeysOf(keys, cell)
  BY DEF KeysOf
<1>9. IsFiniteSet(cells)
  <2>1. cell \in Surjection(keys, cells)
    BY DEF Surjection
  <2> HIDE DEF cell, cells, keys
  <2> QED
    BY <1>6, <2>1, FS_Surjection
<1>10. ASSUME NEW S \in SUBSET keys
       PROVE  count(S) = SumFunctionOnSet(f, S)
  <2> DEFINE h == [x \in S |-> Cardinality(rows[x])]
  <2>1. count(S) = SumFunctionOnSet(h, S)
    BY DEF SumFunction
  <2>2. IsFiniteSet(S)
    BY <1>6, FS_Subset
  <2>3. \A x \in S : h[x] = f[x]
    OBVIOUS
  <2> HIDE DEF h, f, keys, count
  <2> QED
    BY <2>1, <2>2, <2>3, SumSame
<1>11. \A dd \in cells : cnt[dd] = SumFunctionOnSet(f, Having(keys, cell, dd))
  <2> SUFFICES ASSUME NEW dd \in cells
               PROVE  count({x \in keys : <<x[1], x[2]>> = dd})
                          = SumFunctionOnSet(f, Having(keys, cell, dd))
    OBVIOUS
  <2> DEFINE S == {x \in keys : <<x[1], x[2]>> = dd}
  <2>1. S = Having(keys, cell, dd) /\ S \in SUBSET keys
    BY DEF Having
  <2> HIDE DEF S, f, keys, cell, count
  <2> QED
    BY <1>10, <2>1 DEF S, keys
<1>12. \A x \in keys : cell[x] \in cells
  OBVIOUS
<1>13. SumFunctionOnSet(cnt, cells) = SumFunctionOnSet(f, keys)
  <2> HIDE DEF f, keys, cell, cells, cnt
  <2> QED
    BY <1>6, <1>7, <1>9, <1>11, <1>12, SumGroups
<1>14. \A dd \in cells : cnt[dd] \in Int
  <2> SUFFICES ASSUME NEW dd \in cells
               PROVE  cnt[dd] \in Int
    OBVIOUS
  <2> DEFINE S == Having(keys, cell, dd)
  <2>1. IsFiniteSet(S) /\ \A x \in S : f[x] \in Int
    <3>1. S \in SUBSET keys
      BY DEF Having
    <3> HIDE DEF S, keys, f
    <3> QED
      BY <1>6, <1>7, <3>1, FS_Subset
  <2> HIDE DEF S, f, cnt, cells, keys
  <2>2. SumFunctionOnSet(f, S) \in Int
    BY <2>1, SumInt
  <2> QED
    BY <1>11, <2>2 DEF S
<1>15. ExpectedPerDay \in Nat
  BY TelemetryAssumption
<1>16. \A dd \in cells : m[dd] \in Int /\ cnt[dd] + m[dd] >= ExpectedPerDay
  <2> SUFFICES ASSUME NEW dd \in cells
               PROVE  m[dd] \in Int /\ cnt[dd] + m[dd] >= ExpectedPerDay
    OBVIOUS
  <2> DEFINE c == cnt[dd]
             r == ExpectedPerDay - c
  <2>1. c \in Int /\ m[dd] = Max({0, r})
    BY <1>14
  <2> HIDE DEF cnt, m, cells
  <2>2. r \in Int
    BY <1>15, <2>1
  <2>3. Max({0, r}) \in Int /\ r <= Max({0, r})
    <3> HIDE DEF r
    <3> QED BY <2>2, GreatestOfTwo
  <2> HIDE DEF c
  <2> DEFINE x == Max({0, r})
  <2>4. x \in Int /\ ExpectedPerDay - c <= x /\ m[dd] = x
    BY <2>1, <2>3
  <2> HIDE DEF x
  <2> QED
    BY <1>15, <2>1, <2>4 DEF c
<1>17. SumFunction(m) = SumFunctionOnSet(m, cells)
  BY DEF SumFunction
<1>18. Cardinality(cells) = Cardinality(KeysOf(R, Devices))
  <2> DEFINE S == KeysOf(R, Devices)
             g == [d \in S |-> <<d, day>>]
  <2>1. \A i \in R : /\ DeviceDayHour[i][1] = Devices[i] /\ DeviceDayHour[i][2] = day
    BY <1>1 DEF DeviceDayHour, Devices
  <2>2. cells = {<<d, day>> : d \in S}
    <3>1. \A x \in keys : \E i \in R : x = DeviceDayHour[i]
      BY <1>6 DEF KeysOf
    <3>2. \A i \in R : DeviceDayHour[i] \in keys
      BY <1>6 DEF KeysOf
    <3>3. \A d \in S : \E i \in R : d = Devices[i]
      BY DEF KeysOf
    <3>4. \A i \in R : Devices[i] \in S
      BY DEF KeysOf
    <3> HIDE DEF keys, S
    <3> QED
      BY <2>1, <3>1, <3>2, <3>3, <3>4
  <2>3. g \in Bijection(S, cells)
    <3>1. g \in [S -> cells]
      <4> HIDE DEF S, cells
      <4> QED BY <2>2
    <3>2. \A a, b \in S : g[a] = g[b] => a = b
      OBVIOUS
    <3>3. \A t \in cells : \E a \in S : g[a] = t
      <4> HIDE DEF S, cells
      <4> QED BY <2>2
    <3> HIDE DEF g, S, cells
    <3> QED
      BY <3>1, <3>2, <3>3 DEF Bijection, Injection, Surjection, IsInjective
  <2>4. IsFiniteSet(S)
    BY <1>1, GroupsAre
  <2> HIDE DEF S, g, cells
  <2> QED
    BY <2>3, <2>4, FS_Bijection DEF ExistsBijection, S
<1> HIDE DEF f, cell, cells, cnt, m, keys, count
<1>19. SumFunctionOnSet(cnt, cells) + SumFunctionOnSet(m, cells)
           >= ExpectedPerDay * Cardinality(cells)
  BY <1>9, <1>14, <1>15, <1>16, SumAtLeast
<1>20. count(keys) = SumFunctionOnSet(f, keys)
  BY <1>10
<1>21. k.received = SumFunctionOnSet(cnt, cells) /\ k.missed = SumFunctionOnSet(m, cells)
  BY <1>4, <1>5, <1>13, <1>17, <1>20
<1>22. k.received + k.missed >= ExpectedPerDay * Cardinality(DOMAIN k.machines)
  BY <1>3, <1>18, <1>19, <1>21
<1> QED
  BY <1>22 DEF k

-----------------------------------------------------------------------------
(* Rows since two moments differ by those between them.                    *)
LEMMA SinceEither ==
    ASSUME PagesIInv, NEW R \in SUBSET All, NEW u \in Int, NEW l \in Int
    PROVE  Items(Since(R, u)) + Items(Between(R, l, u))
               = Items(Since(R, l)) + Items(Between(R, u, l))
<1>1. \A i \in R : Ts(i) \in Int
  BY RowsAre
<1>2. ASSUME NEW a \in Int, NEW b \in Int, a <= b
      PROVE  /\ Items(Since(R, a)) = Items(Between(R, a, b)) + Items(Since(R, b))
             /\ Items(Between(R, b, a)) = 0
             /\ Items(Between(R, a, b)) \in Nat /\ Items(Since(R, b)) \in Nat
  <2> DEFINE A == Between(R, a, b)
             B == Since(R, b)
  <2>1. A \in SUBSET All /\ B \in SUBSET All
    BY DEF Between, Since
  <2>2. A \cap B = {} /\ Since(R, a) = A \cup B /\ Between(R, b, a) = {}
    <3>1. ASSUME NEW i \in R
          PROVE  /\ a <= Ts(i) <=> (a <= Ts(i) /\ Ts(i) < b) \/ b <= Ts(i)
                 /\ ~(Ts(i) < b /\ b <= Ts(i)) /\ ~(b <= Ts(i) /\ Ts(i) < a)
      BY <1>1, <1>2
    <3> QED
      BY <3>1 DEF Between, Since
  <2> HIDE DEF A, B
  <2> QED
    BY <2>1, <2>2, ItemsOfTwo, NoRowsNoSum DEF A, B
<1>3. CASE l <= u
  <2>1. /\ Items(Since(R, l)) = Items(Between(R, l, u)) + Items(Since(R, u))
        /\ Items(Between(R, u, l)) = 0
        /\ Items(Between(R, l, u)) \in Nat /\ Items(Since(R, u)) \in Nat
    BY <1>2, <1>3
  <2> QED
    BY <2>1
<1>4. CASE u <= l
  <2>1. /\ Items(Since(R, u)) = Items(Between(R, u, l)) + Items(Since(R, l))
        /\ Items(Between(R, l, u)) = 0
        /\ Items(Between(R, u, l)) \in Nat /\ Items(Since(R, l)) \in Nat
    BY <1>2, <1>4
  <2> QED
    BY <2>1
<1> QED
  BY <1>3, <1>4

(* What the dashboard shows, and the pages of local days.                  *)
LEMMA MidnightsApart ==
    ASSUME PagesIInv
    PROVE  /\ \A d \in Device : TwoMidnights({d}, DashDevices[d].items, FleetToday(d).items)
           /\ NoneAhead => \A c \in DOMAIN DashCustomers :
                 TwoMidnights(Scope(c, None), DashCustomers[c].items, ParcelsToday(Scope(c, None)))
<1>1. LocalMidnight \in Int /\ UtcMidnight \in Int /\ now \in Int
  BY Midnights
<1>2. \A D : RowsOf(D) \in SUBSET All
  BY DEF RowsOf
<1>3. \A D : TwoMidnights(D, Items(Since(RowsOf(D), UtcMidnight)), Items(Since(RowsOf(D), LocalMidnight)))
  BY <1>1, <1>2, SinceEither DEF TwoMidnights
<1>4. \A D : TodayRows \cap RowsOf(D) = Since(RowsOf(D), UtcMidnight)
  BY DEF TodayRows, Since, RowsOf
<1>5. ASSUME NEW d \in Device
      PROVE  TwoMidnights({d}, DashDevices[d].items, FleetToday(d).items)
  <2>1. DashDevices[d].items = Items(Since(RowsOf({d}), UtcMidnight))
    BY <1>4 DEF DashDevices, Items
  <2>2. FleetToday(d).items = Items(Since(RowsOf({d}), LocalMidnight))
    BY DEF FleetToday, Items
  <2> QED
    BY <1>3, <2>1, <2>2
<1>6. ASSUME NoneAhead, NEW c \in DOMAIN DashCustomers
      PROVE  TwoMidnights(Scope(c, None), DashCustomers[c].items, ParcelsToday(Scope(c, None)))
  <2> DEFINE D == Scope(c, None)
             today == LocalDay(now)
  <2>1. c \in {CustomerOf[d] : d \in Device} /\ c # None
    BY TelemetryAssumption DEF DashCustomers
  <2>2. D = {d \in Device : CustomerOf[d] = c}
    BY <2>1 DEF Scope
  <2>3. DashCustomers[c].items = Items(Since(RowsOf(D), UtcMidnight))
    BY <1>4, <2>1, <2>2 DEF DashCustomers, Items
  <2> HIDE DEF D
  <2>4. today \in Int
    BY <1>1, LocalDays
  <2>5. ParcelsToday(D) = Items(OnDays(D, today, today))
    <3> HIDE DEF today
    <3> QED BY <2>4, RangedIs DEF ParcelsToday, today
  <2>6. OnDays(D, today, today) = Since(RowsOf(D), LocalMidnight)
    <3>1. OnDays(D, today, today) = {i \in RowsOf(D) : LocalDay(Ts(i)) = today}
      <4> HIDE DEF today
      <4> QED BY <2>4, FleetDay
    <3>2. ASSUME NEW i \in All
          PROVE  LocalMidnight <= Ts(i) <=> LocalDay(Ts(i)) = today
      <4>1. Ts(i) \in Int /\ LocalDay(Ts(i)) \in Int /\ LocalDay(Ts(i)) <= today
        BY <1>6, RowsAre, LocalDays DEF NoneAhead
      <4>2. today <= LocalDay(Ts(i)) <=> LocalMidnight <= Ts(i)
        <5> HIDE DEF today
        <5> QED BY <2>4, <4>1, LocalDays, Midnights DEF today
      <4> HIDE DEF today
      <4> QED
        BY <2>4, <4>1, <4>2
    <3> QED
      BY <1>2, <3>1, <3>2 DEF Since
  <2>7. ParcelsToday(D) = Items(Since(RowsOf(D), LocalMidnight))
    BY <2>5, <2>6
  <2> QED
    BY <1>3, <2>3, <2>7 DEF D
<1> QED
  BY <1>5, <1>6

-----------------------------------------------------------------------------
(* Today and the days before on three programs, as TotalsAgree says.       *)
LEMMA TotalsSame == PagesIInv => TotalsAgree
<1> SUFFICES ASSUME PagesIInv
             PROVE  TotalsAgree
  OBVIOUS
<1> DEFINE today == LocalDay(now)
           kpis == Kpis(Device, today, today)
           monitor(d, day) == Series(d, Presets.d7)[day * Day - 2 * Offset]
<1>1. today \in Int /\ DaysPerWeek \in Nat
  BY Units, LocalDays DEF PagesIInv
<1>2. ASSUME NEW day \in {LocalDay(Ts(i)) : i \in All} \cap today - DaysPerWeek + 1 .. today
      PROVE  LET k == Kpis(Device, day, day)
                 perf == Performance(Device, day, day)
                 machines == ByMachine(Device, day, day)
             IN  /\ \A d \in Device :
                       LET s == monitor(d, day) IN
                       /\ <<d, day>> \in DOMAIN perf.series =>
                             perf.series[<<d, day>>] = s /\ perf.current[d] = s
                       /\ <<d, day>> \in DOMAIN machines =>
                             machines[<<d, day>>].items = s.items
                       /\ s.items = IF d \in DOMAIN k.machines THEN k.machines[d] ELSE 0
                 /\ SumFunction(k.shifts) = SumFunction(k.machines)
                 /\ SumFunction(k.fleetHours) = SumFunction(k.machines)
                 /\ SumFunction(Profile(Device, day)) = SumFunction(k.machines)
                 /\ k.received + k.missed >= ExpectedPerDay * Cardinality(DOMAIN k.machines)
  <2> HIDE DEF today
  <2>1. day \in Int /\ today - DaysPerWeek + 1 <= day /\ day <= today
    BY <1>1
  <2>2. ASSUME NEW d \in Device
        PROVE  monitor(d, day) = Sums(OnDays({d}, day, day))
    BY <2>1, MonitorDay DEF today
  <2> HIDE DEF monitor
  <2>3. ASSUME NEW d \in Device
        PROVE  LET k == Kpis(Device, day, day)
                   perf == Performance(Device, day, day)
                   machines == ByMachine(Device, day, day)
                   s == monitor(d, day)
               IN  /\ <<d, day>> \in DOMAIN perf.series =>
                         perf.series[<<d, day>>] = s /\ perf.current[d] = s
                   /\ <<d, day>> \in DOMAIN machines => machines[<<d, day>>].items = s.items
                   /\ s.items = IF d \in DOMAIN k.machines THEN k.machines[d] ELSE 0
    BY <2>1, <2>2, DevicesAgree, Zenon
  <2> QED
    BY <2>1, <2>3, PanelsAgree, PacketsExpected, Zenon
<1>3. ASSUME NEW n \in DOMAIN Shifts
      PROVE  kpis.shifts[n] = SumFunctionOnSet(Profile(Device, today),
                               {h \in 0 .. HoursPerDay - 1 : Covers(Shifts[n], h)})
  BY ShiftsAgree
<1> QED
  BY <1>2, <1>3, ItemsOfFleet, MidnightsApart, CustomersAgree, Zenon DEF TotalsAgree
-----------------------------------------------------------------------------
(* PagesAgree, for every fleet, shift plan, offset and length of day, week *)
(* and month, and whatever packets arrive, however late or ahead:          *)
(* throughput, timewin and the statistics page give one number for a local *)
(* day; the marketing dashboard's day of UTC differs from it by the        *)
(* packets between the two midnights; and the device page shows an open    *)
(* outage for the devices the fleet page calls offline or stale.           *)
THEOREM PagesAlwaysAgree == PagesSpec => []PagesAgree
<1>1. PagesIInv => PagesAgree
  BY TotalsSame, OutagesReal DEF PagesAgree
<1> QED
  BY <1>1, PagesInvariant, PTL

(* PagesAddUp, likewise: charts, panels, tables and weeks that cut the     *)
(* packets in different ways give the same numbers on any day of the week  *)
(* and at any hour, and the fleet page's last hours leave out exactly the  *)
(* part of an hour before the first of them and what is dated ahead.       *)
THEOREM PagesAlwaysAddUp == PagesSpec => []PagesAddUp
<1>1. PagesIInv => PagesAddUp
  BY SeriesAddsUp, HoursAgree, HistoryAgrees, WeeksAgree DEF PagesAddUp
<1> QED
  BY <1>1, PagesInvariant, PTL
=============================================================================
