----------------------------- MODULE MCMonitor ------------------------------
(***************************************************************************)
(* The three parts of the web pages on small instances.  They share no     *)
(* state, so each behaviour runs one of them:                              *)
(*   "cache"      QueryCache: two requests for two pages, the second page  *)
(*                unknown, asked once at a time of the monitor only, which *)
(*                also has a tick more, for its health check               *)
(*   "snapshots"  Snapshots                                                *)
(*   "pages"      Telemetry: days of three hours, weeks of two days, and a *)
(*                clock that passes midnight, the local one and that of    *)
(*                UTC; packets are on time, a little late, a day late,     *)
(*                weeks late, or dated ahead                               *)
(***************************************************************************)
EXTENDS QueryCache, Snapshots, Telemetry

VARIABLE part

MCCustomerOf == [d \in Device |-> IF d = "d1" THEN "acme" ELSE "bolt"]
MCCreatedAt == [d \in Device |-> Base - 2]
MCReading ==
    {[items |-> 10, good_read |-> 6, no_read |-> 4, hand_scanned |-> 5],
     [items |-> 3, good_read |-> 3, no_read |-> 0, hand_scanned |-> 1]}
MCShifts == <<[lo |-> 2, hi |-> 1], [lo |-> 1, hi |-> 2]>>
MCLateness == {-2, -1, 0, 2, 7, 8, 50}

MCInit ==
    /\ CacheInit /\ SnapInit /\ PagesInit
    /\ part \in {"cache", "snapshots", "pages"}
    /\ part # "cache" => cacheKind = "kpi"

MCCacheNext ==
    /\ CacheNext
    /\ cacheKind # "monitor" => clock' < Horizon
    /\ \A r \in Request :
          requests'[r].phase = "asked" /\ requests'[r].page \in Unknown
              => cacheKind = "monitor" /\ r = CHOOSE q \in Request : TRUE

MCNext ==
    /\ UNCHANGED part
    /\ \/ part = "cache" /\ MCCacheNext /\ UNCHANGED <<snapVars, pageVars>>
       \/ part = "snapshots" /\ SnapNext /\ UNCHANGED <<cacheVars, pageVars>>
       \/ part = "pages" /\ PagesNext /\ UNCHANGED <<cacheVars, snapVars>>

MCSpec ==
    MCInit /\ [][MCNext]_<<cacheVars, snapVars, pageVars, part>> /\ CacheFairness
=============================================================================
