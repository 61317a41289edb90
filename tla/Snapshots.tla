----------------------------- MODULE Snapshots ------------------------------
(***************************************************************************)
(* The snapshot task of the monitor (s1_monitor snapshots.py and lifespan  *)
(* of main.py): every Interval it copies the health of the devices into    *)
(* dbo.device_health_history, once a day it deletes what is older than     *)
(* Retention, and it keeps what it publishes about itself.  The process    *)
(* may be restarted and calls of the database may fail, before or after    *)
(* they took effect.                                                       *)
(***************************************************************************)
EXTENDS Naturals, FiniteSets

CONSTANTS Interval,   \* snapshot_interval_minutes
          PruneEvery,
          Retention,  \* snapshot_retention_days
          Warmup,     \* the first sleep
          CallTime,   \* a call of the database takes no longer
          NotYet,
          MaxTime,    \* bound: the last moment
          MaxBreaks   \* bound: failed calls and restarts

ASSUME SnapshotsAssumption ==
    /\ Interval \in Nat \ {0} /\ PruneEvery \in Nat \ {0} /\ Retention \in Nat
    /\ Warmup \in Nat /\ CallTime \in Nat
    /\ NotYet \notin Nat
    /\ MaxTime \in Nat /\ MaxBreaks \in Nat

VARIABLES time,
          history,   \* snapshot_utc of the rows
          step,      \* where the task is, and until when
          start,     \* now of the current pass
          lastPrune,
          last,      \* state.snapshot_last_utc
          error,     \* state.snapshot_error_class
          calm,      \* history: since when nothing failed or restarted
          breaks

snapVars == <<time, history, step, start, lastPrune, last, error, calm, breaks>>

Sleeping(until) == [at |-> "sleep", until |-> until]
Calling(what) == [at |-> what, until |-> time + CallTime]
-----------------------------------------------------------------------------
(* lifespan(): the migration, then the task. *)
SnapInit ==
    /\ time = 0 /\ history = {}
    /\ step = [at |-> "migrate", until |-> CallTime]
    /\ start = 0 /\ lastPrune = NotYet /\ last = NotYet /\ error = NotYet
    /\ calm = 0 /\ breaks = 0

Break == breaks < MaxBreaks /\ breaks' = breaks + 1 /\ calm' = time
NoBreak == UNCHANGED <<breaks, calm>>

(* Time passes, but nothing is overdue. *)
TimePasses ==
    /\ time < step.until /\ time < MaxTime
    /\ time' = time + 1
    /\ UNCHANGED <<history, step, start, lastPrune, last, error, calm, breaks>>

Migrates ==
    /\ step.at = "migrate"
    /\ \/ NoBreak /\ UNCHANGED error
       \/ Break /\ error' = "migrate"
    /\ step' = Sleeping(time + Warmup)
    /\ UNCHANGED <<time, history, start, lastPrune, last>>

Wakes ==
    /\ step.at = "sleep" /\ time = step.until
    /\ start' = time
    /\ step' = Calling("insert")
    /\ UNCHANGED <<time, history, lastPrune, last, error>>
    /\ NoBreak

BadPruneDue == lastPrune = NotYet  \* mutant: once per process

PruneDue == lastPrune = NotYet \/ start >= lastPrune + PruneEvery

BadInserted ==  \* mutant: the pass is reported before it is made
    /\ step.at = "insert"
    /\ last' = start /\ error' = NotYet
    /\ step' = IF PruneDue THEN Calling("prune") ELSE Sleeping(time + Interval)
    /\ UNCHANGED <<time, history, start, lastPrune>>
    /\ NoBreak

(* run_once() succeeds, and the state says so. *)
Inserted ==
    /\ step.at = "insert"
    /\ history' = history \cup {start}
    /\ last' = start /\ error' = NotYet
    /\ step' = IF PruneDue THEN Calling("prune") ELSE Sleeping(time + Interval)
    /\ UNCHANGED <<time, start, lastPrune>>
    /\ NoBreak

Cutoff == IF start > Retention THEN start - Retention ELSE 0

Pruned ==
    /\ step.at = "prune"
    /\ history' = {h \in history : h >= Cutoff}
    /\ lastPrune' = start
    /\ step' = Sleeping(time + Interval)
    /\ UNCHANGED <<time, start, last, error>>
    /\ NoBreak

BadCallFails ==  \* mutant: the exception ends the task
    /\ step.at \in {"insert", "prune"}
    /\ Break
    /\ error' = step.at
    /\ step' = [at |-> "dead", until |-> MaxTime]
    /\ UNCHANGED <<time, history, start, lastPrune, last>>

(* A call raises, although the database may have done it. *)
CallFails ==
    /\ step.at \in {"insert", "prune"}
    /\ Break
    /\ \/ UNCHANGED history
       \/ step.at = "insert" /\ history' = history \cup {start}
       \/ step.at = "prune" /\ history' = {h \in history : h >= Cutoff}
    /\ error' = step.at
    /\ step' = Sleeping(time + Interval)
    /\ UNCHANGED <<time, start, lastPrune, last>>

(* The container is restarted; a call under way may have been done.        *)
Restarts ==
    /\ Break
    /\ \/ UNCHANGED history
       \/ step.at = "insert" /\ history' = history \cup {start}
       \/ step.at = "prune" /\ history' = {h \in history : h >= Cutoff}
    /\ step' = Calling("migrate")
    /\ lastPrune' = NotYet /\ last' = NotYet /\ error' = NotYet
    /\ UNCHANGED <<time, start>>

SnapNext ==
    \/ TimePasses \/ Migrates \/ Wakes \/ Inserted \/ Pruned
    \/ CallFails \/ Restarts

SnapSpec == SnapInit /\ [][SnapNext]_snapVars
-----------------------------------------------------------------------------
(* Type invariant of the snapshot task. *)
SnapTypeOK ==
    /\ time \in 0 .. MaxTime /\ start \in 0 .. time
    /\ history \subseteq 0 .. time
    /\ step.at \in {"migrate", "sleep", "insert", "prune"} /\ step.until >= time
    /\ lastPrune \in 0 .. time \cup {NotYet} /\ last \in 0 .. time \cup {NotYet}
    /\ error \in {NotYet, "migrate", "insert", "prune"}

(* The last snapshot the health check names is in the table, and nothing   *)
(* named later is missing: a failed call never passes for a snapshot, and  *)
(* pruning never removes it.                                               *)
LastIsStored == last # NotYet => last \in history

(* When nothing has failed or restarted for one pass, the newest snapshot  *)
(* is no older than a pass: a failure does not end the task.               *)
Pass == Interval + 2 * CallTime
SnapshotsGoOn ==
    time > calm + Warmup + 2 * CallTime + Pass
        => \E h \in history : time <= h + Pass + CallTime

(* Rows are deleted in time: once nothing has failed for a day and two     *)
(* passes, no row is older than Retention by more than a day and two       *)
(* passes.                                                                 *)
RetentionHolds ==
    time > calm + Warmup + PruneEvery + 2 * Pass
        => \A h \in history : time <= h + Retention + PruneEvery + 2 * Pass

(* device_health_history holds what the health page expects of it: when    *)
(* the database has been well for a while, no recent snapshot is missing   *)
(* and no old one is left, whatever failed or restarted before.            *)
HistoryIsCurrent == SnapTypeOK /\ SnapshotsGoOn /\ RetentionHolds
=============================================================================
