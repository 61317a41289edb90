--------------------------- MODULE IngestorProofs ---------------------------
(***************************************************************************)
(* Proofs about Ingestor, for every set of messages and devices, every     *)
(* batch size and number of retries, and any number of faults, crashes and *)
(* restarts.                                                               *)
(*                                                                         *)
(* The pipeline uses its spool only through steps of Spool, so what is     *)
(* proved of the spool alone holds in the pipeline; to that the invariant  *)
(* below adds what a program counter says of the batch in hand.            *)
(***************************************************************************)
EXTENDS Ingestor, SpoolProofs, WellFoundedInduction

DatabaseFields == {"devices", "status", "itemlog", "done", "dead", "stats"}

(* What holds of the committed database and of the open transaction.       *)
DatabaseFine(t) == DOMAIN t = DatabaseFields /\ DatabaseOK(t)

(* Where the writer stands with the batch it holds. *)
BatchOK ==
    /\ pc = "dispatch" => held \ todo \subseteq txn.done
    /\ pc = "stored" => todo = {} /\ held \subseteq db.done
    /\ pc = "deadletter" => attempt < DeadletterTries
    /\ pc = "discard" => held \subseteq db.dead \cup lost

(* The inductive invariant: types, the batch in hand, and a transaction    *)
(* that has lost nothing of the committed database.                        *)
IngestorIInv ==
    /\ SpoolIInv
    /\ IngestorTypeOK
    /\ DOMAIN db = DatabaseFields /\ DOMAIN txn = DatabaseFields
    /\ db.done \subseteq txn.done /\ db.dead \subseteq txn.dead
    /\ BatchOK
    /\ NeverSilentlyLost
-----------------------------------------------------------------------------
(* The pipeline and its spool.                                             *)

(* Every step of the pipeline is a step of its spool or leaves it alone. *)
LEMMA NextIsSpoolStep ==
    ASSUME [Next]_vars
    PROVE  [SpoolNext]_spoolVars
<1>0. BatchSize \in BatchSizes /\ DrainSize \in BatchSizes
  BY IngestorAssumption
<1>1. ASSUME NEW m \in Message, Receive(m)
      PROVE  SpoolNext
  BY <1>1 DEF Receive, SpoolNext
<1>2. CASE Fetch
  BY <1>0, <1>2 DEF Fetch, SpoolNext
<1>3. CASE ReleaseSettings
  BY <1>3 DEF ReleaseSettings, SettingsIds, SpoolNext
<1>4. CASE ReleaseWritten \/ DiscardBatch
  BY <1>4 DEF ReleaseWritten, DiscardBatch, SpoolNext
<1>5. CASE CloseAll
  BY <1>5 DEF CloseAll, SpoolNext
<1>6. CASE ExitAndRestart \/ CrashAndRestart
  BY <1>6 DEF ExitAndRestart, CrashAndRestart, Reborn, SpoolNext
<1>7. CASE WriteSettings \/ BeginAttempt \/ UpdatePipelineState
  BY <1>7 DEF WriteSettings, BeginAttempt, UpdatePipelineState
<1>8. CASE DispatchEntry \/ DispatchRaises \/ DispatchCollides
  BY <1>8 DEF DispatchEntry, DispatchRaises, DispatchCollides
<1>9. CASE DispatchFault \/ CommitAttempt \/ RollBack
  BY <1>9 DEF DispatchFault, CommitAttempt, RollBack
<1>10. CASE WriteDeadletter \/ DeadletterFault
  BY <1>10 DEF WriteDeadletter, DeadletterFault
<1>11. CASE BrokerFlush \/ BrokerFault \/ BrokerRollBack \/ Stop
  BY <1>11 DEF BrokerFlush, BrokerFault, BrokerRollBack, Stop
<1>12. CASE UNCHANGED vars
  BY <1>12 DEF vars
<1> QED
  BY <1>1, <1>2, <1>3, <1>4, <1>5, <1>6, <1>7, <1>8, <1>9, <1>10, <1>11, <1>12
  DEF Next, WriterStep

(* The pipeline implements the spool specification: every theorem about    *)
(* SpoolSpec holds of the running ingestor (pipeline.py is the only caller *)
(* of spool.py).                                                           *)
THEOREM IngestorImplementsSpool == Spec => SpoolSpec
<1>1. Init => SpoolInit
  BY DEF Init
<1>2. [Next]_vars => [SpoolNext]_spoolVars
  BY NextIsSpoolStep
<1> QED
  BY <1>1, <1>2, PTL DEF Spec, SpoolSpec
-----------------------------------------------------------------------------
(* Facts about the operators.                                              *)

(* A database stays well formed when the log grows. *)
DatabaseUpTo(t, n) ==
    /\ DOMAIN t = DatabaseFields
    /\ t.devices \in [Device -> {Absent} \cup {SerialFor(m) : m \in Message}]
    /\ t.status \in [Device -> 0 .. n]
    /\ IsABag(t.itemlog)
    /\ t.stats \in {0, 1}
    /\ t.done \cup t.dead \cup BagToSet(t.itemlog) \subseteq 1 .. n

LEMMA DatabaseUpToLog ==
    ASSUME NEW t
    PROVE  DatabaseUpTo(t, Len(log)) <=> DatabaseFine(t)
BY DEF DatabaseUpTo, DatabaseFine, DatabaseOK

LEMMA DatabaseGrows ==
    ASSUME NEW t, NEW n \in Nat, NEW k \in Nat, n <= k, DatabaseUpTo(t, n)
    PROVE  DatabaseUpTo(t, k)
<1>1. 0 .. n \subseteq 0 .. k /\ 1 .. n \subseteq 1 .. k
  OBVIOUS
<1>2. t.status \in [Device -> 0 .. k]
  BY <1>1 DEF DatabaseUpTo
<1> QED
  BY <1>1, <1>2 DEF DatabaseUpTo

(* Registering or upgrading the device of a message. *)
LEMMA ResolvedOK ==
    ASSUME NEW n \in Nat, DatabaseUpTo(txn, n), NEW m \in Message
    PROVE  /\ DatabaseUpTo(Resolved(m), n)
           /\ Resolved(m).done = txn.done
           /\ Resolved(m).dead = txn.dead
<1>1. DeviceOf[m] \in Device
  BY IngestorAssumption
<1>2. /\ DOMAIN Resolved(m) = DatabaseFields
      /\ Resolved(m).devices = [txn.devices EXCEPT ![DeviceOf[m]] = SerialFor(m)]
      /\ Resolved(m).status = txn.status
      /\ Resolved(m).itemlog = txn.itemlog /\ Resolved(m).stats = txn.stats
      /\ Resolved(m).done = txn.done
      /\ Resolved(m).dead = txn.dead
  BY DEF Resolved, DatabaseUpTo, DatabaseFields
<1>3. Resolved(m).devices \in [Device -> {Absent} \cup {SerialFor(x) : x \in Message}]
  BY <1>1, <1>2 DEF DatabaseUpTo
<1> QED
  BY <1>2, <1>3 DEF DatabaseUpTo

(* One broker snapshot more. *)
LEMMA SnapshotOK ==
    ASSUME NEW n \in Nat, NEW t, DatabaseUpTo(t, n)
    PROVE  /\ DatabaseUpTo(Snapshot(t), n)
           /\ Snapshot(t).status = t.status /\ Snapshot(t).itemlog = t.itemlog
           /\ Snapshot(t).done = t.done /\ Snapshot(t).dead = t.dead
<1>1. /\ DOMAIN Snapshot(t) = DatabaseFields
      /\ Snapshot(t).devices = t.devices /\ Snapshot(t).status = t.status
      /\ Snapshot(t).itemlog = t.itemlog
      /\ Snapshot(t).done = t.done /\ Snapshot(t).dead = t.dead
      /\ Snapshot(t).stats = 1 - t.stats
  BY DEF Snapshot, DatabaseUpTo, DatabaseFields
<1>2. 1 - t.stats \in {0, 1}
  BY DEF DatabaseUpTo
<1> QED
  BY <1>1, <1>2 DEF DatabaseUpTo

(* One more row in the append-only table. *)
LEMMA BagAdd ==
    ASSUME NEW B, IsABag(B), NEW i
    PROVE  /\ IsABag(B (+) SetToBag({i}))
           /\ BagToSet(B (+) SetToBag({i})) = BagToSet(B) \cup {i}
<1> DEFINE C == B (+) SetToBag({i})
<1>1. /\ DOMAIN C = (DOMAIN B) \cup {i}
      /\ \A e \in DOMAIN C : C[e] = (IF e \in DOMAIN B THEN B[e] ELSE 0)
                                     + (IF e \in {i} THEN 1 ELSE 0)
  BY DEF (+), SetToBag
<1>2. \A e \in DOMAIN B : B[e] \in Nat /\ B[e] > 0
  BY DEF IsABag
<1>3. \A e \in DOMAIN C : C[e] \in {n \in Nat : n > 0}
  BY <1>1, <1>2
<1>4. C = [e \in DOMAIN C |-> C[e]]
  BY DEF (+)
<1>5. C \in [DOMAIN C -> {n \in Nat : n > 0}]
  <2> HIDE DEF C
  <2> QED BY <1>3, <1>4
<1> QED
  BY <1>1, <1>5 DEF IsABag, BagToSet

(* The statement of a handler, and the mark that its row was handled. *)
LEMMA HandleOK ==
    ASSUME NEW n \in Nat, NEW t, DatabaseUpTo(t, n), NEW i \in 1 .. n,
           log[i] \in Message
    PROVE  /\ DatabaseUpTo(Handle(t, i), n)
           /\ Handle(t, i).done = t.done \cup {i}
           /\ Handle(t, i).dead = t.dead
<1>0. DeviceOf[log[i]] \in Device /\ i \in 0 .. n
  BY IngestorAssumption
<1>1. CASE KindOf(i) = "status"
  <2>1. Handle(t, i) = [t EXCEPT !.status[DeviceOf[log[i]]] = i, !.done = @ \cup {i}]
    BY <1>1 DEF Handle
  <2>2. /\ DOMAIN Handle(t, i) = DatabaseFields
        /\ Handle(t, i).devices = t.devices
        /\ Handle(t, i).status = [t.status EXCEPT ![DeviceOf[log[i]]] = i]
        /\ Handle(t, i).itemlog = t.itemlog
        /\ Handle(t, i).done = t.done \cup {i}
        /\ Handle(t, i).dead = t.dead /\ Handle(t, i).stats = t.stats
    BY <2>1 DEF DatabaseUpTo, DatabaseFields
  <2>3. Handle(t, i).status \in [Device -> 0 .. n]
    BY <1>0, <2>2 DEF DatabaseUpTo
  <2> QED BY <2>2, <2>3 DEF DatabaseUpTo
<1>2. CASE KindOf(i) = "itemlog"
  <2>1. Handle(t, i) = [t EXCEPT !.itemlog = @ (+) SetToBag({i}), !.done = @ \cup {i}]
    BY <1>2 DEF Handle
  <2>2. /\ DOMAIN Handle(t, i) = DatabaseFields
        /\ Handle(t, i).devices = t.devices
        /\ Handle(t, i).status = t.status
        /\ Handle(t, i).itemlog = t.itemlog (+) SetToBag({i})
        /\ Handle(t, i).done = t.done \cup {i}
        /\ Handle(t, i).dead = t.dead /\ Handle(t, i).stats = t.stats
    BY <2>1 DEF DatabaseUpTo, DatabaseFields
  <2>3. /\ IsABag(Handle(t, i).itemlog)
        /\ BagToSet(Handle(t, i).itemlog) = BagToSet(t.itemlog) \cup {i}
    <3> DEFINE B == t.itemlog
    <3>1. IsABag(B)
      BY DEF DatabaseUpTo
    <3> HIDE DEF B
    <3>2. /\ IsABag(B (+) SetToBag({i}))
          /\ BagToSet(B (+) SetToBag({i})) = BagToSet(B) \cup {i}
      BY <3>1, BagAdd
    <3> QED BY <2>2, <3>2 DEF B
  <2> QED BY <2>2, <2>3 DEF DatabaseUpTo
<1>3. CASE KindOf(i) \notin {"status", "itemlog"}
  <2>1. Handle(t, i) = [t EXCEPT !.done = @ \cup {i}]
    BY <1>3 DEF Handle
  <2>2. /\ DOMAIN Handle(t, i) = DatabaseFields
        /\ Handle(t, i).devices = t.devices
        /\ Handle(t, i).status = t.status
        /\ Handle(t, i).itemlog = t.itemlog
        /\ Handle(t, i).done = t.done \cup {i}
        /\ Handle(t, i).dead = t.dead /\ Handle(t, i).stats = t.stats
    BY <2>1 DEF DatabaseUpTo, DatabaseFields
  <2> QED BY <2>2 DEF DatabaseUpTo
<1> QED
  BY <1>1, <1>2, <1>3

(* The first id of a batch is in it, and no other comes before it. *)
LEMMA FirstIn ==
    ASSUME NEW n \in Nat, NEW S \in SUBSET (1 .. n), S # {}
    PROVE  First(S) \in S /\ \A j \in S : First(S) <= j
BY OldestIn DEF First

-----------------------------------------------------------------------------
(* What a step does to the spool and to the database.                      *)

(* A rejected or accepted event releases no row. *)
LEMMA EnqueueReleases ==
    ASSUME SpoolIInv, NEW m \in Message, Enqueue(m)
    PROVE  /\ Released(view)' \subseteq Released(view)
           /\ Len(log) \in Nat /\ Len(log') \in Nat /\ Len(log) <= Len(log')
           /\ held' = held
<1>0. log \in Seq(Message) /\ Len(log) \in Nat
  BY DEF SpoolIInv
<1>1. MakeRoom(m).live \cup MakeRoom(m).dropped = view.live \cup view.dropped
  BY MakeRoomOK
<1>2. CASE EnqueueReject(m)
  BY <1>0, <1>1, <1>2 DEF EnqueueReject, Released
<1>3. CASE EnqueueAccept(m)
  <2>1. MakeRoom(m) \in Tables
    BY MakeRoomOK DEF TableOK
  <2>2. /\ view'.live = MakeRoom(m).live \cup {Len(log) + 1}
        /\ view'.dropped = MakeRoom(m).dropped
    BY <1>3, <2>1 DEF EnqueueAccept, Insert, Tables
  <2>3. Len(log') = Len(log) + 1 /\ held' = held
    BY <1>0, <1>3 DEF EnqueueAccept
  <2> QED BY <1>0, <1>1, <2>2, <2>3 DEF Released
<1> QED BY <1>2, <1>3 DEF Enqueue

(* commit_batch releases the ids it is given and no other. *)
LEMMA CommitReleases ==
    ASSUME SpoolIInv, NEW ids \in SUBSET held, CommitBatch(ids)
    PROVE  /\ Released(view)' \subseteq Released(view) \cup ids
           /\ log' = log /\ held' = held \ ids
BY DEF CommitBatch, Release, Released, SpoolIInv, TableOK, Tables

(* A rollback releases none. *)
LEMMA RollbackReleases ==
    ASSUME SpoolIInv, view' = disk, log' = log
    PROVE  Released(view)' = Released(view)
BY DEF Released, SpoolIInv

(* What a step does to the database: both stay well formed, nothing that   *)
(* was committed is taken back, and the transaction lacks nothing of it.   *)
DatabaseAdvances ==
    /\ DatabaseUpTo(db', Len(log)) /\ DatabaseUpTo(txn', Len(log))
    /\ db'.done \subseteq txn'.done /\ db'.dead \subseteq txn'.dead
    /\ db.done \subseteq db'.done /\ db.dead \subseteq db'.dead

LEMMA DatabaseStep ==
    ASSUME IngestorIInv, [Next]_vars
    PROVE  DatabaseAdvances
<1>0. /\ Len(log) \in Nat /\ log \in Seq(Message)
      /\ held \subseteq 1 .. Len(log) /\ todo \subseteq held
      /\ DatabaseUpTo(db, Len(log)) /\ DatabaseUpTo(txn, Len(log))
      /\ db.done \subseteq txn.done /\ db.dead \subseteq txn.dead
  BY DEF IngestorIInv, SpoolIInv, IngestorTypeOK, DatabaseOK, DatabaseUpTo
<1>1. CASE UNCHANGED <<db, txn>>
  BY <1>0, <1>1 DEF DatabaseAdvances
<1>2. CASE txn' = db /\ UNCHANGED db
  BY <1>0, <1>2 DEF DatabaseAdvances
<1>3. CASE db' = txn /\ UNCHANGED txn
  BY <1>0, <1>3 DEF DatabaseAdvances
<1>4. ASSUME NEW i \in 1 .. Len(log), db' = Resolved(log[i]), txn' = db'
      PROVE  DatabaseAdvances
  <2>1. /\ DatabaseUpTo(Resolved(log[i]), Len(log))
        /\ Resolved(log[i]).done = txn.done /\ Resolved(log[i]).dead = txn.dead
    BY <1>0, ResolvedOK
  <2> QED BY <1>0, <1>4, <2>1 DEF DatabaseAdvances
<1>5. todo # {} => First(todo) \in 1 .. Len(log)
  BY <1>0, FirstIn
<1>6. CASE DispatchEntry
  <2> DEFINE i == First(todo)
  <2>1. i \in 1 .. Len(log) /\ log[i] \in Message
    BY <1>0, <1>5, <1>6 DEF DispatchEntry
  <2>2. \/ UNCHANGED db /\ txn' = Handle(txn, i)
        \/ db' = Resolved(log[i]) /\ txn' = Handle(Resolved(log[i]), i)
    BY <1>6 DEF DispatchEntry
  <2> HIDE DEF i
  <2>3. /\ DatabaseUpTo(Handle(txn, i), Len(log))
        /\ Handle(txn, i).done = txn.done \cup {i}
        /\ Handle(txn, i).dead = txn.dead
    BY <1>0, <2>1, HandleOK
  <2>4. /\ DatabaseUpTo(Resolved(log[i]), Len(log))
        /\ Resolved(log[i]).done = txn.done /\ Resolved(log[i]).dead = txn.dead
    BY <1>0, <2>1, ResolvedOK
  <2>5. /\ DatabaseUpTo(Handle(Resolved(log[i]), i), Len(log))
        /\ Handle(Resolved(log[i]), i).done = txn.done \cup {i}
        /\ Handle(Resolved(log[i]), i).dead = txn.dead
    BY <1>0, <2>1, <2>4, HandleOK
  <2> QED BY <1>0, <2>2, <2>3, <2>4, <2>5 DEF DatabaseAdvances
<1>7. ASSUME NEW S \in SUBSET held,
             db' = [txn EXCEPT !.dead = @ \cup S], txn' = db'
      PROVE  DatabaseAdvances
  <2> DEFINE u == db'
  <2>1. u = [txn EXCEPT !.dead = @ \cup S] /\ S \in SUBSET (1 .. Len(log))
    BY <1>0, <1>7
  <2> HIDE DEF u
  <2>2. /\ DatabaseUpTo(u, Len(log))
        /\ u.done = txn.done /\ u.dead = txn.dead \cup S
    <3>1. Len(log) \in Nat /\ DatabaseUpTo(txn, Len(log))
      BY <1>0
    <3>2. /\ DOMAIN u = DatabaseFields
          /\ u.devices = txn.devices /\ u.status = txn.status
          /\ u.itemlog = txn.itemlog /\ u.done = txn.done
          /\ u.stats = txn.stats
          /\ u.dead = txn.dead \cup S
      BY <2>1, <3>1 DEF DatabaseUpTo, DatabaseFields
    <3> QED BY <2>1, <3>1, <3>2 DEF DatabaseUpTo
  <2> USE DEF u
  <2> QED BY <1>0, <1>7, <2>2 DEF DatabaseAdvances
<1>8. CASE DispatchRaises
  BY <1>1, <1>4, <1>5, <1>8 DEF DispatchRaises, dbVars
<1>9. CASE DispatchFault
  BY <1>1, <1>2, <1>3, <1>4, <1>5, <1>9 DEF DispatchFault, dbVars
<1>10. CASE CommitAttempt \/ UpdatePipelineState
  BY <1>2, <1>3, <1>10 DEF CommitAttempt, UpdatePipelineState
<1>11. CASE RollBack \/ BrokerRollBack \/ CloseAll
  BY <1>2, <1>11 DEF RollBack, BrokerRollBack, CloseAll
<1>12. CASE BrokerFlush \/ BrokerFault
  <2>1. /\ DatabaseUpTo(Snapshot(txn), Len(log))
        /\ Snapshot(txn).done = txn.done /\ Snapshot(txn).dead = txn.dead
    BY <1>0, SnapshotOK
  <2>2. CASE txn' = Snapshot(txn) /\ UNCHANGED db
    BY <1>0, <2>1, <2>2 DEF DatabaseAdvances
  <2>3. CASE db' = Snapshot(txn) /\ txn' = db'
    BY <1>0, <2>1, <2>3 DEF DatabaseAdvances
  <2> QED BY <1>1, <1>2, <1>12, <2>2, <2>3 DEF BrokerFlush, BrokerFault, dbVars
<1>13. CASE WriteDeadletter
  <2>1. held \in SUBSET held
    OBVIOUS
  <2> QED BY <1>7, <1>13, <2>1 DEF WriteDeadletter
<1>14. CASE DeadletterFault
  BY <1>2, <1>7, <1>14 DEF DeadletterFault
<1>15. CASE ExitAndRestart \/ CrashAndRestart
  BY <1>2, <1>15 DEF ExitAndRestart, CrashAndRestart, Reborn
<1>16. ASSUME NEW m \in Message, Receive(m)
       PROVE  DatabaseAdvances
  BY <1>1, <1>16 DEF Receive, dbVars
<1>17. CASE Fetch \/ WriteSettings \/ ReleaseSettings \/ BeginAttempt
  BY <1>1, <1>17 DEF Fetch, WriteSettings, ReleaseSettings, BeginAttempt, dbVars
<1>18. CASE DispatchCollides \/ ReleaseWritten \/ DiscardBatch \/ Stop
  BY <1>1, <1>18 DEF DispatchCollides, ReleaseWritten, DiscardBatch, Stop, dbVars
<1>19. CASE UNCHANGED vars
  BY <1>1, <1>19 DEF vars, dbVars
<1> QED
  BY <1>6, <1>8, <1>9, <1>10, <1>11, <1>12, <1>13, <1>14, <1>15, <1>16, <1>17,
     <1>18, <1>19 DEF Next, WriterStep
-----------------------------------------------------------------------------
(* What a step does to the writer and to the histories.                    *)

WriterOK ==
    /\ pc \in {"idle", "settings", "waiting", "dispatch", "failed", "stored",
               "state", "deadletter", "discard", "halt"}
    /\ todo \subseteq held
    /\ attempt \in 0 .. (IF pc \in {"deadletter", "discard"}
                         THEN DeadletterTries ELSE MaxRetries)
    /\ draining \in BOOLEAN
    /\ brokerPc \in {"ready", "failed"} /\ phase \in {"run", "stopping", "closed"}

HistoryOK ==
    /\ files \in [Device -> 0 .. Len(log)]
    /\ filed \cup lost \subseteq 1 .. Len(log)
    /\ failures \in [1 .. Len(log) -> Nat]
    /\ faults \in 0 .. MaxFaults /\ restarts \in 0 .. MaxRestarts

LEMMA TypeParts ==
    IngestorTypeOK <=> WriterOK /\ HistoryOK /\ DatabaseOK(db) /\ DatabaseOK(txn)
BY DEF IngestorTypeOK, WriterOK, HistoryOK

(* The log only grows, and outside Receive it stays as it is. *)
LEMMA LogStep ==
    ASSUME IngestorIInv, [Next]_vars
    PROVE  /\ Len(log) \in Nat /\ Len(log') \in Nat /\ Len(log) <= Len(log')
           /\ (\A m \in Message : ~Receive(m)) => log' = log
<1>0. SpoolIInv /\ Len(log) \in Nat
  BY DEF IngestorIInv, SpoolIInv
<1>1. ASSUME NEW m \in Message, Receive(m)
      PROVE  Len(log') \in Nat /\ Len(log) <= Len(log')
  BY <1>0, <1>1, EnqueueReleases DEF Receive
<1>2. ASSUME \A m \in Message : ~Receive(m)
      PROVE  log' = log
  <2>1. CASE WriterStep
    BY <2>1 DEF WriterStep, Fetch, WriteSettings, ReleaseSettings, BeginAttempt,
       DispatchEntry, DispatchRaises, DispatchCollides, DispatchFault,
       CommitAttempt, RollBack, ReleaseWritten, UpdatePipelineState,
       WriteDeadletter, DeadletterFault, DiscardBatch, spoolVars,
       DequeueBatch, CommitBatch
  <2>2. CASE BrokerFlush \/ BrokerFault \/ BrokerRollBack \/ Stop
    BY <2>2 DEF BrokerFlush, BrokerFault, BrokerRollBack, Stop, spoolVars
  <2>3. CASE CloseAll \/ ExitAndRestart \/ CrashAndRestart
    BY <2>3 DEF CloseAll, ExitAndRestart, CrashAndRestart, Reborn, Close, Crash
  <2>4. CASE UNCHANGED vars
    BY <2>4 DEF vars, spoolVars
  <2> QED BY <1>2, <2>1, <2>2, <2>3, <2>4 DEF Next
<1> QED
  BY <1>0, <1>1, <1>2

(* The writer's program counter and the batch stay in step. *)
LEMMA WriterKept ==
    ASSUME IngestorIInv, [Next]_vars
    PROVE  WriterOK' /\ BatchOK'
<1> DEFINE Goal == WriterOK' /\ BatchOK'
<1>0. /\ WriterOK /\ BatchOK /\ SpoolIInv
      /\ MaxRetries \in Nat /\ DeadletterTries \in Nat \ {0}
  BY TypeParts, IngestorAssumption DEF IngestorIInv
<1>1. DatabaseAdvances
  BY DatabaseStep
<1>2. todo # {} => First(todo) \in todo
  <2>1. Len(log) \in Nat /\ todo \in SUBSET (1 .. Len(log))
    BY <1>0 DEF SpoolIInv, WriterOK
  <2> QED BY <2>1, FirstIn
<1>3. CASE UNCHANGED <<held, pc, todo, attempt, draining, lost, brokerPc>>
           /\ (pc # "dispatch" \/ UNCHANGED dbVars)
           /\ phase' \in {"run", "stopping", "closed"}
  BY <1>0, <1>1, <1>3 DEF WriterOK, BatchOK, DatabaseAdvances, dbVars
<1>4. ASSUME NEW m \in Message, Receive(m)
      PROVE  Goal
  <2>1. held' = held
    BY <1>0, <1>4, EnqueueReleases DEF Receive
  <2> QED BY <1>0, <1>3, <1>4, <2>1 DEF Receive, writerVars, WriterOK
<1>5. CASE Fetch
  BY <1>0, <1>5 DEF Fetch, SettingsIds, WriterOK, BatchOK, DequeueBatch
<1>6. CASE WriteSettings
  BY <1>0, <1>6 DEF WriteSettings, WriterOK, BatchOK, spoolVars
<1>7. CASE ReleaseSettings
  BY <1>0, <1>7
  DEF ReleaseSettings, EndCycle, CommitBatch, WriterOK, BatchOK
<1>8. CASE BeginAttempt
  BY <1>0, <1>8 DEF BeginAttempt, WriterOK, BatchOK, spoolVars
<1>9. CASE DispatchEntry
  <2> DEFINE i == First(todo)
  <2>1. held \ todo' \subseteq (held \ todo) \cup {i} /\ todo' \subseteq held'
    BY <1>0, <1>9 DEF DispatchEntry, WriterOK, spoolVars
  <2>2. txn'.done = txn.done \cup {i}
    <3>0. /\ Len(log) \in Nat /\ DatabaseUpTo(txn, Len(log))
          /\ i \in 1 .. Len(log) /\ log[i] \in Message
      <4>1. i \in todo /\ todo \subseteq held
        BY <1>0, <1>2, <1>9 DEF DispatchEntry, WriterOK
      <4>2. held \subseteq 1 .. Len(log) /\ log \in Seq(Message)
        BY <1>0 DEF SpoolIInv
      <4>3. DatabaseFine(txn)
        BY DEF IngestorIInv, IngestorTypeOK, DatabaseFine
      <4>4. DatabaseUpTo(txn, Len(log))
        BY <4>3, DatabaseUpToLog
      <4> HIDE DEF i
      <4> QED BY <4>1, <4>2, <4>4
    <3>1. \/ txn' = Handle(txn, i)
          \/ txn' = Handle(Resolved(log[i]), i)
      BY <1>9 DEF DispatchEntry
    <3> HIDE DEF i
    <3>2. /\ DatabaseUpTo(Resolved(log[i]), Len(log))
          /\ Resolved(log[i]).done = txn.done
      BY <3>0, ResolvedOK
    <3>3. /\ Handle(txn, i).done = txn.done \cup {i}
          /\ Handle(Resolved(log[i]), i).done = txn.done \cup {i}
      BY <3>0, <3>2, HandleOK
    <3> QED BY <3>1, <3>3
  <2> QED BY <1>0, <1>9, <2>1, <2>2 DEF DispatchEntry, WriterOK, BatchOK, spoolVars
<1>10. CASE DispatchRaises
  BY <1>0, <1>10 DEF DispatchRaises, EndCycle, WriterOK, BatchOK, spoolVars
<1>11. CASE DispatchCollides \/ DispatchFault
  BY <1>0, <1>11
  DEF DispatchCollides, DispatchFault, WriterOK, BatchOK, spoolVars
<1>12. CASE CommitAttempt
  BY <1>0, <1>12 DEF CommitAttempt, WriterOK, BatchOK, spoolVars
<1>13. CASE RollBack
  BY <1>0, <1>13 DEF RollBack, EndCycle, WriterOK, BatchOK, spoolVars
<1>14. CASE ReleaseWritten
  BY <1>0, <1>14 DEF ReleaseWritten, EndCycle, CommitBatch, WriterOK, BatchOK
<1>15. CASE UpdatePipelineState
  BY <1>0, <1>15 DEF UpdatePipelineState, EndCycle, WriterOK, BatchOK, spoolVars
<1>16. CASE WriteDeadletter
  <2>1. held \subseteq db'.dead /\ held' = held
    BY <1>16 DEF WriteDeadletter, IngestorIInv, DatabaseFields, spoolVars
  <2> QED BY <1>0, <1>16, <2>1 DEF WriteDeadletter, WriterOK, BatchOK
<1>17. CASE DeadletterFault
  BY <1>0, <1>17 DEF DeadletterFault, WriterOK, BatchOK, spoolVars
<1>18. CASE DiscardBatch
  BY <1>0, <1>18 DEF DiscardBatch, EndCycle, CommitBatch, WriterOK, BatchOK
<1>19. CASE BrokerFlush \/ BrokerFault \/ BrokerRollBack
  BY <1>0, <1>1, <1>19
  DEF BrokerFlush, BrokerFault, BrokerRollBack, LockFree, WriterOK, BatchOK,
      DatabaseAdvances, spoolVars, writerVars, historyVars
<1>20. CASE Stop
  BY <1>3, <1>20 DEF Stop, spoolVars, writerVars, historyVars
<1>21. CASE CloseAll
  BY <1>3, <1>21 DEF CloseAll, Close, LockFree, writerVars, historyVars
<1>22. CASE ExitAndRestart \/ CrashAndRestart
  <2>1. /\ held' = {} /\ pc' = "idle" /\ todo' = {} /\ attempt' = 0
        /\ draining' = FALSE /\ brokerPc' = "ready" /\ phase' = "run"
    BY <1>22 DEF ExitAndRestart, CrashAndRestart, Reborn, Crash
  <2>2. (draining \in BOOLEAN)'
    BY <2>1, Zenon
  <2> QED BY <1>0, <2>1, <2>2 DEF WriterOK, BatchOK
<1>23. CASE UNCHANGED vars
  BY <1>0, <1>3, <1>23
  DEF vars, spoolVars, writerVars, historyVars, WriterOK
<1> QED
  BY <1>4, <1>5, <1>6, <1>7, <1>8, <1>9, <1>10, <1>11, <1>12, <1>13, <1>14,
     <1>15, <1>16, <1>17, <1>18, <1>19, <1>20, <1>21, <1>22, <1>23
  DEF Next, WriterStep

(* The count of a new row, and one more failure for the rows in hand. *)
LEMMA FailuresGrow ==
    ASSUME NEW n \in Nat, failures \in [1 .. n -> Nat]
    PROVE  /\ Append(failures, 0) \in [1 .. n + 1 -> Nat]
           /\ CountFailure => failures' \in [1 .. n -> Nat]
<1>1. failures \in Seq(Nat) /\ Len(failures) = n
  OBVIOUS
<1>2. Append(failures, 0) \in Seq(Nat) /\ Len(Append(failures, 0)) = n + 1
  BY <1>1
<1>3. CountFailure => failures' \in [1 .. n -> Nat]
  BY DEF CountFailure
<1>4. \A f \in Seq(Nat) : f \in [1 .. Len(f) -> Nat]
  OBVIOUS
<1> QED
  BY <1>2, <1>3, <1>4

(* The settings files and the histories; what was recorded stays recorded. *)
LEMMA HistoryKept ==
    ASSUME IngestorIInv, [Next]_vars
    PROVE  HistoryOK' /\ filed \subseteq filed' /\ lost \subseteq lost'
<1> DEFINE n == Len(log)
           Goal == HistoryOK' /\ filed \subseteq filed' /\ lost \subseteq lost'
<1>0. /\ HistoryOK /\ SpoolIInv /\ n \in Nat
      /\ held \subseteq 1 .. n /\ todo \subseteq held
      /\ MaxFaults \in Nat /\ MaxRestarts \in Nat
  BY TypeParts, IngestorAssumption DEF IngestorIInv, SpoolIInv, WriterOK
<1>1. n <= Len(log') /\ Len(log') \in Nat
  BY LogStep
<1>2. /\ failures' \in [1 .. Len(log') -> Nat]
      /\ (\A m \in Message : ~Receive(m)) => log' = log
  <2>1. /\ Append(failures, 0) \in [1 .. n + 1 -> Nat]
        /\ CountFailure => failures' \in [1 .. n -> Nat]
    BY <1>0, FailuresGrow DEF HistoryOK
  <2>2. ASSUME NEW m \in Message, Receive(m)
        PROVE  failures' \in [1 .. Len(log') -> Nat]
    <3>1. CASE log' = log
      BY <1>0, <2>2, <3>1 DEF Receive, HistoryOK
    <3>2. CASE log' # log
      <4>1. log' = Append(log, m) /\ Len(log') = n + 1
        BY <1>0, <2>2, <3>2
        DEF Receive, Enqueue, EnqueueAccept, EnqueueReject, SpoolIInv
      <4> QED BY <2>1, <2>2, <3>2, <4>1 DEF Receive
    <3> QED BY <3>1, <3>2
  <2>3. ASSUME \A m \in Message : ~Receive(m)
        PROVE  failures' = failures \/ CountFailure
    <3>1. CASE WriterStep
      BY <3>1 DEF WriterStep, Fetch, WriteSettings, ReleaseSettings, BeginAttempt,
         DispatchEntry, DispatchRaises, DispatchCollides, DispatchFault,
         CommitAttempt, RollBack, ReleaseWritten, UpdatePipelineState,
         WriteDeadletter, DeadletterFault, DiscardBatch, historyVars
    <3>2. CASE BrokerFlush \/ BrokerFault \/ BrokerRollBack \/ Stop \/ CloseAll
      BY <3>2 DEF BrokerFlush, BrokerFault, BrokerRollBack, Stop, CloseAll,
         historyVars
    <3>3. CASE ExitAndRestart \/ CrashAndRestart
      BY <3>3 DEF ExitAndRestart, CrashAndRestart, Reborn
    <3>4. CASE UNCHANGED vars
      BY <3>4 DEF vars, historyVars
    <3> QED BY <2>3, <3>1, <3>2, <3>3, <3>4 DEF Next
  <2>4. (\A m \in Message : ~Receive(m)) => log' = log
    BY LogStep
  <2> QED BY <1>0, <2>1, <2>2, <2>3, <2>4 DEF HistoryOK
<1>3. faults' \in 0 .. MaxFaults /\ restarts' \in 0 .. MaxRestarts
  <2>1. /\ faults' = faults \/ Fault
        /\ restarts' = restarts \/ (restarts < MaxRestarts /\ restarts' = restarts + 1)
    <3>1. CASE WriterStep
      BY <3>1 DEF WriterStep, Fetch, WriteSettings, ReleaseSettings, BeginAttempt,
         DispatchEntry, DispatchRaises, DispatchCollides, DispatchFault,
         CommitAttempt, RollBack, ReleaseWritten, UpdatePipelineState,
         WriteDeadletter, DeadletterFault, DiscardBatch
    <3>2. CASE BrokerFlush \/ BrokerFault \/ BrokerRollBack \/ Stop \/ CloseAll
      BY <3>2 DEF BrokerFlush, BrokerFault, BrokerRollBack, Stop, CloseAll
    <3>3. CASE ExitAndRestart \/ CrashAndRestart
      BY <3>3 DEF ExitAndRestart, CrashAndRestart, Reborn
    <3>4. CASE UNCHANGED vars
      BY <3>4 DEF vars
    <3>5. ASSUME NEW m \in Message, Receive(m)
          PROVE  UNCHANGED <<faults, restarts>>
      BY <3>5 DEF Receive
    <3> QED BY <3>1, <3>2, <3>3, <3>4, <3>5 DEF Next
  <2> QED BY <1>0, <2>1 DEF HistoryOK, Fault
<1>4. CASE UNCHANGED <<files, filed, lost>>
  <2>1. files \in [Device -> 0 .. Len(log')]
    <3>1. 0 .. n \subseteq 0 .. Len(log')
      BY <1>0, <1>1
    <3> QED BY <1>0, <3>1 DEF HistoryOK
  <2>2. filed \cup lost \subseteq 1 .. Len(log')
    BY <1>0, <1>1 DEF HistoryOK
  <2> QED BY <1>2, <1>3, <1>4, <2>1, <2>2 DEF HistoryOK
<1>5. CASE WriteSettings
  <2>1. First(todo) \in 1 .. n
    BY <1>0, <1>5, FirstIn DEF WriteSettings
  <2>2. log' = log /\ UNCHANGED <<filed, lost>>
    BY <1>5 DEF WriteSettings, spoolVars, historyVars
  <2>3. files' \in [Device -> 0 .. n]
    BY <1>0, <1>5, <2>1 DEF WriteSettings, HistoryOK
  <2> QED BY <1>0, <1>2, <1>3, <2>2, <2>3 DEF HistoryOK
<1>6. CASE ReleaseSettings
  <2>1. /\ log' = log /\ UNCHANGED <<files, lost>>
        /\ filed' = filed \cup SettingsIds(held) /\ SettingsIds(held) \subseteq held
    BY <1>6 DEF ReleaseSettings, CommitBatch, SettingsIds
  <2> QED BY <1>0, <1>2, <1>3, <2>1 DEF HistoryOK
<1>7. CASE DeadletterFault
  <2>1. /\ log' = log /\ UNCHANGED <<files, filed>>
        /\ lost' = lost \/ lost' = lost \cup held
    BY <1>7 DEF DeadletterFault, spoolVars
  <2> QED BY <1>0, <1>2, <1>3, <2>1 DEF HistoryOK
<1>8. CASE \E m \in Message : Receive(m)
  BY <1>4, <1>8 DEF Receive
<1>9. CASE Fetch \/ BeginAttempt \/ DispatchEntry \/ DispatchRaises
  BY <1>4, <1>9 DEF Fetch, BeginAttempt, DispatchEntry, DispatchRaises, historyVars
<1>10. CASE DispatchCollides \/ DispatchFault \/ CommitAttempt \/ RollBack
  BY <1>4, <1>10
  DEF DispatchCollides, DispatchFault, CommitAttempt, RollBack, historyVars
<1>11. CASE ReleaseWritten \/ UpdatePipelineState \/ WriteDeadletter \/ DiscardBatch
  BY <1>4, <1>11
  DEF ReleaseWritten, UpdatePipelineState, WriteDeadletter, DiscardBatch, historyVars
<1>12. CASE BrokerFlush \/ BrokerFault \/ BrokerRollBack \/ Stop \/ CloseAll
  BY <1>4, <1>12
  DEF BrokerFlush, BrokerFault, BrokerRollBack, Stop, CloseAll, historyVars
<1>13. CASE ExitAndRestart \/ CrashAndRestart
  BY <1>4, <1>13 DEF ExitAndRestart, CrashAndRestart, Reborn
<1>14. CASE UNCHANGED vars
  BY <1>4, <1>14 DEF vars, historyVars
<1> QED
  BY <1>5, <1>6, <1>7, <1>8, <1>9, <1>10, <1>11, <1>12, <1>13, <1>14
  DEF Next, WriterStep
-----------------------------------------------------------------------------
(* The properties.                                                         *)

(* A row is released only once its message has an end.                     *)
LEMMA ReleasedStep ==
    ASSUME IngestorIInv, [Next]_vars
    PROVE  NeverSilentlyLost'
<1> DEFINE R == Released(view)
<1>0. SpoolIInv /\ R \subseteq Settled /\ held \in SUBSET held
  BY DEF IngestorIInv, NeverSilentlyLost
<1>1. Settled \subseteq Settled'
  BY DatabaseStep, HistoryKept DEF DatabaseAdvances, Settled
<1>2. CASE R' \subseteq R
  BY <1>0, <1>1, <1>2 DEF NeverSilentlyLost
<1>3. CASE view' = view /\ log' = log
  <2>1. R' = R
    BY <1>3 DEF Released
  <2> QED BY <1>2, <2>1
<1>4. CASE view' = disk /\ log' = log
  <2>1. R' = R
    BY <1>0, <1>4, RollbackReleases
  <2> QED BY <1>2, <2>1
<1>5. ASSUME NEW m \in Message, Receive(m)
      PROVE  NeverSilentlyLost'
  <2>1. R' \subseteq R
    BY <1>0, <1>5, EnqueueReleases DEF Receive
  <2> QED BY <1>2, <2>1
<1>6. CASE ReleaseSettings
  <2>1. SettingsIds(held) \in SUBSET held /\ CommitBatch(SettingsIds(held))
    BY <1>6 DEF ReleaseSettings, SettingsIds
  <2>2. R' \subseteq R \cup SettingsIds(held)
    BY <1>0, <2>1, CommitReleases
  <2>3. SettingsIds(held) \subseteq Settled'
    BY <1>6 DEF ReleaseSettings, Settled
  <2> QED BY <1>0, <1>1, <2>2, <2>3 DEF NeverSilentlyLost
<1>7. CASE ReleaseWritten \/ DiscardBatch
  <2>1. CommitBatch(held)
    BY <1>7 DEF ReleaseWritten, DiscardBatch
  <2>2. R' \subseteq R \cup held
    BY <1>0, <2>1, CommitReleases
  <2>3. held \subseteq Settled
    BY <1>7 DEF ReleaseWritten, DiscardBatch, IngestorIInv, BatchOK, Settled
  <2> QED BY <1>0, <1>1, <2>2, <2>3 DEF NeverSilentlyLost
<1>8. CASE CloseAll \/ ExitAndRestart \/ CrashAndRestart
  BY <1>4, <1>8 DEF CloseAll, ExitAndRestart, CrashAndRestart, Reborn, Close, Crash
<1>9. CASE Fetch \/ WriteSettings \/ BeginAttempt \/ DispatchEntry \/ DispatchRaises
  BY <1>3, <1>9 DEF Fetch, DequeueBatch, WriteSettings, BeginAttempt,
     DispatchEntry, DispatchRaises, spoolVars
<1>10. CASE DispatchCollides \/ DispatchFault \/ CommitAttempt \/ RollBack
  BY <1>3, <1>10 DEF DispatchCollides, DispatchFault, CommitAttempt, RollBack,
     spoolVars
<1>11. CASE UpdatePipelineState \/ WriteDeadletter \/ DeadletterFault
  BY <1>3, <1>11 DEF UpdatePipelineState, WriteDeadletter, DeadletterFault,
     spoolVars
<1>12. CASE BrokerFlush \/ BrokerFault \/ BrokerRollBack \/ Stop
  BY <1>3, <1>12 DEF BrokerFlush, BrokerFault, BrokerRollBack, Stop, spoolVars
<1>13. CASE UNCHANGED vars
  BY <1>3, <1>13 DEF vars, spoolVars
<1> QED
  BY <1>5, <1>6, <1>7, <1>8, <1>9, <1>10, <1>11, <1>12, <1>13
  DEF Next, WriterStep

(* Nothing is queued, stored or lost when the process first starts.        *)
LEMMA InitIngestorIInv == Init => IngestorIInv
<1> SUFFICES ASSUME Init
             PROVE  IngestorIInv
  OBVIOUS
<1>1. SpoolIInv /\ log = << >> /\ held = {} /\ Len(log) = 0
  BY SpoolInitIInv DEF Init, SpoolInit
<1>2. /\ db = EmptyDb /\ txn = EmptyDb
      /\ DOMAIN EmptyDb = DatabaseFields
      /\ EmptyDb.done = {} /\ EmptyDb.dead = {}
  BY DEF Init, EmptyDb, DatabaseFields
<1>3. DatabaseOK(EmptyDb)
  <2>1. IsABag(EmptyBag) /\ BagToSet(EmptyBag) = {}
    BY DEF EmptyBag, SetToBag, IsABag, BagToSet
  <2>2. /\ EmptyDb.devices = [d \in Device |-> Absent]
        /\ EmptyDb.status = [d \in Device |-> 0]
        /\ EmptyDb.itemlog = EmptyBag /\ EmptyDb.stats = 0
    BY DEF EmptyDb
  <2>3. EmptyDb.done \cup EmptyDb.dead \cup BagToSet(EmptyDb.itemlog) = {}
    BY <1>2, <2>1, <2>2
  <2>4. IsABag(EmptyDb.itemlog)
    BY <2>1, <2>2
  <2> QED BY <1>1, <2>2, <2>3, <2>4 DEF DatabaseOK
<1>4. WriterOK /\ BatchOK
  <2>1. draining \in BOOLEAN
    BY Zenon DEF Init
  <2> QED BY <1>1, <2>1, IngestorAssumption DEF Init, WriterOK, BatchOK
<1>5. HistoryOK
  <2>1. failures \in [1 .. 0 -> Nat]
    BY DEF Init
  <2> QED BY <1>1, <2>1, IngestorAssumption DEF Init, HistoryOK
<1>6. NeverSilentlyLost
  BY <1>1 DEF NeverSilentlyLost, Released
<1> QED
  BY <1>1, <1>2, <1>3, <1>4, <1>5, <1>6, TypeParts DEF IngestorIInv

(* Every step preserves the invariant. *)
LEMMA NextIngestorIInv == IngestorIInv /\ [Next]_vars => IngestorIInv'
<1> SUFFICES ASSUME IngestorIInv, [Next]_vars
             PROVE  IngestorIInv'
  OBVIOUS
<1>1. SpoolIInv'
  BY NextIsSpoolStep, SpoolNextIInv DEF IngestorIInv
<1>2. DatabaseFine(db)' /\ DatabaseFine(txn)'
  <2>1. /\ DatabaseUpTo(db', Len(log)) /\ DatabaseUpTo(txn', Len(log))
        /\ Len(log) \in Nat /\ Len(log') \in Nat /\ Len(log) <= Len(log')
    BY DatabaseStep, LogStep DEF DatabaseAdvances
  <2>2. DatabaseUpTo(db', Len(log')) /\ DatabaseUpTo(txn', Len(log'))
    BY <2>1, DatabaseGrows
  <2> QED BY <2>2 DEF DatabaseUpTo, DatabaseFine, DatabaseOK
<1>3. WriterOK' /\ BatchOK'
  BY WriterKept
<1>4. HistoryOK'
  BY HistoryKept
<1>5. db'.done \subseteq txn'.done /\ db'.dead \subseteq txn'.dead
  BY DatabaseStep DEF DatabaseAdvances
<1>6. NeverSilentlyLost'
  BY ReleasedStep
<1>7. IngestorTypeOK'
  BY <1>2, <1>3, <1>4 DEF IngestorTypeOK, WriterOK, HistoryOK, DatabaseFine
<1> QED
  BY <1>1, <1>2, <1>3, <1>5, <1>6, <1>7 DEF IngestorIInv, DatabaseFine

(* The inductive invariant holds in every reachable state. *)
THEOREM IngestorInvariant == Spec => []IngestorIInv
BY InitIngestorIInv, NextIngestorIInv, PTL DEF Spec

(* The types of the pipeline's state; the attempt counter stays within the *)
(* configured retries (write_batch of db.py, _retry loop of pipeline.py).  *)
THEOREM IngestorTypeCorrect == Spec => []IngestorTypeOK
<1>1. IngestorIInv => IngestorTypeOK
  BY DEF IngestorIInv
<1> QED
  BY <1>1, IngestorInvariant, PTL

(* Whatever fails, and however often the process dies, a row leaves the    *)
(* spool only once its message is stored, dead-lettered, filed, or given   *)
(* up by the last dead-letter try (pipeline.py, the commit_batch calls).   *)
THEOREM NothingSilentlyLost == Spec => []NeverSilentlyLost
<1>1. IngestorIInv => NeverSilentlyLost
  BY DEF IngestorIInv
<1> QED
  BY <1>1, IngestorInvariant, PTL
-----------------------------------------------------------------------------
(* The promise of Delivery.                                                *)

(* What is settled stays settled, and is among the messages accepted.      *)
LEMMA SettledGrows ==
    ASSUME IngestorIInv, [Next]_vars
    PROVE  /\ Settled \subseteq Settled' /\ Settled \subseteq 1 .. Len(log)
           /\ Settled' \subseteq 1 .. Len(log')
<1>1. Settled \subseteq Settled'
  BY DatabaseStep, HistoryKept DEF DatabaseAdvances, Settled
<1>2. Settled \subseteq 1 .. Len(log)
  BY DEF IngestorIInv, IngestorTypeOK, DatabaseOK, Settled
<1>3. Settled' \subseteq 1 .. Len(log')
  BY NextIngestorIInv DEF IngestorIInv, IngestorTypeOK, DatabaseOK, Settled
<1> QED BY <1>1, <1>2, <1>3

(* A step that leaves the rows alone, or releases R, settled by now. *)
LEMMA ProcessStep ==
    ASSUME IngestorIInv, [Next]_vars, log' = log,
           view'.dropped = view.dropped,
           NEW R \in SUBSET Settled', view'.live = view.live \ R
    PROVE  Promise!DeliveryNext
<1> DEFINE S == Settled' \ Settled
           Q == R \cap view.live
<1>1. /\ Settled \subseteq Settled' /\ Settled' \subseteq 1 .. Len(log)
  BY SettledGrows
<1>2. 1 .. Len(log) \subseteq view.live \cup view.dropped \cup Settled
  BY DEF IngestorIInv, NeverSilentlyLost, Released
<1>3. S \in SUBSET (view.live \cup view.dropped) /\ Q \in SUBSET view.live
  BY <1>1, <1>2
<1>4. /\ Settled' = Settled \cup S /\ view'.live = view.live \ Q
      /\ Q \subseteq view.live \cap Settled'
  BY <1>1
<1>5. Promise!Process(S, Q)
  <2> HIDE DEF S, Q
  <2> QED BY <1>3, <1>4 DEF Promise!Process
<1> QED BY <1>3, <1>5 DEF Promise!DeliveryNext

(* A step after which the rows are those of the committed file. *)
LEMMA RecoverStep ==
    ASSUME IngestorIInv, log' = log, view' = disk, Settled' = Settled
    PROVE  Promise!DeliveryNext
<1> DEFINE S == view.dropped \ disk.dropped
<1>1. /\ view.live \subseteq disk.live /\ disk.dropped \subseteq view.dropped
      /\ view.live \cup view.dropped = disk.live \cup disk.dropped
      /\ view.live \cap view.dropped = {} /\ disk.live \cap disk.dropped = {}
  BY DEF IngestorIInv, SpoolIInv, TableOK
<1>2. S \in SUBSET view.dropped /\ disk.dropped = view.dropped \ S
      /\ disk.live = view.live \cup S
  BY <1>1
<1>3. Promise!Recover(S)
  <2> HIDE DEF S
  <2> QED BY <1>2 DEF Promise!Recover
<1> QED BY <1>2, <1>3 DEF Promise!DeliveryNext

(* The MQTT thread takes an event, and drops the oldest rows by policy. *)
LEMMA ReceiveStep ==
    ASSUME IngestorIInv, NEW m \in Message, Receive(m)
    PROVE  Promise!DeliveryNext
<1> DEFINE D == view'.dropped \ view.dropped
<1>1. /\ D \subseteq view.live
      /\ view'.dropped = view.dropped \cup D
      /\ D # {} => DropOldest /\ ~Fits(view, m) /\ D = DropSet(m)
      /\ \/ log' = log /\ view'.live = view.live \ D
         \/ /\ log' = Append(log, m)
            /\ view'.live = (view.live \ D) \cup {Len(log) + 1}
  BY EnqueueRows DEF Receive, IngestorIInv
<1>2. Settled' = Settled
  BY DEF Receive, dbVars, Settled
<1>3. \A i \in D, j \in view.live \ D : i < j
  <2>1. D # {} => \A i \in DropSet(m), j \in view.live \ DropSet(m) : i < j
    BY DropSetOldest DEF IngestorIInv
  <2> HIDE DEF D
  <2> QED BY <1>1, <2>1
<1>4. Promise!MayShed(D)
  <2> HIDE DEF D
  <2> QED BY <1>1, <1>3 DEF Promise!MayShed
<1>5. log \in Seq(Message)
  BY DEF IngestorIInv, SpoolIInv
<1>6. CASE log' = log
  <2> HIDE DEF D
  <2>1. Promise!Shed(D)
    BY <1>1, <1>2, <1>4, <1>5, <1>6 DEF Promise!Shed
  <2> QED BY <1>1, <2>1 DEF Promise!DeliveryNext
<1>7. CASE log' # log
  <2> HIDE DEF D
  <2>1. Len(log') = Len(log) + 1
    BY <1>1, <1>5, <1>7
  <2>2. Promise!AcceptOne(D)
    BY <1>1, <1>2, <1>4, <1>7, <2>1 DEF Promise!AcceptOne
  <2> QED BY <1>1, <2>2 DEF Promise!DeliveryNext
<1> QED BY <1>6, <1>7

(* Every step of the pipeline is a step of the promise or invisible to it. *)
LEMMA NextIsDeliveryStep ==
    ASSUME IngestorIInv, [Next]_vars
    PROVE  [Promise!DeliveryNext]_(Promise!deliveryVars)
<1>0. held \subseteq 1 .. Len(log) /\ view \in Tables
  BY DEF IngestorIInv, SpoolIInv, TableOK
<1>1. CASE view' = view /\ log' = log
  <2>1. {} \in SUBSET Settled' /\ view'.live = view.live \ {}
    BY <1>1
  <2> QED BY <1>1, <2>1, ProcessStep
<1>2. ASSUME NEW ids \in SUBSET held, CommitBatch(ids), ids \subseteq Settled'
      PROVE  Promise!DeliveryNext
  <2>1. view'.live = view.live \ ids /\ view'.dropped = view.dropped /\ log' = log
    BY <1>0, <1>2 DEF CommitBatch, Release, Tables
  <2> QED BY <1>2, <2>1, ProcessStep
<1>3. ASSUME NEW m \in Message, Receive(m)
      PROVE  Promise!DeliveryNext
  BY <1>3, ReceiveStep
<1>4. CASE ReleaseSettings
  <2>1. SettingsIds(held) \in SUBSET held /\ SettingsIds(held) \subseteq Settled'
    BY <1>4 DEF ReleaseSettings, SettingsIds, Settled
  <2> QED BY <1>2, <1>4, <2>1 DEF ReleaseSettings
<1>5. CASE ReleaseWritten \/ DiscardBatch
  <2>1. held \subseteq Settled /\ Settled \subseteq Settled'
    BY <1>5, SettledGrows
    DEF ReleaseWritten, DiscardBatch, IngestorIInv, BatchOK, Settled
  <2>2. held \in SUBSET held /\ held \subseteq Settled' /\ CommitBatch(held)
    BY <1>5, <2>1 DEF ReleaseWritten, DiscardBatch
  <2> QED BY <1>2, <2>2
<1>6. CASE CloseAll \/ ExitAndRestart \/ CrashAndRestart
  <2>1. view' = disk /\ log' = log
    BY <1>6 DEF CloseAll, ExitAndRestart, CrashAndRestart, Reborn, Close, Crash
  <2>2. Settled' = Settled
    BY <1>6 DEF CloseAll, ExitAndRestart, CrashAndRestart, Reborn, historyVars, Settled
  <2> QED BY <2>1, <2>2, RecoverStep
<1>7. CASE Fetch \/ WriteSettings \/ BeginAttempt \/ DispatchEntry \/ DispatchRaises
  BY <1>1, <1>7 DEF Fetch, DequeueBatch, WriteSettings, BeginAttempt,
     DispatchEntry, DispatchRaises, spoolVars
<1>8. CASE DispatchCollides \/ DispatchFault \/ CommitAttempt \/ RollBack
  BY <1>1, <1>8 DEF DispatchCollides, DispatchFault, CommitAttempt, RollBack,
     spoolVars
<1>9. CASE UpdatePipelineState \/ WriteDeadletter \/ DeadletterFault
  BY <1>1, <1>9 DEF UpdatePipelineState, WriteDeadletter, DeadletterFault,
     spoolVars
<1>10. CASE BrokerFlush \/ BrokerFault \/ BrokerRollBack \/ Stop
  BY <1>1, <1>10 DEF BrokerFlush, BrokerFault, BrokerRollBack, Stop, spoolVars
<1>11. CASE UNCHANGED vars
  BY <1>1, <1>11 DEF vars, spoolVars
<1> QED
  BY <1>3, <1>4, <1>5, <1>6, <1>7, <1>8, <1>9, <1>10, <1>11
  DEF Next, WriterStep

(* The pipeline implements the promise: for every configuration, and       *)
(* whatever fails, a message accepted is queued, shed by policy or settled *)
(* (pipeline.py, spool.py and db.py together).                             *)
THEOREM IngestorDelivers == Spec => DeliveryKept
<1>1. Init => Promise!DeliveryInit
  BY DEF Init, SpoolInit, EmptyTables, EmptyDb, Settled, Promise!DeliveryInit
<1>2. IngestorIInv /\ [Next]_vars => [Promise!DeliveryNext]_(Promise!deliveryVars)
  BY NextIsDeliveryStep
<1> QED
  BY <1>1, <1>2, IngestorInvariant, PTL DEF Spec, DeliveryKept, Promise!DeliverySpec
(* No accepted message is ever in none of the three places. *)
THEOREM IngestorLosesNothing == Spec => []Promise!NothingLost
<1>1. IngestorIInv => Promise!NothingLost
  <2> SUFFICES ASSUME IngestorIInv
               PROVE  Promise!NothingLost
    OBVIOUS
  <2>1. view.live \cap view.dropped = {} /\ view.live \cup view.dropped \subseteq 1 .. Len(log)
    BY DEF IngestorIInv, SpoolIInv, TableOK
  <2>2. Settled \subseteq 1 .. Len(log)
    BY DEF IngestorIInv, IngestorTypeOK, DatabaseOK, Settled
  <2>3. 1 .. Len(log) \subseteq view.live \cup view.dropped \cup Settled
    BY DEF IngestorIInv, NeverSilentlyLost, Released
  <2> QED BY <2>1, <2>2, <2>3 DEF Promise!NothingLost
<1> QED
  BY <1>1, IngestorInvariant, PTL
-----------------------------------------------------------------------------
(* Duplicates.                                                             *)

(* How often row i is in the append-only table of t. *)
Copies(t, i) == IF i \in BagToSet(t.itemlog) THEN t.itemlog[i] ELSE 0

(* Row i may be stored once more before a failure is counted for it: the   *)
(* writer holds it and has not handled it in this attempt, or may come to  *)
(* hold it.                                                                *)
Fresh(i) ==
    IF i \in held THEN pc # "stored" /\ (pc = "dispatch" => i \in todo)
    ELSE i \in disk.live

(* A row is stored once for each failure, and once more when it is not     *)
(* fresh.                                                                  *)
CopiesOK ==
    \A i \in 1 .. Len(log), t \in {db, txn} :
        /\ Copies(t, i) <= failures[i] + 1
        /\ Fresh(i) => Copies(t, i) <= failures[i]

LEMMA CopiesNat ==
    ASSUME NEW n \in Nat, NEW t, DatabaseUpTo(t, n), NEW i
    PROVE  /\ Copies(t, i) \in Nat
           /\ i \notin 1 .. n => Copies(t, i) = 0
<1>1. IsABag(t.itemlog) /\ BagToSet(t.itemlog) \subseteq 1 .. n
  BY DEF DatabaseUpTo
<1>2. \A e \in BagToSet(t.itemlog) : t.itemlog[e] \in Nat
  BY <1>1 DEF IsABag, BagToSet
<1> QED BY <1>1, <1>2 DEF Copies

(* A handler adds at most one copy, of its own row. *)
LEMMA HandleCopies ==
    ASSUME NEW n \in Nat, NEW t, DatabaseUpTo(t, n), NEW i, NEW j
    PROVE  Copies(Handle(t, i), j) <= Copies(t, j) + (IF j = i THEN 1 ELSE 0)
<1>0. IsABag(t.itemlog) /\ Copies(t, j) \in Nat
  BY CopiesNat DEF DatabaseUpTo
<1>1. CASE KindOf(i) = "itemlog"
  <2> DEFINE B == t.itemlog
             C == B (+) SetToBag({i})
  <2>1. Handle(t, i).itemlog = C
    <3>1. Handle(t, i) = [t EXCEPT !.itemlog = @ (+) SetToBag({i}), !.done = @ \cup {i}]
      BY <1>1 DEF Handle
    <3> QED BY <3>1 DEF DatabaseUpTo, DatabaseFields
  <2>2. /\ DOMAIN C = (DOMAIN B) \cup {i}
        /\ \A e \in DOMAIN C : C[e] = (IF e \in DOMAIN B THEN B[e] ELSE 0)
                                       + (IF e \in {i} THEN 1 ELSE 0)
    BY DEF (+), SetToBag
  <2>3. Copies(Handle(t, i), j) = IF j \in DOMAIN C THEN C[j] ELSE 0
    BY <2>1 DEF Copies, BagToSet
  <2>4. Copies(t, j) = IF j \in DOMAIN B THEN B[j] ELSE 0
    BY DEF Copies, BagToSet
  <2> HIDE DEF B, C
  <2>5. CASE j \in DOMAIN C
    <3>1. Copies(Handle(t, i), j) = Copies(t, j) + (IF j = i THEN 1 ELSE 0)
      BY <2>2, <2>3, <2>4, <2>5
    <3> QED BY <1>0, <3>1
  <2>6. CASE j \notin DOMAIN C
    BY <1>0, <2>2, <2>3, <2>6
  <2> QED BY <2>5, <2>6
<1>2. CASE KindOf(i) # "itemlog"
  <2>1. Handle(t, i).itemlog = t.itemlog
    BY <1>2 DEF Handle, DatabaseUpTo, DatabaseFields
  <2>2. Copies(Handle(t, i), j) = Copies(t, j)
    BY <2>1 DEF Copies
  <2> QED BY <1>0, <2>2
<1> QED BY <1>1, <1>2

LEMMA CopiesFacts ==
    ASSUME IngestorIInv
    PROVE  /\ Len(log) \in Nat /\ log \in Seq(Message)
           /\ DatabaseUpTo(db, Len(log)) /\ DatabaseUpTo(txn, Len(log))
           /\ \A i \in 1 .. Len(log) : failures[i] \in Nat
           /\ held \subseteq 1 .. Len(log) /\ todo \subseteq held
           /\ view.live \subseteq disk.live /\ disk.live \subseteq 1 .. Len(log)
<1>1. Len(log) \in Nat /\ log \in Seq(Message)
  BY DEF IngestorIInv, SpoolIInv
<1>2. DatabaseUpTo(db, Len(log)) /\ DatabaseUpTo(txn, Len(log))
  BY DEF IngestorIInv, IngestorTypeOK, DatabaseOK, DatabaseUpTo
<1>3. failures \in [1 .. Len(log) -> Nat] /\ todo \subseteq held
  BY DEF IngestorIInv, IngestorTypeOK
<1>4. /\ held \subseteq 1 .. Len(log)
      /\ view.live \subseteq disk.live /\ disk.live \subseteq 1 .. Len(log)
  BY DEF IngestorIInv, SpoolIInv, TableOK
<1> QED BY <1>1, <1>2, <1>3, <1>4

(* A step that stores nothing new.  A row becomes fresh only when one more *)
(* failure is counted for it.                                              *)
LEMMA CopiesQuiet ==
    ASSUME IngestorIInv, CopiesOK, log' = log,
           \A t \in {db', txn'} : \E u \in {db, txn} : t.itemlog = u.itemlog,
           \A i \in 1 .. Len(log) :
              /\ failures'[i] \in Nat /\ failures[i] <= failures'[i]
              /\ Fresh(i)' => Fresh(i) \/ failures'[i] = failures[i] + 1
    PROVE  CopiesOK'
<1>0. /\ Len(log) \in Nat /\ DatabaseUpTo(db, Len(log)) /\ DatabaseUpTo(txn, Len(log))
      /\ \A i \in 1 .. Len(log) : failures[i] \in Nat
  BY CopiesFacts
<1> SUFFICES ASSUME NEW i \in 1 .. Len(log), NEW t \in {db', txn'}
             PROVE  /\ Copies(t, i) <= failures'[i] + 1
                    /\ Fresh(i)' => Copies(t, i) <= failures'[i]
  BY DEF CopiesOK, Copies
<1>1. PICK u \in {db, txn} : t.itemlog = u.itemlog
  OBVIOUS
<1>2. Copies(t, i) = Copies(u, i)
  BY <1>1 DEF Copies
<1>3. Copies(u, i) \in Nat
  BY <1>0, CopiesNat
<1>4. /\ Copies(u, i) <= failures[i] + 1
      /\ Fresh(i) => Copies(u, i) <= failures[i]
  BY DEF CopiesOK
<1>5. /\ failures'[i] \in Nat /\ failures[i] \in Nat /\ failures[i] <= failures'[i]
      /\ Fresh(i)' => Fresh(i) \/ failures'[i] = failures[i] + 1
  BY <1>0
<1> QED BY <1>2, <1>3, <1>4, <1>5
(* An entry is handled: its row has one copy more, and is not fresh.       *)
LEMMA CopiesDispatch ==
    ASSUME IngestorIInv, CopiesOK, DispatchEntry
    PROVE  CopiesOK'
<1> DEFINE i == First(todo)
<1>0. /\ Len(log) \in Nat /\ log \in Seq(Message)
      /\ DatabaseUpTo(db, Len(log)) /\ DatabaseUpTo(txn, Len(log))
      /\ \A j \in 1 .. Len(log) : failures[j] \in Nat
      /\ held \subseteq 1 .. Len(log) /\ todo \subseteq held
  BY CopiesFacts
<1>1. i \in todo /\ i \in 1 .. Len(log) /\ log[i] \in Message
  <2>1. i \in todo
    BY <1>0, FirstIn DEF DispatchEntry
  <2> HIDE DEF i
  <2> QED BY <1>0, <2>1
<1>2. /\ pc = "dispatch" /\ todo' = todo \ {i}
      /\ log' = log /\ held' = held /\ disk' = disk /\ pc' = pc /\ failures' = failures
      /\ \/ db' = Resolved(log[i]) /\ txn' = Handle(Resolved(log[i]), i)
         \/ db' = db /\ txn' = Handle(txn, i)
  BY DEF DispatchEntry, spoolVars, historyVars
<1> HIDE DEF i
<1>3. /\ DatabaseUpTo(Resolved(log[i]), Len(log))
      /\ Resolved(log[i]).itemlog = txn.itemlog
  BY <1>0, <1>1, ResolvedOK DEF Resolved, DatabaseUpTo, DatabaseFields
<1>4. ASSUME NEW j \in 1 .. Len(log)
      PROVE  /\ Copies(txn', j) <= Copies(txn, j) + (IF j = i THEN 1 ELSE 0)
             /\ Copies(db', j) = Copies(db, j) \/ Copies(db', j) = Copies(txn, j)
             /\ Copies(db, j) \in Nat /\ Copies(txn, j) \in Nat /\ Copies(txn', j) \in Nat
  <2>1. Copies(Resolved(log[i]), j) = Copies(txn, j)
    BY <1>3 DEF Copies
  <2>2. /\ Copies(Handle(txn, i), j) <= Copies(txn, j) + (IF j = i THEN 1 ELSE 0)
        /\ Copies(Handle(Resolved(log[i]), i), j)
              <= Copies(Resolved(log[i]), j) + (IF j = i THEN 1 ELSE 0)
    BY <1>0, <1>3, HandleCopies
  <2>3. /\ DatabaseUpTo(Handle(txn, i), Len(log))
        /\ DatabaseUpTo(Handle(Resolved(log[i]), i), Len(log))
    BY <1>0, <1>1, <1>3, HandleOK
  <2>4. Copies(db, j) \in Nat /\ Copies(txn, j) \in Nat /\ Copies(txn', j) \in Nat
    BY <1>0, <1>2, <2>3, CopiesNat
  <2> QED BY <1>2, <2>1, <2>2, <2>4
<1>5. ASSUME NEW j \in 1 .. Len(log)
      PROVE  /\ Fresh(j)' => Fresh(j) /\ j # i
             /\ j = i => Fresh(j)
  BY <1>0, <1>1, <1>2 DEF Fresh
<1>6. ASSUME NEW j \in 1 .. Len(log)
      PROVE  \A t \in {db', txn'} : /\ Copies(t, j) <= failures[j] + 1
                                    /\ Fresh(j)' => Copies(t, j) <= failures[j]
  <2>1. /\ Copies(db, j) <= failures[j] + 1 /\ Copies(txn, j) <= failures[j] + 1
        /\ Fresh(j) => Copies(db, j) <= failures[j] /\ Copies(txn, j) <= failures[j]
    BY DEF CopiesOK
  <2> DEFINE f == failures[j]
             c == Copies(txn, j)
             d == Copies(db, j)
             e == Copies(txn', j)
  <2>2. /\ f \in Nat /\ c \in Nat /\ d \in Nat /\ e \in Nat
        /\ e <= c + (IF j = i THEN 1 ELSE 0)
    BY <1>0, <1>4
  <2>3. Copies(db', j) = d \/ Copies(db', j) = c
    BY <1>4
  <2>4. (Fresh(j)' => Fresh(j) /\ j # i) /\ (j = i => Fresh(j))
    BY <1>5
  <2> HIDE DEF f, c, d, e
  <2>5. e <= f + 1 /\ (Fresh(j)' => e <= f)
    <3>1. CASE j = i
      BY <2>1, <2>2, <2>4, <3>1 DEF f, c, d
    <3>2. CASE j # i
      <4>1. e <= c
        BY <2>2, <3>2
      <4>2. c <= f + 1 /\ (Fresh(j) => c <= f)
        BY <2>1 DEF f, c
      <4> QED BY <2>2, <2>4, <4>1, <4>2
    <3> QED BY <3>1, <3>2
  <2>6. Copies(db', j) <= f + 1 /\ (Fresh(j)' => Copies(db', j) <= f)
    BY <2>1, <2>2, <2>3, <2>4 DEF f, c, d
  <2> QED BY <2>5, <2>6 DEF e, f
<1> QED
  BY <1>2, <1>6 DEF CopiesOK, Copies

(* A new row has no copies; the others are as before.                      *)
LEMMA CopiesReceive ==
    ASSUME IngestorIInv, CopiesOK, NEW m \in Message, Receive(m)
    PROVE  CopiesOK'
<1>0. /\ Len(log) \in Nat /\ log \in Seq(Message)
      /\ DatabaseUpTo(db, Len(log)) /\ DatabaseUpTo(txn, Len(log))
      /\ failures \in [1 .. Len(log) -> Nat]
      /\ held \subseteq 1 .. Len(log) /\ view.live \subseteq disk.live
  BY CopiesFacts DEF IngestorIInv, IngestorTypeOK
<1>1. db' = db /\ txn' = txn /\ held' = held /\ pc' = pc /\ todo' = todo
  BY EnqueueReleases DEF Receive, dbVars, writerVars, IngestorIInv
<1>2. CASE log' = log
  <2>1. failures' = failures /\ disk' = disk
    BY <1>0, <1>2 DEF Receive, Enqueue, EnqueueAccept, EnqueueReject
  <2> QED BY <1>1, <1>2, <2>1 DEF CopiesOK, Copies, Fresh
<1>3. CASE log' # log
  <2>1. /\ log' = Append(log, m) /\ failures' = Append(failures, 0)
        /\ disk' = view' /\ view'.live \subseteq view.live \cup {Len(log) + 1}
    BY <1>3, EnqueueRows
    DEF Receive, Enqueue, EnqueueAccept, EnqueueReject, IngestorIInv
  <2>2. /\ Len(log') = Len(log) + 1
        /\ \A i \in 1 .. Len(log) : failures'[i] = failures[i]
        /\ failures'[Len(log) + 1] = 0
    <3>1. failures \in Seq(Nat) /\ Len(failures) = Len(log)
      BY <1>0
    <3> QED BY <1>0, <2>1, <3>1
  <2>3. ASSUME NEW i \in 1 .. Len(log), NEW t \in {db, txn}
        PROVE  /\ Copies(t, i) <= failures'[i] + 1
               /\ Fresh(i)' => Copies(t, i) <= failures'[i]
    <3>1. Fresh(i)' => Fresh(i)
      BY <1>0, <1>1, <2>1 DEF Fresh
    <3> QED BY <2>2, <3>1 DEF CopiesOK
  <2>4. ASSUME NEW t \in {db, txn}
        PROVE  Copies(t, Len(log) + 1) = 0
    BY <1>0, CopiesNat
  <2>5. \A i \in 1 .. Len(log') : i \in 1 .. Len(log) \/ i = Len(log) + 1
    BY <1>0, <2>2
  <2>6. ASSUME NEW i \in 1 .. Len(log'), NEW t \in {db, txn}
        PROVE  /\ Copies(t, i) <= failures'[i] + 1
               /\ Fresh(i)' => Copies(t, i) <= failures'[i]
    <3>1. CASE i \in 1 .. Len(log)
      BY <2>3, <3>1
    <3>2. CASE i = Len(log) + 1
      BY <2>2, <2>4, <3>2
    <3> QED BY <2>5, <3>1, <3>2
  <2> QED BY <1>1, <2>6 DEF CopiesOK, Copies
<1> QED BY <1>2, <1>3

LEMMA CopiesNext ==
    ASSUME IngestorIInv, CopiesOK, [Next]_vars
    PROVE  CopiesOK'
<1> DEFINE Quiet == /\ log' = log
                    /\ \A t \in {db', txn'} : \E u \in {db, txn} : t.itemlog = u.itemlog
<1>0. /\ Len(log) \in Nat /\ log \in Seq(Message)
      /\ DatabaseUpTo(db, Len(log)) /\ DatabaseUpTo(txn, Len(log))
      /\ \A i \in 1 .. Len(log) : failures[i] \in Nat
      /\ failures \in [1 .. Len(log) -> Nat]
      /\ held \subseteq 1 .. Len(log) /\ todo \subseteq held
      /\ view.live \subseteq disk.live
  BY CopiesFacts DEF IngestorIInv, IngestorTypeOK
(* Steps that count no failure and make no row fresh. *)
<1>1. ASSUME Quiet, failures' = failures,
             \A i \in 1 .. Len(log) : Fresh(i)' => Fresh(i)
      PROVE  CopiesOK'
  BY <1>0, <1>1, CopiesQuiet
(* Steps that count a failure of the batch in hand. *)
<1>2. ASSUME Quiet, CountFailure,
             \A i \in 1 .. Len(log) : Fresh(i)' => Fresh(i) \/ i \in held
      PROVE  CopiesOK'
  <2>1. \A i \in 1 .. Len(log) :
           failures'[i] = IF i \in held THEN failures[i] + 1 ELSE failures[i]
    BY <1>0, <1>2 DEF CountFailure
  <2> QED BY <1>0, <1>2, <2>1, CopiesQuiet
<1>3. Quiet \/ DispatchEntry \/ \E m \in Message : Receive(m)
  <2>1. ASSUME NEW i \in 1 .. Len(log)
        PROVE  Resolved(log[i]).itemlog = txn.itemlog
    BY <1>0 DEF Resolved, DatabaseUpTo, DatabaseFields
  <2>2. \A S : [txn EXCEPT !.dead = @ \cup S].itemlog = txn.itemlog
    BY <1>0 DEF DatabaseUpTo, DatabaseFields
  <2>3. todo # {} => First(todo) \in 1 .. Len(log)
    BY <1>0, FirstIn
  <2>4. (\A m \in Message : ~Receive(m)) => log' = log
    BY LogStep
  <2>5. CASE DispatchRaises \/ DispatchFault
    BY <2>1, <2>3, <2>4, <2>5 DEF DispatchRaises, DispatchFault, dbVars, spoolVars
  <2>6. CASE Fetch \/ WriteSettings \/ ReleaseSettings \/ BeginAttempt \/ DispatchCollides
    BY <2>6 DEF Fetch, DequeueBatch, WriteSettings, ReleaseSettings, CommitBatch,
       BeginAttempt, DispatchCollides, dbVars, spoolVars
  <2>7. CASE CommitAttempt \/ RollBack \/ ReleaseWritten \/ UpdatePipelineState \/ DiscardBatch
    BY <2>7 DEF CommitAttempt, RollBack, ReleaseWritten, UpdatePipelineState,
       DiscardBatch, CommitBatch, dbVars, spoolVars
  <2>8. CASE WriteDeadletter \/ DeadletterFault
    BY <2>2, <2>8 DEF WriteDeadletter, DeadletterFault, dbVars, spoolVars
  <2>9. CASE BrokerFlush \/ BrokerFault \/ BrokerRollBack \/ Stop
    <3>1. Snapshot(txn).itemlog = txn.itemlog
      BY <1>0, SnapshotOK
    <3> QED
      BY <2>9, <3>1
      DEF BrokerFlush, BrokerFault, BrokerRollBack, Stop, dbVars, spoolVars
  <2>10. CASE CloseAll \/ ExitAndRestart \/ CrashAndRestart
    BY <2>10 DEF CloseAll, ExitAndRestart, CrashAndRestart, Reborn, Close, Crash, dbVars
  <2>11. CASE UNCHANGED vars
    BY <2>11 DEF vars, dbVars, spoolVars
  <2> QED
    BY <2>5, <2>6, <2>7, <2>8, <2>9, <2>10, <2>11 DEF Next, WriterStep
<1> HIDE DEF Quiet
<1>4. CASE Quiet /\ WriterStep /\ ~DispatchEntry
  <2>1. CASE Fetch
    <3>1. held' \subseteq disk.live /\ disk' = disk /\ pc = "idle" /\ failures' = failures
      BY <1>0, <2>1 DEF Fetch, DequeueBatch, Oldest, historyVars
    <3>2. \A i \in 1 .. Len(log) : Fresh(i)' => Fresh(i)
      BY <3>1 DEF Fresh
    <3> QED BY <1>1, <1>4, <3>1, <3>2
  <2>2. CASE ReleaseSettings
    <3>1. /\ held' = held \ SettingsIds(held) /\ pc = "settings" /\ failures' = failures
          /\ disk'.live = view.live \ SettingsIds(held)
      BY <2>2 DEF ReleaseSettings, CommitBatch, Release, IngestorIInv, SpoolIInv,
         TableOK, Tables
    <3>2. \A i \in 1 .. Len(log) : Fresh(i)' => Fresh(i)
      BY <1>0, <3>1 DEF Fresh, SettingsIds
    <3> QED BY <1>1, <1>4, <3>1, <3>2
  <2>3. CASE ReleaseWritten \/ DiscardBatch
    <3>1. /\ held' = {} /\ failures' = failures
          /\ disk'.live = view.live \ held
      BY <2>3 DEF ReleaseWritten, DiscardBatch, CommitBatch, Release, IngestorIInv,
         SpoolIInv, TableOK, Tables, historyVars
    <3>2. \A i \in 1 .. Len(log) : Fresh(i)' => Fresh(i)
      BY <1>0, <3>1 DEF Fresh
    <3> QED BY <1>1, <1>4, <3>1, <3>2
  <2>4. CASE WriteSettings \/ BeginAttempt \/ CommitAttempt
    <3>1. /\ held' = held /\ disk' = disk /\ failures' = failures
          /\ pc \notin {"stored", "dispatch"} \/ (pc = "dispatch" /\ pc' = "stored")
      BY <2>4 DEF WriteSettings, BeginAttempt, CommitAttempt, spoolVars, historyVars
    <3>2. \A i \in 1 .. Len(log) : Fresh(i)' => Fresh(i)
      BY <3>1 DEF Fresh
    <3> QED BY <1>1, <1>4, <3>1, <3>2
  <2>5. CASE DispatchRaises \/ DispatchCollides \/ DispatchFault
    <3>1. held' = held /\ disk' = disk /\ CountFailure
      BY <2>5 DEF DispatchRaises, DispatchCollides, DispatchFault, spoolVars
    <3>2. \A i \in 1 .. Len(log) : Fresh(i)' => Fresh(i) \/ i \in held
      BY <3>1 DEF Fresh
    <3> QED BY <1>2, <1>4, <3>1, <3>2
  <2>6. CASE RollBack \/ UpdatePipelineState \/ WriteDeadletter \/ DeadletterFault
    <3>1. /\ held' = held /\ disk' = disk /\ failures' = failures
          /\ pc \notin {"stored", "dispatch"}
      BY <2>6 DEF RollBack, UpdatePipelineState, WriteDeadletter, DeadletterFault,
         spoolVars, historyVars
    <3>2. \A i \in 1 .. Len(log) : Fresh(i)' => Fresh(i)
      BY <3>1 DEF Fresh
    <3> QED BY <1>1, <1>4, <3>1, <3>2
  <2> QED
    BY <1>4, <2>1, <2>2, <2>3, <2>4, <2>5, <2>6 DEF WriterStep
<1>5. CASE Quiet /\ (BrokerFlush \/ BrokerFault \/ BrokerRollBack \/ Stop \/ CloseAll \/ UNCHANGED vars)
  <2>1. /\ held' = held /\ disk' = disk /\ pc' = pc /\ todo' = todo /\ failures' = failures
    BY <1>5 DEF BrokerFlush, BrokerFault, BrokerRollBack, Stop, CloseAll, Close,
       vars, spoolVars, writerVars, historyVars
  <2> QED BY <1>1, <1>5, <2>1 DEF Fresh
<1>6. CASE Quiet /\ (ExitAndRestart \/ CrashAndRestart)
  <2>1. held' = {} /\ disk' = disk /\ CountFailure
    BY <1>6 DEF ExitAndRestart, CrashAndRestart, Reborn, Crash
  <2>2. \A i \in 1 .. Len(log) : Fresh(i)' => Fresh(i) \/ i \in held
    BY <2>1 DEF Fresh
  <2> QED BY <1>2, <1>6, <2>1, <2>2
<1>7. CASE DispatchEntry
  BY <1>7, CopiesDispatch
<1>8. ASSUME NEW m \in Message, Receive(m)
      PROVE  CopiesOK'
  BY <1>8, CopiesReceive
<1> QED
  BY <1>3, <1>4, <1>5, <1>6, <1>7, <1>8 DEF Next

(* However often attempts fail, threads interleave and the process dies, a *)
(* scan statistic is stored at most once more than attempts at it failed   *)
(* (db.py, the append-only INSERT; pipeline.py, the retries).              *)
THEOREM DuplicatesHaveCauses == Spec => []DuplicatesNeedFailures
<1>1. Init => CopiesOK
  BY DEF Init, SpoolInit, CopiesOK
<1>2. IngestorIInv /\ CopiesOK /\ [Next]_vars => CopiesOK'
  BY CopiesNext
<1>3. IngestorIInv /\ CopiesOK => DuplicatesNeedFailures
  <2> SUFFICES ASSUME IngestorIInv, CopiesOK, NEW i \in BagToSet(txn.itemlog)
               PROVE  txn.itemlog[i] <= 1 + failures[i]
    BY DEF DuplicatesNeedFailures
  <2>1. /\ DatabaseUpTo(txn, Len(log)) /\ i \in 1 .. Len(log) /\ Len(log) \in Nat
        /\ failures[i] \in Nat
    BY CopiesFacts DEF DatabaseUpTo
  <2>2. Copies(txn, i) = txn.itemlog[i] /\ Copies(txn, i) \in Nat
    BY <2>1, CopiesNat DEF Copies
  <2> QED BY <2>1, <2>2 DEF CopiesOK
<1> QED
  BY <1>1, <1>2, <1>3, IngestorInvariant, PTL DEF Spec
-----------------------------------------------------------------------------
(* Attempts start clean.                                                   *)

NoneRaises == \A i \in 1 .. Len(log) : KindOf(i) # "malformed"

(* Nothing waits for a commit, but for a snapshot the broker thread is to  *)
(* roll back.                                                              *)
Clean == txn = db \/ (txn = Snapshot(db) /\ brokerPc = "failed")

(* As long as no handler raised, statements of the writer wait for a       *)
(* commit only in the middle of an attempt, or between its error and its   *)
(* rollback.                                                               *)
TxnClean ==
    NoneRaises => \/ Clean
                  \/ pc = "failed"
                  \/ pc = "dispatch" /\ todo # held

LEMMA TxnCleanNext == IngestorIInv /\ TxnClean /\ [Next]_vars => TxnClean'
<1> SUFFICES ASSUME IngestorIInv, TxnClean, [Next]_vars, NoneRaises'
             PROVE  \/ Clean'
                    \/ pc' = "failed"
                    \/ pc' = "dispatch" /\ todo' # held'
  BY DEF TxnClean
<1>0. /\ log \in Seq(Message) /\ Len(log) \in Nat
      /\ held \subseteq 1 .. Len(log) /\ todo \subseteq held
  BY CopiesFacts
(* The log only grows, so nothing in it raised before the step either. *)
<1>1. /\ NoneRaises
      /\ Clean \/ pc = "failed" \/ (pc = "dispatch" /\ todo # held)
  <2>1. log' = log \/ \E m \in Message : log' = Append(log, m)
    BY LogStep DEF Receive, Enqueue, EnqueueAccept, EnqueueReject
  <2>2. NoneRaises
    <3>1. CASE log' = log
      BY <3>1 DEF NoneRaises, KindOf
    <3>2. CASE \E m \in Message : log' = Append(log, m)
      <4>1. \A i \in 1 .. Len(log) : i \in 1 .. Len(log') /\ log'[i] = log[i]
        BY <1>0, <3>2
      <4> QED BY <4>1 DEF NoneRaises, KindOf
    <3> QED BY <2>1, <3>1, <3>2
  <2> QED BY <2>2 DEF TxnClean
<1>2. CASE \E m \in Message : Receive(m)
  <2>1. /\ db' = db /\ txn' = txn /\ brokerPc' = brokerPc
        /\ held' = held /\ pc' = pc /\ todo' = todo
    BY <1>2 DEF Receive, Enqueue, EnqueueAccept, EnqueueReject, dbVars, writerVars
  <2> QED BY <1>1, <2>1 DEF Clean
<1>3. CASE Fetch \/ WriteSettings \/ ReleaseSettings \/ BeginAttempt
  BY <1>1, <1>3
  DEF Fetch, WriteSettings, ReleaseSettings, BeginAttempt, dbVars, Clean
<1>4. CASE ReleaseWritten \/ DiscardBatch
  BY <1>1, <1>4 DEF ReleaseWritten, DiscardBatch, dbVars, Clean
<1>5. CASE DispatchEntry
  <2>1. First(todo) \in todo
    BY <1>0, <1>5, FirstIn DEF DispatchEntry
  <2>2. /\ pc' = "dispatch" /\ held' = held
        /\ todo' = todo \ {First(todo)}
    BY <1>5 DEF DispatchEntry, spoolVars
  <2> QED BY <1>0, <2>1, <2>2
<1>6. CASE DispatchRaises
  <2>1. First(todo) \in 1 .. Len(log) /\ KindOf(First(todo)) = "malformed"
    BY <1>0, <1>6, FirstIn DEF DispatchRaises
  <2> QED BY <1>1, <2>1 DEF NoneRaises
<1>7. CASE DispatchCollides \/ DispatchFault
  BY <1>7 DEF DispatchCollides, DispatchFault
<1>8. CASE CommitAttempt \/ RollBack \/ UpdatePipelineState
  BY <1>8 DEF CommitAttempt, RollBack, UpdatePipelineState, Clean
<1>9. CASE WriteDeadletter \/ DeadletterFault
  BY <1>9 DEF WriteDeadletter, DeadletterFault, Clean
<1>10. CASE BrokerFlush \/ BrokerRollBack
  BY <1>10 DEF BrokerFlush, BrokerRollBack, Clean
<1>11. CASE BrokerFault
  <2>1. /\ brokerPc = "ready" /\ brokerPc' = "failed" /\ pc' = pc /\ pc # "dispatch"
        /\ \/ db' = db /\ txn' = txn
           \/ db' = db /\ txn' = Snapshot(txn)
           \/ txn' = db'
    BY <1>11 DEF BrokerFault, LockFree, dbVars, writerVars
  <2>2. txn = db \/ pc = "failed"
    BY <1>1, <2>1 DEF Clean
  <2> QED BY <2>1, <2>2 DEF Clean
<1>12. CASE Stop \/ UNCHANGED vars
  BY <1>1, <1>12 DEF Stop, vars, dbVars, writerVars, spoolVars, Clean
<1>13. CASE CloseAll \/ ExitAndRestart \/ CrashAndRestart
  BY <1>13 DEF CloseAll, ExitAndRestart, CrashAndRestart, Reborn, Clean
<1> QED
  BY <1>2, <1>3, <1>4, <1>5, <1>6, <1>7, <1>8, <1>9, <1>10, <1>11, <1>12, <1>13
  DEF Next, WriterStep

(* As long as no handler raises, an attempt starts with nothing of an      *)
(* earlier one open: no error path, lost answer, broker commit or restart  *)
(* leaves statements of the writer behind; a snapshot whose commit failed  *)
(* may be open, and then its rollback is still to come (db.py, write_batch *)
(* and write_broker_snapshot).                                             *)
THEOREM AttemptsStartClean == Spec => []AttemptStartsClean
<1>1. Init => TxnClean
  BY DEF Init, TxnClean, Clean
<1>2. IngestorIInv /\ TxnClean /\ [Next]_vars => TxnClean'
  BY TxnCleanNext
<1>3. TxnClean => AttemptStartsClean
  BY DEF TxnClean, Clean, NoneRaises, AttemptStartsClean
<1> QED
  BY <1>1, <1>2, <1>3, IngestorInvariant, PTL DEF Spec
-----------------------------------------------------------------------------
(* The newest wins.                                                        *)
(*                                                                         *)
(* Rows are written in the order of their ids.  What could break that is a *)
(* row older than one already released coming back, so the first half of   *)
(* the invariant is about the queue: the batch in hand is the oldest part  *)
(* of it, and what is released is older than what is left.  With that, a   *)
(* status or a settings entry that is overwritten is overwritten by a      *)
(* newer one, except by the rows that are still queued and will be written *)
(* again.                                                                  *)

(* Every event the policy drops rows for gets in. *)
Roomy == DropOldest => MakesRoom

HeldIsOldest == \A i \in held, j \in view.live : j <= i => j \in held

(* What the writer took out for good is older than what is left, but for   *)
(* settings entries, which leave before the rest of their batch does.      *)
ReleasedInOrder ==
    \A j \in view.live \cup held :
        /\ \A i \in Released(view) :
             j < i => KindOf(i) = "settings" /\ KindOf(j) # "settings"
        /\ \A i \in filed : j < i => KindOf(j) # "settings"

(* Nothing is left uncommitted in the spool, and rows leave it in order.   *)
QueueInOrder ==
    /\ view = disk
    /\ held \subseteq view.live \cup view.dropped
    /\ HeldIsOldest
    /\ ReleasedInOrder
    /\ filed \subseteq SettingsIds(1 .. Len(log))

(* The rows the current pass over the batch has dealt with. *)
Handled ==
    CASE pc = "settings" -> SettingsIds(held) \ todo
      [] pc = "dispatch" -> held \ todo
      [] OTHER -> {}

BatchInOrder ==
    /\ \A i \in Handled, j \in todo : i < j
    /\ pc = "settings" => todo \subseteq SettingsIds(held)

Shown(t, i) == KindOf(i) = "status" => t.status[DeviceOf[log[i]]] >= i

(* The rows whose status t must show: stored, and not to be written again. *)
Final(t) == t.done \ (t.dead \cup lost \cup view.dropped \cup view.live)

StatusInOrder ==
    /\ \A i \in Final(db) : Shown(db, i)
    /\ \A i \in Final(txn) : Shown(txn, i)
    /\ pc = "dispatch" => \A i \in Handled : Shown(txn, i)
    /\ pc = "stored" => \A i \in held : Shown(db, i) /\ Shown(txn, i)

OnFile(i) == files[DeviceOf[log[i]]] >= i

FilesInOrder ==
    faults = 0 =>
        /\ \A i \in filed : OnFile(i)
        /\ pc = "settings" => \A i \in Handled : OnFile(i)

OrderIInv == QueueInOrder /\ BatchInOrder /\ StatusInOrder /\ FilesInOrder

(* With room for every event no enqueue leaves deletions uncommitted. *)
LEMMA RoomKept ==
    ASSUME Roomy, SpoolIInv, view = disk, [SpoolNext]_spoolVars
    PROVE  view' = disk'
<1>1. ASSUME NEW m \in Message, Enqueue(m)
      PROVE  view' = disk'
  <2>1. CASE EnqueueAccept(m)
    BY <2>1 DEF EnqueueAccept
  <2>2. CASE EnqueueReject(m)
    <3>1. ~DropOldest
      <4>1. ~Fits(MakeRoom(m), m)
        BY <2>2 DEF EnqueueReject
      <4> QED BY <4>1, DropMakesRoom DEF Roomy, MakesRoom
    <3>2. MakeRoom(m) = view
      BY <3>1 DEF MakeRoom
    <3> QED BY <2>2, <3>2 DEF EnqueueReject
  <2> QED BY <1>1, <2>1, <2>2 DEF Enqueue
<1>2. ASSUME NEW n \in BatchSizes, DequeueBatch(n)
      PROVE  view' = disk'
  BY <1>2 DEF DequeueBatch
<1>3. ASSUME NEW ids \in SUBSET held, CommitBatch(ids)
      PROVE  view' = disk'
  BY <1>3 DEF CommitBatch
<1>4. CASE Close \/ Crash \/ UNCHANGED spoolVars
  BY <1>4 DEF Close, Crash, spoolVars
<1> QED BY <1>1, <1>2, <1>3, <1>4 DEF SpoolNext

(* A row of the log stays what it is. *)
LEMMA RowsStay ==
    ASSUME IngestorIInv, [Next]_vars
    PROVE  /\ Len(log) \in Nat /\ Len(log') \in Nat
           /\ \A i \in 1 .. Len(log) : i \in 1 .. Len(log') /\ log'[i] = log[i]
<1>1. log \in Seq(Message) /\ Len(log) \in Nat
  BY DEF IngestorIInv, SpoolIInv
<1>2. log' = log \/ \E m \in Message : log' = Append(log, m)
  BY LogStep DEF Receive, Enqueue, EnqueueAccept, EnqueueReject
<1> QED BY <1>1, <1>2

(* The steps that move rows. *)
LEMMA QueueStep ==
    ASSUME [Next]_vars, view = disk
    PROVE  \/ \E m \in Message : Receive(m)
           \/ Fetch \/ ReleaseSettings \/ ReleaseWritten \/ DiscardBatch
           \/ /\ UNCHANGED <<log, view, filed>>
              /\ \/ held' = held
                 \/ held' = {} /\ pc' = "idle" /\ todo' = {}
<1> DEFINE Still == /\ UNCHANGED <<log, view, filed>>
                    /\ \/ held' = held
                       \/ held' = {} /\ pc' = "idle" /\ todo' = {}
<1>1. ASSUME WriteSettings \/ BeginAttempt \/ UpdatePipelineState
      PROVE  Still
  BY <1>1 DEF WriteSettings, BeginAttempt, UpdatePipelineState, spoolVars, historyVars
<1>2. ASSUME DispatchEntry \/ DispatchRaises \/ DispatchCollides
      PROVE  Still
  BY <1>2 DEF DispatchEntry, DispatchRaises, DispatchCollides, spoolVars, historyVars
<1>3. ASSUME DispatchFault \/ CommitAttempt \/ RollBack
      PROVE  Still
  BY <1>3 DEF DispatchFault, CommitAttempt, RollBack, spoolVars, historyVars
<1>4. ASSUME WriteDeadletter \/ DeadletterFault
      PROVE  Still
  BY <1>4 DEF WriteDeadletter, DeadletterFault, spoolVars, historyVars
<1>5. ASSUME BrokerFlush \/ BrokerFault \/ BrokerRollBack \/ Stop
      PROVE  Still
  BY <1>5 DEF BrokerFlush, BrokerFault, BrokerRollBack, Stop, spoolVars, historyVars
<1>6. ASSUME CloseAll
      PROVE  Still
  BY <1>6 DEF CloseAll, Close, historyVars
<1>7. ASSUME ExitAndRestart \/ CrashAndRestart
      PROVE  Still
  BY <1>7 DEF ExitAndRestart, CrashAndRestart, Reborn, Crash
<1>8. ASSUME UNCHANGED vars
      PROVE  Still
  BY <1>8 DEF vars, spoolVars, historyVars
<1> QED
  BY <1>1, <1>2, <1>3, <1>4, <1>5, <1>6, <1>7, <1>8 DEF Next, WriterStep

(* A batch is the oldest part of the queue. *)
LEMMA OldestFirst ==
    ASSUME NEW n \in Nat, NEW S \in SUBSET (1 .. n), NEW k \in Nat,
           NEW i \in Oldest(S, k), NEW j \in S, j <= i
    PROVE  j \in Oldest(S, k)
<1> DEFINE upto(x) == {y \in S : y <= x}
<1>1. i \in S /\ Cardinality(upto(i)) <= k
  BY DEF Oldest
<1>2. upto(j) \subseteq upto(i)
  <2>1. S \subseteq Int /\ i \in Int /\ j \in Int
    BY <1>1
  <2>2. \A y \in S : y <= j => y <= i
    BY <2>1
  <2> QED BY <2>2
<1>3. IsFiniteSet(upto(i)) /\ IsFiniteSet(upto(j))
  <2>1. IsFiniteSet(1 .. n)
    BY FS_Interval
  <2>2. upto(i) \subseteq 1 .. n /\ upto(j) \subseteq 1 .. n
    OBVIOUS
  <2> HIDE DEF upto
  <2> QED BY <2>1, <2>2, FS_Subset
<1>4. Cardinality(upto(j)) <= k
  <2> HIDE DEF upto
  <2>1. /\ Cardinality(upto(j)) <= Cardinality(upto(i))
        /\ Cardinality(upto(j)) \in Nat /\ Cardinality(upto(i)) \in Nat
    BY <1>2, <1>3, FS_Subset, FS_CardinalityType
  <2> QED BY <1>1, <2>1
<1> QED BY <1>4 DEF Oldest

(* The rows in hand and in the queue are rows of the log. *)
LEMMA QueueFacts ==
    ASSUME IngestorIInv
    PROVE  /\ log \in Seq(Message) /\ Len(log) \in Nat
           /\ view \in Tables
           /\ view.live \in SUBSET (1 .. Len(log))
           /\ view.dropped \in SUBSET (1 .. Len(log))
           /\ held \in SUBSET (1 .. Len(log)) /\ todo \in SUBSET held
           /\ Released(view) \in SUBSET (1 .. Len(log))
BY DEF IngestorIInv, SpoolIInv, TableOK, IngestorTypeOK, Released

(* Every step keeps the rows leaving the spool in order. *)
LEMMA QueueKept ==
    ASSUME Roomy, IngestorIInv, QueueInOrder, [Next]_vars
    PROVE  QueueInOrder'
<1> DEFINE n == Len(log)
<1>0. /\ log \in Seq(Message) /\ n \in Nat /\ view \in Tables
      /\ view.live \in SUBSET (1 .. n) /\ view.dropped \in SUBSET (1 .. n)
      /\ held \in SUBSET (1 .. n) /\ todo \in SUBSET held
      /\ Released(view) \in SUBSET (1 .. n)
      /\ filed \subseteq 1 .. n /\ \A i \in filed : KindOf(i) = "settings"
  BY QueueFacts DEF QueueInOrder, SettingsIds
<1>1. view' = disk'
  BY NextIsSpoolStep, RoomKept DEF IngestorIInv, QueueInOrder
<1>2. /\ Len(log') \in Nat
      /\ \A i \in 1 .. n : i \in 1 .. Len(log') /\ log'[i] = log[i]
  BY RowsStay
<1>3. \A i \in 1 .. n : KindOf(i)' = KindOf(i)
  BY <1>2 DEF KindOf
<1>4. /\ held \subseteq view.live \cup view.dropped
      /\ HeldIsOldest /\ ReleasedInOrder
  BY DEF QueueInOrder
(* It is enough to look at the ids: the kind of a row does not change. *)
<1> DEFINE gone == (1 .. Len(log')) \ (view'.live \cup view'.dropped)
           After(j, i) == /\ i \in 1 .. n /\ KindOf(i) = "settings"
                          /\ j \in 1 .. n /\ KindOf(j) # "settings"
           Batch == held' \subseteq view'.live \cup view'.dropped
           Aged == \A i \in held', j \in view'.live : j <= i => j \in held'
           Passed == \A j \in view'.live \cup held', i \in gone : j < i => After(j, i)
           Saved == \A j \in view'.live \cup held', i \in filed' :
                      j < i => j \in 1 .. n /\ KindOf(j) # "settings"
           Kept == filed' \subseteq SettingsIds(1 .. n)
           Goal == Batch /\ Aged /\ Passed /\ Saved /\ Kept
<1>5. SUFFICES Goal
  <2>1. Released(view)' = gone
    BY DEF Released
  <2>2. ReleasedInOrder'
    BY <1>3, <2>1 DEF ReleasedInOrder
  <2>3. HeldIsOldest'
    BY DEF HeldIsOldest
  <2>4. filed' \subseteq SettingsIds(1 .. Len(log))'
    BY <1>2, <1>3 DEF SettingsIds
  <2> QED BY <1>1, <2>2, <2>3, <2>4 DEF QueueInOrder
<1>6. ASSUME UNCHANGED <<log, view, filed>>, held' = held \/ held' = {}
      PROVE  Goal
  <2>1. gone = Released(view)
    BY <1>6 DEF Released
  <2>2. Passed /\ Saved
    <3> HIDE DEF gone
    <3> QED BY <1>0, <1>4, <1>6, <2>1 DEF ReleasedInOrder
  <2>3. Batch /\ Aged
    BY <1>0, <1>4, <1>6 DEF HeldIsOldest
  <2>4. Kept
    BY <1>6 DEF QueueInOrder
  <2> QED BY <2>2, <2>3, <2>4
<1>7. ASSUME NEW m \in Message, Receive(m)
      PROVE  Goal
  <2> DEFINE D == view'.dropped \ view.dropped
  <2>0. Enqueue(m) /\ SpoolIInv /\ filed' = filed
    BY <1>7 DEF Receive, IngestorIInv
  <2>1. /\ D \subseteq view.live
        /\ view'.dropped = view.dropped \cup D
        /\ \/ log' = log /\ view'.live = view.live \ D
           \/ /\ log' = Append(log, m)
              /\ view'.live = (view.live \ D) \cup {n + 1}
    BY <2>0, EnqueueRows
  <2>2. held' = held /\ gone \subseteq Released(view)
    <3>1. Released(view)' \subseteq Released(view) /\ held' = held
      BY <2>0, EnqueueReleases
    <3> QED BY <3>1 DEF Released
  <2> HIDE DEF D, gone
  <2>3. \A j \in view'.live : j \in view.live \/ j = n + 1
    BY <2>1
  <2>4. \A i \in held \cup Released(view) \cup filed : ~(n + 1 <= i)
    BY <1>0
  <2>5. Batch
    BY <1>4, <2>1, <2>2
  <2>6. Aged
    BY <1>4, <2>2, <2>3, <2>4 DEF HeldIsOldest
  <2>7. Passed
    <3>1. \A i \in Released(view) : ~(n + 1 < i)
      BY <1>0
    <3> QED BY <1>0, <1>4, <2>2, <2>3, <3>1 DEF ReleasedInOrder
  <2>8. Saved
    <3>1. \A i \in filed : ~(n + 1 < i)
      BY <1>0
    <3> QED BY <1>0, <1>4, <2>0, <2>2, <2>3, <3>1 DEF ReleasedInOrder
  <2>9. Kept
    BY <2>0 DEF QueueInOrder
  <2> QED BY <2>5, <2>6, <2>7, <2>8, <2>9
<1>8. ASSUME Fetch
      PROVE  Goal
  <2>1. PICK k \in Nat : held' = Oldest(view.live, k)
    BY <1>8, IngestorAssumption, SpoolAssumption DEF Fetch, DequeueBatch
  <2>2. view' = view /\ log' = log /\ filed' = filed
    BY <1>8 DEF Fetch, DequeueBatch, historyVars
  <2>3. gone = Released(view) /\ held' \subseteq view.live
    BY <2>1, <2>2 DEF Released, Oldest
  <2> HIDE DEF gone
  <2>4. Batch
    BY <2>2, <2>3
  <2>5. Aged
    BY <1>0, <2>1, <2>2, OldestFirst
  <2>6. Passed /\ Saved
    BY <1>0, <1>4, <2>2, <2>3 DEF ReleasedInOrder
  <2> QED BY <2>2, <2>4, <2>5, <2>6 DEF QueueInOrder
(* Either the whole batch leaves the queue, or its settings entries do. *)
<1>9. ASSUME NEW ids \in SUBSET held, CommitBatch(ids),
             \/ ids = held /\ filed' = filed
             \/ ids = SettingsIds(held) /\ filed' = filed \cup ids
      PROVE  Goal
  <2>1. /\ view'.live = view.live \ ids /\ view'.dropped = view.dropped
        /\ log' = log /\ held' = held \ ids
    BY <1>0, <1>9 DEF CommitBatch, Release, Tables
  <2>2. gone \subseteq Released(view) \cup ids
    BY <2>1 DEF Released
  <2> HIDE DEF gone
  <2>3. Batch
    BY <1>4, <2>1
  <2>4. Aged
    BY <1>4, <2>1 DEF HeldIsOldest
  <2>5. \A j \in view'.live \cup held' :
           /\ j \in 1 .. n
           /\ \A i \in Released(view) : j < i => After(j, i)
           /\ \A i \in filed : j < i => KindOf(j) # "settings"
    BY <1>0, <1>4, <2>1 DEF ReleasedInOrder
(* A row left behind is newer, or is not a settings entry. *)
  <2>6. ASSUME NEW j \in view'.live \cup held', NEW i \in ids, j < i
        PROVE  ids = SettingsIds(held) /\ j \in held /\ j \notin ids
    <3>1. j <= i
      BY <1>0, <2>1, <2>6
    <3> QED BY <1>4, <1>9, <2>1, <2>6, <3>1 DEF HeldIsOldest
  <2>7. ASSUME NEW j \in view'.live \cup held', NEW i \in ids, j < i
        PROVE  After(j, i)
    BY <1>0, <2>6, <2>7 DEF SettingsIds
  <2>8. Passed
    <3> HIDE DEF After
    <3> QED BY <2>2, <2>5, <2>7
  <2>9. Saved
    BY <1>9, <2>5, <2>7
  <2>10. Kept
    BY <1>0, <1>9 DEF QueueInOrder, SettingsIds
  <2> QED BY <2>3, <2>4, <2>8, <2>9, <2>10
<1>10. ASSUME ReleaseSettings
       PROVE  Goal
  <2>1. /\ CommitBatch(SettingsIds(held)) /\ filed' = filed \cup SettingsIds(held)
        /\ SettingsIds(held) \subseteq held
    BY <1>10 DEF ReleaseSettings, SettingsIds
  <2> HIDE DEF Goal
  <2> QED BY <2>1, <1>9
<1>11. ASSUME ReleaseWritten \/ DiscardBatch
       PROVE  Goal
  <2>1. CommitBatch(held) /\ filed' = filed
    BY <1>11 DEF ReleaseWritten, DiscardBatch, historyVars
  <2> HIDE DEF Goal
  <2> QED BY <2>1, <1>9
<1> HIDE DEF Goal
<1> QED
  BY <1>6, <1>7, <1>8, <1>10, <1>11, QueueStep DEF QueueInOrder

(* The steps that move a pass over the batch along. *)
LEMMA PassStep ==
    ASSUME [Next]_vars
    PROVE  \/ Fetch \/ WriteSettings \/ BeginAttempt \/ DispatchEntry
           \/ UNCHANGED <<pc, todo, held>>
           \/ pc' \notin {"settings", "dispatch"}
<1> DEFINE Same == UNCHANGED <<pc, todo, held>>
           Over == pc' \notin {"settings", "dispatch"}
<1>1. ASSUME NEW m \in Message, Receive(m)
      PROVE  Same
  BY <1>1 DEF Receive, Enqueue, EnqueueAccept, EnqueueReject, writerVars
<1>2. ASSUME ReleaseSettings \/ ReleaseWritten \/ DiscardBatch
      PROVE  Over
  BY <1>2 DEF ReleaseSettings, ReleaseWritten, DiscardBatch, EndCycle
<1>3. ASSUME DispatchRaises \/ DispatchCollides \/ DispatchFault
      PROVE  Over
  BY <1>3 DEF DispatchRaises, DispatchCollides, DispatchFault, EndCycle
<1>4. ASSUME CommitAttempt \/ RollBack \/ UpdatePipelineState
      PROVE  Over
  BY <1>4 DEF CommitAttempt, RollBack, UpdatePipelineState, EndCycle
<1>5. ASSUME WriteDeadletter \/ DeadletterFault
      PROVE  Over
  BY <1>5 DEF WriteDeadletter, DeadletterFault
<1>6. ASSUME BrokerFlush \/ BrokerFault \/ BrokerRollBack \/ Stop
      PROVE  Same
  BY <1>6 DEF BrokerFlush, BrokerFault, BrokerRollBack, Stop, spoolVars, writerVars
<1>7. ASSUME CloseAll \/ UNCHANGED vars
      PROVE  Same
  BY <1>7 DEF CloseAll, Close, vars, spoolVars, writerVars
<1>8. ASSUME ExitAndRestart \/ CrashAndRestart
      PROVE  Over
  BY <1>8 DEF ExitAndRestart, CrashAndRestart, Reborn
<1> QED
  BY <1>1, <1>2, <1>3, <1>4, <1>5, <1>6, <1>7, <1>8 DEF Next, WriterStep

(* Every step keeps the batch in order.  (A row of the log keeps its kind, *)
(* so the settings entries of a batch stay the same.)                      *)
LEMMA BatchKept ==
    ASSUME IngestorIInv, BatchInOrder, [Next]_vars
    PROVE  /\ BatchInOrder'
           /\ pc' \in {"settings", "dispatch"} /\ ~Fetch /\ ~BeginAttempt =>
                /\ pc' = pc /\ held' = held
                /\ \/ Handled' = Handled /\ todo' = todo
                   \/ /\ WriteSettings \/ DispatchEntry
                      /\ todo # {} /\ First(todo) \in todo
                      /\ Handled' = Handled \cup {First(todo)}
                      /\ todo' = todo \ {First(todo)}
           /\ Fetch \/ BeginAttempt => Handled' = {}
<1>0. /\ Len(log) \in Nat /\ held \in SUBSET (1 .. Len(log)) /\ todo \in SUBSET held
  BY QueueFacts
<1>1. \A i \in 1 .. Len(log) : KindOf(i)' = KindOf(i)
  BY RowsStay DEF KindOf
<1>2. held' = held => SettingsIds(held)' = SettingsIds(held)
  BY <1>0, <1>1 DEF SettingsIds
<1>3. CASE UNCHANGED <<pc, todo, held>>
  <2>1. Handled' = Handled
    BY <1>2, <1>3 DEF Handled
  <2>2. BatchInOrder'
    BY <1>2, <1>3, <2>1 DEF BatchInOrder
  <2>3. Fetch \/ BeginAttempt => FALSE
    BY <1>3 DEF Fetch, BeginAttempt
  <2> QED BY <1>3, <2>1, <2>2, <2>3
<1>4. CASE pc' \notin {"settings", "dispatch"} /\ ~Fetch /\ ~BeginAttempt
  BY <1>4 DEF Handled, BatchInOrder
<1>5. CASE Fetch
  <2>1. /\ todo' = SettingsIds(held')
        /\ log' = log /\ pc' \in {"halt", "settings", "waiting"}
    BY <1>5 DEF Fetch, DequeueBatch
  <2>2. todo' = SettingsIds(held)'
    BY <2>1 DEF SettingsIds, KindOf
  <2>3. Handled' = {}
    BY <2>1, <2>2 DEF Handled
  <2>4. BatchInOrder'
    BY <2>2, <2>3 DEF BatchInOrder
  <2>5. ~BeginAttempt
    BY <1>5 DEF Fetch, BeginAttempt
  <2> QED BY <1>5, <2>3, <2>4, <2>5
<1>6. CASE BeginAttempt
  <2>1. pc' = "dispatch" /\ todo' = held /\ held' = held
    BY <1>6 DEF BeginAttempt, spoolVars
  <2>2. Handled' = {}
    BY <2>1 DEF Handled
  <2> QED BY <1>6, <2>1, <2>2 DEF BatchInOrder
<1>7. CASE WriteSettings \/ DispatchEntry
  <2> DEFINE x == First(todo)
  <2>1. /\ todo # {} /\ todo' = todo \ {x}
        /\ pc' = pc /\ held' = held /\ pc \in {"settings", "dispatch"}
    BY <1>7 DEF WriteSettings, DispatchEntry, spoolVars
  <2>2. x \in todo /\ \A j \in todo : x <= j
    BY <1>0, <2>1, FirstIn
  <2> HIDE DEF x
  <2>3. Handled' = Handled \cup {x}
    <3>1. pc = "settings" => x \in SettingsIds(held)
      BY <2>2 DEF BatchInOrder
    <3> QED BY <1>0, <1>2, <2>1, <2>2, <3>1 DEF Handled
  <2>4. \A j \in todo' : x < j
    <3>1. \A j \in todo' : x <= j /\ x # j /\ j \in Int
      BY <1>0, <2>1, <2>2
    <3>2. x \in Int
      BY <1>0, <2>2
    <3> QED BY <3>1, <3>2
  <2>5. BatchInOrder'
    BY <1>2, <2>1, <2>3, <2>4 DEF BatchInOrder
  <2>6. ~Fetch /\ ~BeginAttempt
    BY <2>1 DEF Fetch, BeginAttempt
  <2> QED BY <1>7, <2>1, <2>2, <2>3, <2>5, <2>6 DEF x
<1> QED BY <1>3, <1>4, <1>5, <1>6, <1>7, PassStep

(* The steps that touch the settings files, the list of filed entries and  *)
(* the count of faults.                                                    *)
LEMMA FilesStep ==
    ASSUME [Next]_vars
    PROVE  /\ \/ WriteSettings
              \/ files' = files /\ (ReleaseSettings \/ filed' = filed)
           /\ faults' = faults \/ faults' = faults + 1
<1>1. CASE \E m \in Message : Receive(m)
  BY <1>1 DEF Receive
<1>2. CASE Fetch \/ WriteSettings \/ ReleaseSettings \/ BeginAttempt
  BY <1>2 DEF Fetch, WriteSettings, ReleaseSettings, BeginAttempt, historyVars, Fault
<1>3. CASE DispatchEntry \/ DispatchRaises \/ DispatchCollides \/ DispatchFault
  BY <1>3 DEF DispatchEntry, DispatchRaises, DispatchCollides, DispatchFault,
     historyVars, Fault
<1>4. CASE CommitAttempt \/ RollBack \/ UpdatePipelineState \/ ReleaseWritten
  BY <1>4 DEF CommitAttempt, RollBack, UpdatePipelineState, ReleaseWritten, historyVars
<1>5. CASE WriteDeadletter \/ DeadletterFault \/ DiscardBatch
  BY <1>5 DEF WriteDeadletter, DeadletterFault, DiscardBatch, historyVars, Fault
<1>6. CASE BrokerFlush \/ BrokerFault \/ BrokerRollBack \/ Stop
  BY <1>6 DEF BrokerFlush, BrokerFault, BrokerRollBack, Stop, historyVars, Fault
<1>7. CASE CloseAll \/ ExitAndRestart \/ CrashAndRestart
  BY <1>7 DEF CloseAll, ExitAndRestart, CrashAndRestart, Reborn, historyVars
<1>8. CASE UNCHANGED vars
  BY <1>8 DEF vars, historyVars
<1> QED
  BY <1>1, <1>2, <1>3, <1>4, <1>5, <1>6, <1>7, <1>8 DEF Next, WriterStep

(* Settings files: an entry is overwritten by newer ones only. *)
LEMMA FilesKept ==
    ASSUME IngestorIInv, QueueInOrder, BatchInOrder, FilesInOrder, [Next]_vars
    PROVE  FilesInOrder'
<1> SUFFICES ASSUME faults' = 0
             PROVE  /\ (\A i \in filed : OnFile(i))'
                    /\ pc' = "settings" => (\A i \in Handled : OnFile(i))'
  BY DEF FilesInOrder
<1>0. /\ log \in Seq(Message) /\ Len(log) \in Nat
      /\ held \in SUBSET (1 .. Len(log)) /\ todo \in SUBSET held
      /\ filed \subseteq 1 .. Len(log) /\ \A i \in filed : KindOf(i) = "settings"
      /\ faults \in Nat /\ files \in [Device -> 0 .. Len(log)]
  BY QueueFacts, IngestorAssumption DEF QueueInOrder, SettingsIds, IngestorIInv,
     IngestorTypeOK
<1>1. faults = 0
  <2>1. faults' = faults \/ faults' = faults + 1
    BY FilesStep
  <2> QED BY <1>0, <2>1
<1>2. /\ \A i \in filed : OnFile(i)
      /\ pc = "settings" => \A i \in Handled : OnFile(i)
  BY <1>1 DEF FilesInOrder
<1>3. \A i \in 1 .. Len(log) : log'[i] = log[i]
  BY RowsStay
<1>4. Handled \subseteq 1 .. Len(log)
  BY <1>0 DEF Handled, SettingsIds
<1>5. /\ pc' = "settings" /\ ~Fetch /\ ~BeginAttempt =>
           /\ pc = "settings"
           /\ \/ Handled' = Handled
              \/ /\ WriteSettings \/ DispatchEntry
                 /\ Handled' = Handled \cup {First(todo)}
      /\ Fetch \/ BeginAttempt => Handled' = {}
  BY BatchKept
<1>6. CASE WriteSettings
  <2> DEFINE x == First(todo)
             d == DeviceOf[log[x]]
  <2>1. x \in todo /\ pc = "settings" /\ pc' = "settings"
    BY <1>0, <1>6, FirstIn DEF WriteSettings
  <2>2. x \in held /\ KindOf(x) = "settings" /\ x \in 1 .. Len(log)
    BY <1>0, <2>1 DEF BatchInOrder, SettingsIds
  <2>3. files' = [files EXCEPT ![d] = x] /\ filed' = filed
    BY <1>0, <1>1, <1>6 DEF WriteSettings, Fault, historyVars
  <2>4. d \in Device /\ log[x] \in Message
    BY <1>0, <2>2, IngestorAssumption
  <2>5. \A i \in filed : ~(x < i)
    BY <2>2 DEF QueueInOrder, ReleasedInOrder
  <2>6. \A i \in Handled : i < x
    BY <2>1 DEF BatchInOrder
  <2>7. Handled' \subseteq Handled \cup {x}
    BY <1>5, <2>1, <1>6 DEF Fetch, BeginAttempt, WriteSettings
  <2> HIDE DEF x
  <2>8. ASSUME NEW i \in 1 .. Len(log), (OnFile(i) /\ i <= x) \/ i = x
        PROVE  OnFile(i)'
    <3>1. i \in Int /\ x \in Int
      BY <2>2
    <3>2. DeviceOf[log[i]] \in Device
      BY <1>0, IngestorAssumption
    <3>3. CASE DeviceOf[log[i]] = d
      <4>1. files'[d] = x /\ i <= x
        BY <1>0, <2>3, <2>4, <2>8, <3>1
      <4> QED BY <1>3, <3>1, <3>3, <4>1 DEF OnFile
    <3>4. CASE DeviceOf[log[i]] # d
      <4>1. files'[DeviceOf[log[i]]] = files[DeviceOf[log[i]]] /\ i # x
        BY <1>0, <2>3, <3>2, <3>4
      <4> HIDE DEF d
      <4> QED BY <1>3, <2>8, <4>1 DEF OnFile
    <3> QED BY <3>3, <3>4
  <2>9. \A i \in filed \cup Handled \cup {x} : i \in 1 .. Len(log)
    BY <1>0, <1>4, <2>2
  <2>10. \A i \in filed \cup Handled : OnFile(i) /\ i <= x
    <3>1. \A i \in filed \cup Handled : i \in Int /\ x \in Int
      BY <1>0, <1>4, <2>2
    <3> QED BY <1>2, <2>1, <2>5, <2>6, <3>1
  <2>11. \A i \in filed \cup Handled \cup {x} : OnFile(i)'
    BY <2>8, <2>9, <2>10
  <2> QED BY <2>3, <2>7, <2>11
<1>7. CASE files' = files /\ ReleaseSettings
  <2>1. /\ pc = "settings" /\ todo = {} /\ filed' = filed \cup SettingsIds(held)
        /\ pc' # "settings"
    BY <1>7 DEF ReleaseSettings, EndCycle
  <2>2. Handled = SettingsIds(held)
    BY <2>1 DEF Handled
  <2>3. \A i \in filed' : OnFile(i) /\ i \in 1 .. Len(log)
    BY <1>0, <1>2, <1>4, <2>1, <2>2
  <2> QED BY <1>3, <1>7, <2>1, <2>3 DEF OnFile
<1>8. CASE files' = files /\ filed' = filed /\ ~WriteSettings
  <2>1. \A i \in 1 .. Len(log) : OnFile(i) => OnFile(i)'
    BY <1>3, <1>8 DEF OnFile
  <2>2. \A i \in filed : OnFile(i)'
    BY <1>0, <1>2, <2>1
  <2>3. ASSUME pc' = "settings"
        PROVE  \A i \in Handled' : OnFile(i)'
    <3>1. ~DispatchEntry
      BY <2>3 DEF DispatchEntry
    <3>2. CASE Fetch \/ BeginAttempt
      BY <1>5, <3>2
    <3>3. CASE ~Fetch /\ ~BeginAttempt
      <4>1. Handled' = Handled /\ pc = "settings"
        BY <1>5, <1>8, <2>3, <3>1, <3>3, Zenon
      <4> QED BY <1>2, <1>4, <2>1, <4>1
    <3> QED BY <3>2, <3>3
  <2> QED BY <1>8, <2>2, <2>3
<1> QED BY <1>6, <1>7, <1>8, FilesStep

(* What a handler leaves in the tables of latest values. *)
LEMMA HandleStatus ==
    ASSUME NEW n \in Nat, NEW t, DatabaseUpTo(t, n), NEW i \in 1 .. n
    PROVE  Handle(t, i).status =
             IF KindOf(i) = "status"
             THEN [t.status EXCEPT ![DeviceOf[log[i]]] = i] ELSE t.status
<1>1. CASE KindOf(i) = "status"
  BY <1>1 DEF Handle, DatabaseUpTo, DatabaseFields
<1>2. CASE KindOf(i) = "itemlog"
  BY <1>2 DEF Handle, DatabaseUpTo, DatabaseFields
<1>3. CASE KindOf(i) \notin {"status", "itemlog"}
  <2>1. Handle(t, i) = [t EXCEPT !.done = @ \cup {i}]
    BY <1>3 DEF Handle
  <2> QED BY <1>3, <2>1 DEF DatabaseUpTo, DatabaseFields
<1> QED BY <1>1, <1>2, <1>3

(* u stores what t stores, in the tables of latest values, but for dead    *)
(* letters.                                                                *)
Like(u, t) == u.status = t.status /\ u.done = t.done /\ t.dead \subseteq u.dead

(* The entry in hand, handled on top of t. *)
Wrote(u, t, i) ==
    /\ u.done = t.done \cup {i}
    /\ u.dead = t.dead
    /\ u.status = IF KindOf(i) = "status"
                  THEN [t.status EXCEPT ![DeviceOf[log[i]]] = i] ELSE t.status

(* Where the contents of the two databases come from. *)
LEMMA StatusStep ==
    ASSUME IngestorIInv, [Next]_vars
    PROVE  /\ Like(db', db) \/ Like(db', txn)
           /\ DispatchEntry => Wrote(txn', txn, First(todo))
           /\ ~DispatchEntry =>
                /\ Like(txn', db) \/ Like(txn', txn)
                /\ pc = "dispatch" /\ pc' = "dispatch" => Like(txn', txn)
           /\ pc' = "stored" =>
                \/ /\ CommitAttempt
                   /\ db' = txn /\ txn' = txn /\ held' = held
                \/ pc = "stored" /\ held' = held /\ ~DispatchEntry
<1>0. /\ log \in Seq(Message) /\ Len(log) \in Nat /\ held \in SUBSET (1 .. Len(log))
      /\ todo \in SUBSET held
      /\ DatabaseUpTo(txn, Len(log)) /\ DOMAIN txn = DatabaseFields
  BY QueueFacts, DatabaseUpToLog DEF DatabaseFine, IngestorIInv, IngestorTypeOK
<1>1. Like(db, db) /\ Like(txn, txn)
  BY DEF Like
(* Registering a device touches neither. *)
<1>2. ASSUME NEW i \in 1 .. Len(log)
      PROVE  Like(Resolved(log[i]), txn) /\ DatabaseUpTo(Resolved(log[i]), Len(log))
  <2>1. log[i] \in Message
    BY <1>0
  <2>2. Resolved(log[i]).status = txn.status
    BY <1>0 DEF Resolved, DatabaseFields
  <2> QED BY <1>0, <2>1, <2>2, ResolvedOK DEF Like
<1>3. todo # {} => First(todo) \in 1 .. Len(log)
  BY <1>0, FirstIn
<1>4. ASSUME DispatchEntry
      PROVE  /\ Wrote(txn', txn, First(todo))
             /\ Like(db', db) \/ Like(db', txn)
             /\ pc' = "dispatch"
  <2> DEFINE i == First(todo)
  <2>1. i \in 1 .. Len(log) /\ log[i] \in Message
    BY <1>0, <1>3, <1>4 DEF DispatchEntry
  <2>2. \/ db' = db /\ txn' = Handle(txn, i)
        \/ db' = Resolved(log[i]) /\ txn' = Handle(Resolved(log[i]), i)
    BY <1>4 DEF DispatchEntry
  <2>3. pc' = "dispatch"
    BY <1>4 DEF DispatchEntry
  <2> HIDE DEF i
  <2>4. Wrote(Handle(txn, i), txn, i)
    <3>1. /\ Handle(txn, i).done = txn.done \cup {i}
          /\ Handle(txn, i).dead = txn.dead
      BY <1>0, <2>1, HandleOK
    <3> QED BY <1>0, <2>1, <3>1, HandleStatus DEF Wrote
  <2>5. Wrote(Handle(Resolved(log[i]), i), txn, i)
    <3> DEFINE t == Resolved(log[i])
    <3>1. DatabaseUpTo(t, Len(log)) /\ t.status = txn.status /\ t.done = txn.done
          /\ t.dead = txn.dead
      BY <1>0, <1>2, <2>1, ResolvedOK DEF Like
    <3> HIDE DEF t
    <3>2. Wrote(Handle(t, i), t, i)
      <4>1. Handle(t, i).done = t.done \cup {i} /\ Handle(t, i).dead = t.dead
        BY <1>0, <2>1, <3>1, HandleOK
      <4> QED BY <1>0, <2>1, <3>1, <4>1, HandleStatus DEF Wrote
    <3>3. Wrote(Handle(t, i), txn, i)
      BY <3>1, <3>2 DEF Wrote
    <3> QED BY <3>3 DEF t
  <2>6. Wrote(txn', txn, i) /\ (Like(db', db) \/ Like(db', txn))
    BY <1>1, <1>2, <2>1, <2>2, <2>4, <2>5
  <2> QED BY <1>4, <2>3, <2>6 DEF i
<1> SUFFICES ASSUME ~DispatchEntry
             PROVE  /\ Like(db', db) \/ Like(db', txn)
                    /\ Like(txn', db) \/ Like(txn', txn)
                    /\ pc = "dispatch" /\ pc' = "dispatch" => Like(txn', txn)
                    /\ pc' = "stored" =>
                         \/ /\ CommitAttempt
                            /\ db' = txn /\ txn' = txn /\ held' = held
                         \/ pc = "stored" /\ held' = held
  BY <1>4
(* The steps that leave both databases alone. *)
<1>5. CASE UNCHANGED dbVars /\ (pc' = "stored" => pc = "stored" /\ held' = held)
  BY <1>1, <1>5 DEF dbVars
<1>6. CASE \E m \in Message : Receive(m)
  BY <1>5, <1>6 DEF Receive, Enqueue, EnqueueAccept, EnqueueReject, writerVars
<1>7. CASE Fetch \/ WriteSettings \/ ReleaseSettings \/ BeginAttempt
  BY <1>5, <1>7 DEF Fetch, WriteSettings, ReleaseSettings, BeginAttempt, EndCycle
<1>8. CASE ReleaseWritten \/ DiscardBatch \/ DispatchCollides
  BY <1>5, <1>8 DEF ReleaseWritten, DiscardBatch, DispatchCollides, EndCycle
<1>9. CASE Stop
  BY <1>5, <1>9 DEF Stop, spoolVars, writerVars
<1>10. CASE UNCHANGED vars
  BY <1>5, <1>10 DEF vars, spoolVars, writerVars
<1>11. CASE DispatchRaises
  <2>1. /\ \/ db' = db /\ txn' = txn
           \/ db' = Resolved(log[First(todo)]) /\ txn' = db'
        /\ pc' \notin {"dispatch", "stored"} /\ todo # {}
    BY <1>11 DEF DispatchRaises, EndCycle, dbVars
  <2> QED BY <1>1, <1>2, <1>3, <2>1
<1>12. CASE DispatchFault
  <2>1. /\ \/ UNCHANGED dbVars
           \/ txn' = db /\ db' = db
           \/ db' = txn /\ txn' = txn
           \/ todo # {} /\ db' = Resolved(log[First(todo)]) /\ txn' = db'
        /\ pc' = "failed"
    BY <1>12 DEF DispatchFault
  <2> QED BY <1>1, <1>2, <1>3, <2>1 DEF dbVars
<1>13. CASE CommitAttempt
  BY <1>1, <1>13 DEF CommitAttempt, spoolVars
<1>14. CASE RollBack \/ UpdatePipelineState
  BY <1>1, <1>14 DEF RollBack, UpdatePipelineState, EndCycle
<1>15. CASE WriteDeadletter \/ DeadletterFault
  <2>1. /\ \/ db' = db
           \/ \E S \in SUBSET held : db' = [txn EXCEPT !.dead = @ \cup S]
        /\ txn' = db' /\ pc' \notin {"dispatch", "stored"}
    BY <1>15 DEF WriteDeadletter, DeadletterFault
  <2>2. Like(db', db) \/ Like(db', txn)
    BY <1>0, <1>1, <2>1 DEF Like, DatabaseFields
  <2> QED BY <2>1, <2>2
<1>16. CASE BrokerFlush \/ BrokerFault \/ BrokerRollBack
  <2>1. /\ \/ db' = db /\ txn' = txn
           \/ db' = db /\ txn' = Snapshot(txn)
           \/ db' = Snapshot(txn) /\ txn' = db'
           \/ txn' = db /\ db' = db
        /\ pc' = pc /\ pc # "dispatch" /\ held' = held
    BY <1>16 DEF BrokerFlush, BrokerFault, BrokerRollBack, LockFree, spoolVars,
       writerVars, dbVars
  <2>2. Like(Snapshot(txn), txn)
    BY <1>0, SnapshotOK DEF Like
  <2> QED BY <1>1, <2>1, <2>2
<1>17. CASE CloseAll
  BY <1>1, <1>17 DEF CloseAll, LockFree, Close, writerVars
<1>18. CASE ExitAndRestart \/ CrashAndRestart
  BY <1>1, <1>18 DEF ExitAndRestart, CrashAndRestart, Reborn
<1> QED
  BY <1>6, <1>7, <1>8, <1>9, <1>10, <1>11, <1>12, <1>13, <1>14, <1>15, <1>16,
     <1>17, <1>18 DEF Next, WriterStep

(* The rows that leave the queue in a step. *)
Leaving == (view.live \cup view.dropped) \ (view'.live \cup view'.dropped)

(* A row leaves the queue when its status is shown, or it is given up. *)
LEMMA LeavesShown ==
    ASSUME IngestorIInv, view = disk, StatusInOrder, [Next]_vars
    PROVE  /\ lost \subseteq lost'
           /\ \/ Leaving = {}
              \/ /\ UNCHANGED dbVars
                 /\ \A i \in Leaving :
                      \/ i \in db.dead /\ i \in txn.dead
                      \/ i \in lost
                      \/ Shown(db, i) /\ Shown(txn, i)
<1>0. /\ log \in Seq(Message) /\ view \in Tables /\ SpoolIInv
      /\ db.dead \subseteq txn.dead /\ BatchOK
  BY QueueFacts DEF IngestorIInv
<1>1. ASSUME NEW m \in Message, Receive(m)
      PROVE  Leaving = {} /\ lost' = lost
  BY <1>0, <1>1, EnqueueRows DEF Receive, Leaving
<1>2. ASSUME NEW ids \in SUBSET held, CommitBatch(ids)
      PROVE  Leaving \subseteq ids
  BY <1>0, <1>2 DEF CommitBatch, Release, Tables, Leaving
<1>3. CASE ReleaseSettings
  <2>1. Leaving \subseteq SettingsIds(held)
    BY <1>2, <1>3 DEF ReleaseSettings, SettingsIds
  <2>2. \A i \in Leaving : Shown(db, i) /\ Shown(txn, i)
    BY <2>1 DEF SettingsIds, Shown
  <2> QED BY <1>3, <2>2 DEF ReleaseSettings
<1>4. CASE ReleaseWritten
  <2>1. Leaving \subseteq held /\ pc = "stored" /\ UNCHANGED <<dbVars, lost>>
    BY <1>2, <1>4 DEF ReleaseWritten, historyVars
  <2> QED BY <2>1 DEF StatusInOrder
<1>5. CASE DiscardBatch
  <2>1. Leaving \subseteq held /\ pc = "discard" /\ UNCHANGED <<dbVars, lost>>
    BY <1>2, <1>5 DEF DiscardBatch, historyVars
  <2> QED BY <1>0, <2>1 DEF BatchOK
<1>6. Fetch => view' = view
  BY DEF Fetch, DequeueBatch
<1>7. view' = view => Leaving = {}
  BY DEF Leaving
<1>8. ASSUME ~ReleaseSettings, ~ReleaseWritten, ~DiscardBatch
      PROVE  Leaving = {}
  <2>1. (\E m \in Message : Receive(m)) \/ view' = view
    BY <1>6, <1>8, QueueStep
  <2> QED BY <1>1, <1>7, <2>1
<1>9. lost \subseteq lost'
  <2>1. CASE WriterStep
    <3>1. CASE DeadletterFault
      BY <3>1 DEF DeadletterFault
    <3>2. CASE ~DeadletterFault
      BY <2>1, <3>2
      DEF WriterStep, Fetch, WriteSettings, ReleaseSettings, BeginAttempt,
          DispatchEntry, DispatchRaises, DispatchCollides, DispatchFault,
          CommitAttempt, RollBack, ReleaseWritten, UpdatePipelineState,
          WriteDeadletter, DiscardBatch, historyVars
    <3> QED BY <3>1, <3>2
  <2>2. CASE BrokerFlush \/ BrokerFault \/ BrokerRollBack \/ Stop \/ CloseAll
    BY <2>2 DEF BrokerFlush, BrokerFault, BrokerRollBack, Stop, CloseAll, historyVars
  <2>3. CASE ExitAndRestart \/ CrashAndRestart \/ UNCHANGED vars
    BY <2>3 DEF ExitAndRestart, CrashAndRestart, Reborn, vars, historyVars
  <2> QED BY <1>1, <2>1, <2>2, <2>3 DEF Next
<1> QED BY <1>3, <1>4, <1>5, <1>8, <1>9

(* Status tables: a status is overwritten by newer ones only. *)
LEMMA StatusKept ==
    ASSUME IngestorIInv, QueueInOrder, BatchInOrder, StatusInOrder, [Next]_vars
    PROVE  StatusInOrder'
<1> DEFINE n == Len(log)
           FinalNext(t) == t.done \ (t.dead \cup lost' \cup view'.dropped \cup view'.live)
<1>0. /\ log \in Seq(Message) /\ n \in Nat /\ view = disk
      /\ held \in SUBSET (1 .. n) /\ todo \in SUBSET held
      /\ DatabaseUpTo(db, n) /\ DatabaseUpTo(txn, n)
      /\ held \subseteq view.live \cup view.dropped
  BY QueueFacts, DatabaseUpToLog
  DEF DatabaseFine, IngestorIInv, IngestorTypeOK, QueueInOrder
<1>1. \A i \in 1 .. n : log'[i] = log[i]
  BY RowsStay
<1>2. DatabaseUpTo(db', n) /\ DatabaseUpTo(txn', n)
  BY DatabaseStep DEF DatabaseAdvances
<1>3. /\ lost \subseteq lost'
      /\ \/ Leaving = {}
         \/ /\ UNCHANGED dbVars
            /\ \A i \in Leaving :
                 \/ i \in db.dead /\ i \in txn.dead
                 \/ i \in lost
                 \/ Shown(db, i) /\ Shown(txn, i)
  BY LeavesShown DEF QueueInOrder
(* A row whose status must be shown after the step had to be shown before, *)
(* or has just left the queue.                                             *)
<1>4. ASSUME NEW t \in {db, txn}, NEW u, Like(u, t), NEW i \in FinalNext(u),
             u = t \/ Leaving = {}
      PROVE  Shown(u, i)
  <2>1. i \in t.done /\ i \notin t.dead /\ i \notin lost
    BY <1>3, <1>4 DEF Like
  <2>2. CASE i \in Final(t)
    <3>1. Shown(t, i)
      BY <1>4, <2>2 DEF StatusInOrder
    <3> QED BY <1>4, <3>1 DEF Shown, Like
  <2>3. CASE i \notin Final(t)
    <3>1. i \in Leaving
      BY <1>4, <2>1, <2>3 DEF Final, Leaving
    <3> QED BY <1>3, <1>4, <2>1, <3>1
  <2> QED BY <2>2, <2>3
<1>5. /\ Like(db', db) \/ Like(db', txn)
      /\ DispatchEntry => Wrote(txn', txn, First(todo))
      /\ ~DispatchEntry =>
           /\ Like(txn', db) \/ Like(txn', txn)
           /\ pc = "dispatch" /\ pc' = "dispatch" => Like(txn', txn)
      /\ pc' = "stored" =>
           \/ CommitAttempt /\ db' = txn /\ txn' = txn /\ held' = held
           \/ pc = "stored" /\ held' = held /\ ~DispatchEntry
  BY StatusStep, Zenon
<1>6. \A i \in FinalNext(db') : Shown(db', i)
  <2>1. CASE Leaving = {}
    BY <1>4, <1>5, <2>1
  <2>2. CASE UNCHANGED dbVars
    <3>1. db' = db /\ Like(db', db)
      BY <2>2 DEF dbVars, Like
    <3> HIDE DEF FinalNext
    <3> QED BY <1>4, <3>1
  <2> QED BY <1>3, <2>1, <2>2
(* The statement of a handler: what it overwrites is older. *)
<1>7. ASSUME DispatchEntry, Wrote(txn', txn, First(todo)),
             NEW i \in (FinalNext(txn') \cap Final(txn)) \cup Handled \cup {First(todo)},
             i \in Handled => Shown(txn, i)
      PROVE  Shown(txn', i)
  <2> DEFINE x == First(todo)
             d == DeviceOf[log[x]]
  <2>1. /\ pc = "dispatch" /\ x \in todo /\ x \in held /\ x \in 1 .. n
        /\ x \in view.live \cup view.dropped
    BY <1>0, <1>7, FirstIn DEF DispatchEntry
  <2>2. d \in Device
    BY <1>0, <2>1, IngestorAssumption
  <2>3. i \in 1 .. n
    BY <1>0, <2>1 DEF Handled, Final, DatabaseUpTo
  <2>4. i # x => Shown(txn, i)
    BY <1>7 DEF StatusInOrder
  <2>5. ASSUME KindOf(i) = "status", KindOf(x) = "status"
        PROVE  i <= x
    <3>1. CASE i \in Handled
      <4>1. i < x
        BY <2>1, <3>1 DEF BatchInOrder
      <4> QED BY <2>1, <2>3, <4>1
    <3>2. CASE i \in Final(txn)
      <4>1. i \in Released(view)
        BY <2>3, <3>2 DEF Final, Released
      <4>2. ~(x < i)
        BY <2>1, <2>5, <4>1 DEF QueueInOrder, ReleasedInOrder
      <4> QED BY <2>1, <2>3, <4>2
    <3>3. CASE i = x
      BY <2>1, <3>3
    <3> QED BY <1>7, <3>1, <3>2, <3>3
  <2>6. txn.status \in [Device -> 0 .. n] /\ DeviceOf[log[i]] \in Device
    BY <1>0, <2>3, IngestorAssumption DEF DatabaseUpTo
  <2> HIDE DEF x, n
  <2> SUFFICES ASSUME KindOf(i) = "status"
               PROVE  txn'.status[DeviceOf[log[i]]] >= i
    BY DEF Shown
  <2>7. CASE KindOf(x) = "status"
    <3>1. txn'.status = [txn.status EXCEPT ![d] = x]
      BY <1>7, <2>7 DEF Wrote, x
    <3>2. CASE DeviceOf[log[i]] = d
      <4>1. txn'.status[DeviceOf[log[i]]] = x
        BY <2>2, <2>6, <3>1, <3>2
      <4>2. i <= x /\ i \in Int /\ x \in Int
        BY <1>0, <2>1, <2>3, <2>5, <2>7 DEF n
      <4> QED BY <4>1, <4>2
    <3>3. CASE DeviceOf[log[i]] # d
      <4>1. txn'.status[DeviceOf[log[i]]] = txn.status[DeviceOf[log[i]]] /\ i # x
        BY <2>6, <3>1, <3>3
      <4> QED BY <2>4, <4>1 DEF Shown
    <3> QED BY <3>2, <3>3
  <2>8. CASE KindOf(x) # "status"
    <3>1. txn'.status = txn.status /\ i # x
      BY <1>7, <2>8 DEF Wrote, x
    <3> QED BY <2>4, <3>1 DEF Shown
  <2> QED BY <2>7, <2>8
<1>8. DispatchEntry => Leaving = {}
  BY DEF DispatchEntry, spoolVars, Leaving
<1>9. \A i \in FinalNext(txn') : Shown(txn', i)
  <2>1. CASE Leaving = {} /\ (Like(txn', db) \/ Like(txn', txn))
    BY <1>4, <2>1
  <2>2. CASE UNCHANGED dbVars
    <3>1. txn' = txn /\ Like(txn', txn)
      BY <2>2 DEF dbVars, Like
    <3> HIDE DEF FinalNext
    <3> QED BY <1>4, <3>1
  <2>3. CASE DispatchEntry /\ Wrote(txn', txn, First(todo))
    <3>1. view' = view /\ lost' = lost /\ pc = "dispatch"
      BY <2>3 DEF DispatchEntry, spoolVars, historyVars
    <3>2. ASSUME NEW i \in FinalNext(txn')
          PROVE  i = First(todo) \/ i \in Final(txn)
      BY <2>3, <3>1, <3>2 DEF Final, Wrote
    <3>3. \A i \in Handled : Shown(txn, i)
      BY <3>1 DEF StatusInOrder
    <3> HIDE DEF FinalNext
    <3> QED BY <1>7, <2>3, <3>2, <3>3
  <2> QED BY <1>3, <1>5, <1>8, <2>1, <2>2, <2>3
(* What the current attempt has stored. *)
<1>10. ASSUME pc' = "dispatch"
       PROVE  \A i \in Handled' : i \in 1 .. n /\ Shown(txn', i)
  <2>1. CASE Fetch \/ BeginAttempt
    <3>1. Handled' = {}
      BY <2>1, BatchKept
    <3> QED BY <3>1
  <2>2. CASE ~Fetch /\ ~BeginAttempt
    <3>1. /\ pc = "dispatch"
          /\ \/ Handled' = Handled /\ todo' = todo
             \/ /\ WriteSettings \/ DispatchEntry
                /\ todo # {} /\ First(todo) \in todo
                /\ Handled' = Handled \cup {First(todo)}
                /\ todo' = todo \ {First(todo)}
      BY <1>10, <2>2, BatchKept, Zenon
    <3>2. \A i \in Handled : i \in 1 .. n /\ Shown(txn, i)
      BY <1>0, <3>1 DEF Handled, StatusInOrder
    <3>3. ~WriteSettings
      BY <3>1 DEF WriteSettings
    <3>4. CASE DispatchEntry
      <4>1. todo' # todo /\ First(todo) \in 1 .. n
        BY <1>0, <3>4, FirstIn DEF DispatchEntry
      <4>2. Handled' = Handled \cup {First(todo)}
        BY <3>1, <4>1
      <4>3. Wrote(txn', txn, First(todo))
        BY <1>5, <3>4
      <4> QED BY <1>7, <3>2, <3>4, <4>1, <4>2, <4>3
    <3>5. CASE ~DispatchEntry
      <4>1. Handled' = Handled /\ Like(txn', txn)
        BY <1>5, <1>10, <3>1, <3>3, <3>5
      <4> QED BY <3>2, <4>1 DEF Like, Shown
    <3> QED BY <3>4, <3>5
  <2> QED BY <2>1, <2>2
<1>11. ASSUME pc' = "stored"
       PROVE  \A i \in held' : i \in 1 .. n /\ Shown(db', i) /\ Shown(txn', i)
  <2>1. CASE CommitAttempt /\ db' = txn /\ txn' = txn /\ held' = held
    <3>1. Handled = held /\ pc = "dispatch"
      BY <1>0, <2>1 DEF CommitAttempt, Handled
    <3> QED BY <1>0, <2>1, <3>1 DEF StatusInOrder
  <2>2. CASE pc = "stored" /\ held' = held /\ ~DispatchEntry
    <3>1. \A i \in held' : i \in 1 .. n /\ Shown(db, i) /\ Shown(txn, i)
      BY <1>0, <2>2 DEF StatusInOrder
    <3>2. /\ Like(db', db) \/ Like(db', txn)
          /\ Like(txn', db) \/ Like(txn', txn)
      BY <1>5, <2>2
    <3> QED BY <3>1, <3>2 DEF Like, Shown
  <2> QED BY <1>5, <1>11, <2>1, <2>2
<1>12. ASSUME NEW i \in 1 .. n
       PROVE  (Shown(db, i)' <=> Shown(db', i)) /\ (Shown(txn, i)' <=> Shown(txn', i))
  BY <1>1 DEF Shown, KindOf
<1>13. /\ \A i \in Final(db)' : i \in FinalNext(db') /\ i \in 1 .. n
       /\ \A i \in Final(txn)' : i \in FinalNext(txn') /\ i \in 1 .. n
  BY <1>2 DEF Final, DatabaseUpTo
<1> HIDE DEF FinalNext
<1>14. (\A i \in Final(db) : Shown(db, i))'
  BY <1>6, <1>12, <1>13
<1>15. (\A i \in Final(txn) : Shown(txn, i))'
  BY <1>9, <1>12, <1>13
<1>16. (pc = "dispatch" => \A i \in Handled : Shown(txn, i))'
  BY <1>10, <1>12
<1>17. (pc = "stored" => \A i \in held : Shown(db, i) /\ Shown(txn, i))'
  BY <1>11, <1>12
<1> QED BY <1>14, <1>15, <1>16, <1>17 DEF StatusInOrder

(* A fresh ingestor is in order. *)
LEMMA InitOrder == Init => OrderIInv
<1> SUFFICES ASSUME Init
             PROVE  OrderIInv
  OBVIOUS
<1>1. /\ log = << >> /\ Len(log) = 0 /\ view = EmptyTables /\ disk = EmptyTables
      /\ held = {} /\ todo = {} /\ pc = "idle" /\ filed = {}
      /\ db = EmptyDb /\ txn = EmptyDb
  BY DEF Init, SpoolInit
<1>2. view.live = {} /\ view.dropped = {} /\ db.done = {} /\ txn.done = {}
  BY <1>1 DEF EmptyTables, EmptyDb
<1>3. QueueInOrder
  BY <1>1, <1>2 DEF QueueInOrder, HeldIsOldest, ReleasedInOrder
<1>4. BatchInOrder
  BY <1>1 DEF BatchInOrder
<1>5. StatusInOrder
  BY <1>1, <1>2 DEF StatusInOrder, Final
<1>6. FilesInOrder
  BY <1>1 DEF FilesInOrder
<1> QED BY <1>3, <1>4, <1>5, <1>6 DEF OrderIInv

(* With room for every event the spool never has uncommitted deletions,    *)
(* so that no rollback, close or crash changes what the writer works on,   *)
(* and rows leave the spool in the order they arrived in, but for settings *)
(* entries, which leave ahead of the rest of their batch.                  *)
Order == Roomy => OrderIInv

(* Order, for any messages, sizes, retries, crashes and restarts: rows     *)
(* reach db_writer in the order the spool took them in.                    *)
THEOREM RowsInOrder == Spec => []Order
<1>1. Init => Order
  BY InitOrder DEF Order
<1>2. IngestorIInv /\ Order /\ [Next]_vars => Order'
  <2> SUFFICES ASSUME IngestorIInv, OrderIInv, Roomy, [Next]_vars
               PROVE  OrderIInv'
    BY DEF Order, Roomy, MakesRoom, EventBytes
  <2> QED
    BY QueueKept, BatchKept, StatusKept, FilesKept DEF OrderIInv
<1> QED
  BY <1>1, <1>2, IngestorInvariant, PTL DEF Spec

(* A device ends up with the newest of what it sent, in the tables of      *)
(* latest values and in its settings file, for any messages and sizes,     *)
(* through retries, replays after a crash and rows dropped on the way.     *)
THEOREM NewestShown == Spec => []NewestWins
<1>1. IngestorIInv /\ Order => NewestWins
  <2> SUFFICES ASSUME IngestorIInv, OrderIInv, view.live = {}, pc = "idle"
               PROVE  /\ \A i \in db.done \ (db.dead \cup lost \cup view.dropped) :
                           KindOf(i) = "status" => db.status[DeviceOf[log[i]]] >= i
                      /\ faults = 0 =>
                           \A i \in filed : files[DeviceOf[log[i]]] >= i
    BY DEF Order, Roomy, NewestWins, LastWriteWins, LastSettingsWin
  <2>1. \A i \in db.done \ (db.dead \cup lost \cup view.dropped) : Shown(db, i)
    BY DEF OrderIInv, StatusInOrder, Final
  <2> QED
    BY <2>1 DEF OrderIInv, FilesInOrder, OnFile, Shown
<1> QED
  BY <1>1, RowsInOrder, IngestorInvariant, PTL
=============================================================================
