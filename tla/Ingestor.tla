------------------------------ MODULE Ingestor ------------------------------
(***************************************************************************)
(* The MQTT ingestor process: Spool, the writer loop of pipeline.py, the   *)
(* DbWriter of db.py with the one SQL Server connection it shares with the *)
(* broker-flush thread, the SettingsWriter, shutdown, crashes and restarts *)
(* (roles/mqtt_ingestor/files/app/ingestor/).                              *)
(*                                                                         *)
(* Threads: the MQTT thread enqueues; the writer takes a batch, writes it, *)
(* retries, dead-letters and releases it; the broker-flush thread inserts  *)
(* broker snapshots; the main thread shuts down.  The connection lock is   *)
(* held for a whole attempt of the writer, here exactly while              *)
(* pc = "dispatch"; it is free during a back-off and between an error and  *)
(* its rollback, the writer's or the broker thread's.                      *)
(*                                                                         *)
(* db is the committed SQL Server database, txn the same database as the   *)
(* shared connection sees it, with the statements not yet committed.       *)
(***************************************************************************)
EXTENDS Spool, Bags

CONSTANTS Device,            \* (customer, location, machine name) triples
          Kind,              \* what a message's topic and payload ask for
          DeviceOf,          \* the triple in its topic
          SerialOf,          \* the serial in its payload, or NoSerial
          Placeholder,       \* the serial a device without one is given
          NoSerial, Absent,
          BatchSize, DrainSize,
          MaxRetries,
          DeadletterTries,
          DeadletterEnabled,
          MaxFaults,         \* bound: database or file errors
          MaxRestarts        \* bound: crashes and shutdowns

(* "rejected" ends before the device is resolved (short topic, serial that *)
(* is a machine name, allowlist), "unmapped" after it without a statement  *)
(* (no table, no payload, retained status); "status" stands for every      *)
(* MERGE of the latest value, "itemlog" for the append-only INSERT;        *)
(* "malformed" makes a handler raise something other than pyodbc.Error.    *)
Kinds == {"settings", "rejected", "unmapped", "status", "itemlog", "malformed"}

ASSUME IngestorAssumption ==
    /\ Kind \in [Message -> Kinds]
    /\ DeviceOf \in [Message -> Device]
    /\ Absent \notin {SerialOf[m] : m \in Message}
    /\ \A d \in Device : Placeholder[d] \notin {Absent, NoSerial}
    /\ BatchSize \in BatchSizes \ {0} /\ DrainSize \in BatchSizes \ {0}
    /\ MaxRetries \in Nat /\ DeadletterTries \in Nat \ {0}
    /\ DeadletterEnabled \in BOOLEAN
    /\ MaxFaults \in Nat /\ MaxRestarts \in Nat

VARIABLES pc,        \* where the writer thread is
          todo,      \* ids of the batch still to handle in this pass over it
          attempt,   \* failed attempts so far
          draining,  \* the writer is in its final pass
          db, txn,   \* the database committed, and as the connection sees it
          files,     \* per device, the id whose settings are on file (0 none)
          brokerPc,  \* the broker-flush thread: "ready" or "failed"
          phase,     \* the main thread: "run", "stopping", "closed"
          filed,     \* history: ids the SettingsWriter dealt with
          lost,      \* history: ids given up after the last dead-letter try
          failures,  \* history: per id, attempts that failed with it
          faults, restarts

dbVars == <<db, txn>>
writerVars == <<pc, todo, attempt, draining>>
historyVars == <<filed, lost, failures>>
vars == <<spoolVars, writerVars, dbVars, files, brokerPc, phase, historyVars,
          faults, restarts>>
-----------------------------------------------------------------------------
KindOf(i) == Kind[log[i]]
SettingsIds(S) == {i \in S : KindOf(i) = "settings"}
DbIds(S) == S \ SettingsIds(S)

BadFirst(S) == CHOOSE i \in S : \A j \in S : i >= j  \* mutant: newest first

(* A batch is handled in the order of its ids. *)
First(S) == CHOOSE i \in S : \A j \in S : i <= j

LockFree == pc # "dispatch"

(* done is history: the ids whose handler has run in a transaction.  stats *)
(* is the number of broker snapshots, modulo 2: at most one is uncommitted.*)
EmptyDb ==
    [devices |-> [d \in Device |-> Absent], status |-> [d \in Device |-> 0],
     itemlog |-> EmptyBag, done |-> {}, dead |-> {}, stats |-> 0]

(* _INSERT_BROKER_STATS *)
Snapshot(t) == [t EXCEPT !.stats = 1 - @]

(* _resolve_device: the serial it writes for message m, and whether it has *)
(* to write one (registration, or upgrade of a placeholder).               *)
SerialFor(m) ==
    IF SerialOf[m] = NoSerial THEN Placeholder[DeviceOf[m]] ELSE SerialOf[m]

WritesSerial(m) ==
    LET known == txn.devices[DeviceOf[m]]
    IN  \/ known = Absent
        \/ known = Placeholder[DeviceOf[m]] /\ SerialOf[m] # NoSerial

(* UQ_devices_serial *)
SerialTaken(m) ==
    \E d \in Device \ {DeviceOf[m]} : txn.devices[d] = SerialFor(m)

Resolved(m) == [txn EXCEPT !.devices[DeviceOf[m]] = SerialFor(m)]

(* Row i makes _resolve_device write, and the write is accepted or not. *)
Registers(i) ==
    KindOf(i) # "rejected" /\ WritesSerial(log[i]) /\ ~SerialTaken(log[i])
Collides(i) ==
    KindOf(i) # "rejected" /\ WritesSerial(log[i]) /\ SerialTaken(log[i])

(* The statement of the handler of row i. *)
Handle(t, i) ==
    CASE KindOf(i) = "status" ->
           [t EXCEPT !.status[DeviceOf[log[i]]] = i, !.done = @ \cup {i}]
      [] KindOf(i) = "itemlog" ->
           [t EXCEPT !.itemlog = @ (+) SetToBag({i}), !.done = @ \cup {i}]
      [] OTHER -> [t EXCEPT !.done = @ \cup {i}]

Fault == faults < MaxFaults /\ faults' = faults + 1

(* The batch in the writer's hands fails as a whole. *)
CountFailure ==
    failures' = [i \in DOMAIN failures |->
                    IF i \in held THEN failures[i] + 1 ELSE failures[i]]
-----------------------------------------------------------------------------
Init ==
    /\ SpoolInit
    /\ pc = "idle" /\ todo = {} /\ attempt = 0 /\ draining = FALSE
    /\ db = EmptyDb /\ txn = EmptyDb
    /\ files = [d \in Device |-> 0]
    /\ brokerPc = "ready" /\ phase = "run"
    /\ filed = {} /\ lost = {} /\ failures = << >>
    /\ faults = 0 /\ restarts = 0

(* MQTT thread: on_message spools the event.  It runs until mqtt.stop().   *)
Receive(m) ==
    /\ phase # "closed"
    /\ Enqueue(m)
    /\ failures' = IF log' = log THEN failures ELSE Append(failures, 0)
    /\ UNCHANGED <<writerVars, dbVars, files, brokerPc, phase, filed, lost,
                   faults, restarts>>
-----------------------------------------------------------------------------
(* Writer thread.                                                          *)

(* A cycle is over: the writer waits for the next one, or ends for good.   *)
EndCycle ==
    /\ pc' = IF draining' THEN "halt" ELSE "idle"
    /\ todo' = {} /\ attempt' = 0

(* Top of the loop, or of the final pass once the stop event is set. *)
Fetch ==
    /\ pc = "idle"
    /\ draining' = (phase # "run")
    /\ DequeueBatch(IF phase = "run" THEN BatchSize ELSE DrainSize)
    /\ todo' = SettingsIds(held') /\ UNCHANGED attempt
    /\ \/ held' = {} /\ phase # "run" /\ pc' = "halt"
       \/ todo' # {} /\ pc' = "settings"
       \/ held' # {} /\ todo' = {} /\ pc' = "waiting"
    /\ UNCHANGED <<dbVars, files, brokerPc, phase, historyVars, faults, restarts>>

(* SettingsWriter.write_batch: one file per entry, in order; an entry that *)
(* cannot be written is skipped and still counts as processed.             *)
WriteSettings ==
    /\ pc = "settings" /\ todo # {}
    /\ LET i == First(todo)
       IN  /\ todo' = todo \ {i}
           /\ \/ files' = [files EXCEPT ![DeviceOf[log[i]]] = i]
                 /\ UNCHANGED faults
              \/ Fault /\ UNCHANGED files
    /\ UNCHANGED <<spoolVars, pc, attempt, draining, dbVars, brokerPc, phase,
                   historyVars, restarts>>

BadReleaseSettings ==  \* mutant: the whole batch is removed, not its settings
    /\ pc = "settings" /\ todo = {}
    /\ CommitBatch(held)
    /\ filed' = filed \cup SettingsIds(held)
    /\ UNCHANGED draining
    /\ EndCycle
    /\ UNCHANGED <<dbVars, files, brokerPc, phase, lost, failures, faults,
                   restarts>>

ReleaseSettings ==
    /\ pc = "settings" /\ todo = {}
    /\ CommitBatch(SettingsIds(held))
    /\ filed' = filed \cup SettingsIds(held)
    /\ UNCHANGED draining
    /\ IF held' = {} THEN EndCycle ELSE pc' = "waiting" /\ UNCHANGED <<todo, attempt>>
    /\ UNCHANGED <<dbVars, files, brokerPc, phase, lost, failures, faults,
                   restarts>>

(* The writer takes the connection lock for an attempt at the whole batch. *)
BeginAttempt ==
    /\ pc = "waiting"
    /\ pc' = "dispatch" /\ todo' = held
    /\ UNCHANGED <<spoolVars, attempt, draining, dbVars, files, brokerPc, phase,
                   historyVars, faults, restarts>>

(* One entry of an attempt.  Registering a device or upgrading its serial  *)
(* commits the connection, and with it whatever the attempt did before.    *)
DispatchEntry ==
    /\ pc = "dispatch" /\ todo # {}
    /\ LET i == First(todo)
       IN  /\ KindOf(i) # "malformed" /\ ~Collides(i)
           /\ todo' = todo \ {i}
           /\ IF Registers(i)
              THEN db' = Resolved(log[i]) /\ txn' = Handle(Resolved(log[i]), i)
              ELSE UNCHANGED db /\ txn' = Handle(txn, i)
    /\ UNCHANGED <<spoolVars, pc, attempt, draining, files, brokerPc, phase,
                   historyVars, faults, restarts>>

(* The malformed entry: the exception is not a pyodbc.Error, so it leaves  *)
(* write_batch with the lock released and the transaction still open, and  *)
(* the writer loop logs it and goes on to its next cycle.                  *)
DispatchRaises ==
    /\ pc = "dispatch" /\ todo # {}
    /\ LET i == First(todo)
       IN  /\ KindOf(i) = "malformed" /\ ~Collides(i)
           /\ IF Registers(i)
              THEN db' = Resolved(log[i]) /\ txn' = db'
              ELSE UNCHANGED dbVars
    /\ UNCHANGED draining
    /\ EndCycle
    /\ CountFailure
    /\ UNCHANGED <<spoolVars, files, brokerPc, phase, filed, lost, faults,
                   restarts>>

(* UQ_devices_serial rejects the registration or the upgrade. *)
DispatchCollides ==
    /\ pc = "dispatch" /\ todo # {}
    /\ Collides(First(todo))
    /\ pc' = "failed"
    /\ CountFailure
    /\ UNCHANGED <<spoolVars, todo, attempt, draining, dbVars, files, brokerPc,
                   phase, filed, lost, faults, restarts>>

(* Any statement, the connect or a commit raises pyodbc.Error.  The server *)
(* may have kept the open transaction, rolled it back, or done the commit  *)
(* whose answer was lost.                                                  *)
DispatchFault ==
    /\ pc = "dispatch" /\ Fault
    /\ pc' = "failed"
    /\ \/ UNCHANGED dbVars
       \/ txn' = db /\ UNCHANGED db
       \/ todo = {} /\ db' = txn /\ UNCHANGED txn
       \/ /\ todo # {} /\ Registers(First(todo))
          /\ db' = Resolved(log[First(todo)]) /\ txn' = db'
    /\ CountFailure
    /\ UNCHANGED <<spoolVars, todo, attempt, draining, files, brokerPc, phase,
                   filed, lost, restarts>>

CommitAttempt ==
    /\ pc = "dispatch" /\ todo = {}
    /\ db' = txn /\ UNCHANGED txn
    /\ pc' = "stored"
    /\ UNCHANGED <<spoolVars, todo, attempt, draining, files, brokerPc, phase,
                   historyVars, faults, restarts>>

BadRollBackOnceMore ==  \* mutant: one retry too many
    /\ pc = "failed" /\ attempt <= MaxRetries
    /\ txn' = db /\ attempt' = attempt + 1 /\ pc' = "waiting" /\ todo' = {}
    /\ UNCHANGED <<spoolVars, draining, db, files, brokerPc, phase, historyVars,
                   faults, restarts>>

BadRollBackNot ==  \* mutant: the retry goes on in the same transaction
    /\ pc = "failed" /\ attempt < MaxRetries
    /\ attempt' = attempt + 1 /\ pc' = "waiting" /\ todo' = {}
    /\ UNCHANGED <<spoolVars, draining, dbVars, files, brokerPc, phase,
                   historyVars, faults, restarts>>

BadRollBackDiscards ==  \* mutant: an exhausted batch is removed, not dead-lettered
    /\ pc = "failed"
    /\ txn' = db /\ pc' = "discard" /\ todo' = {}
    /\ UNCHANGED <<spoolVars, attempt, draining, db, files, brokerPc, phase,
                   historyVars, faults, restarts>>

BadRollBackHalts ==  \* mutant: giving a batch up ends the writer thread
    /\ pc = "failed"
    /\ txn' = db /\ todo' = {}
    /\ \/ attempt < MaxRetries /\ attempt' = attempt + 1 /\ pc' = "waiting"
       \/ attempt = MaxRetries /\ attempt' = 0 /\ pc' = "halt"
    /\ UNCHANGED <<spoolVars, draining, db, files, brokerPc, phase, historyVars,
                   faults, restarts>>

(* except pyodbc.Error: rollback and close under the lock taken anew, then *)
(* back off and retry, or give the batch up.                               *)
RollBack ==
    /\ pc = "failed"
    /\ txn' = db /\ UNCHANGED db
    /\ UNCHANGED draining
    /\ \/ /\ attempt < MaxRetries
          /\ attempt' = attempt + 1
          /\ pc' = "waiting" /\ todo' = {}
       \/ /\ attempt = MaxRetries /\ DeadletterEnabled
          /\ pc' = "deadletter" /\ todo' = {} /\ attempt' = 0
       \/ attempt = MaxRetries /\ ~DeadletterEnabled /\ EndCycle
    /\ UNCHANGED <<spoolVars, files, brokerPc, phase, historyVars, faults,
                   restarts>>

BadReleaseWritten ==  \* mutant: the newest id is left out
    /\ pc = "stored"
    /\ CommitBatch(held \ {BadFirst(held)})
    /\ UNCHANGED draining
    /\ EndCycle
    /\ UNCHANGED <<dbVars, files, brokerPc, phase, historyVars, faults, restarts>>

ReleaseWritten ==
    /\ pc = "stored"
    /\ CommitBatch(held)
    /\ UNCHANGED draining
    /\ IF draining THEN EndCycle ELSE pc' = "state" /\ UNCHANGED <<todo, attempt>>
    /\ UNCHANGED <<dbVars, files, brokerPc, phase, historyVars, faults,
                   restarts>>

(* update_pipeline_state commits the connection, or gives up and closes it. *)
UpdatePipelineState ==
    /\ pc = "state"
    /\ \/ db' = txn /\ UNCHANGED txn
       \/ txn' = db /\ UNCHANGED db
    /\ UNCHANGED draining
    /\ EndCycle
    /\ UNCHANGED <<spoolVars, files, brokerPc, phase, historyVars, faults,
                   restarts>>

WriteDeadletter ==
    /\ pc = "deadletter"
    /\ db' = [txn EXCEPT !.dead = @ \cup held]
    /\ txn' = db'
    /\ pc' = "discard"
    /\ UNCHANGED <<spoolVars, todo, attempt, draining, files, brokerPc, phase,
                   historyVars, faults, restarts>>

(* A failed dead-letter try closes the connection, under the lock taken    *)
(* anew and without a rollback: the rows S it had inserted may have been   *)
(* committed, by itself or by the broker thread in between.  After the     *)
(* last try write_deadletter returns as if it had succeeded.               *)
DeadletterFault ==
    /\ pc = "deadletter" /\ Fault
    /\ \/ UNCHANGED db
       \/ \E S \in SUBSET held : db' = [txn EXCEPT !.dead = @ \cup S]
    /\ txn' = db'
    /\ attempt' = attempt + 1
    /\ IF attempt' = DeadletterTries
       THEN pc' = "discard" /\ lost' = lost \cup held
       ELSE UNCHANGED <<pc, lost>>
    /\ UNCHANGED <<spoolVars, todo, draining, files, brokerPc, phase, filed,
                   failures, restarts>>

(* "Remove from spool regardless". *)
DiscardBatch ==
    /\ pc = "discard"
    /\ CommitBatch(held)
    /\ UNCHANGED draining
    /\ EndCycle
    /\ UNCHANGED <<dbVars, files, brokerPc, phase, historyVars, faults, restarts>>
-----------------------------------------------------------------------------
(* Broker-flush thread: insert a snapshot and commit, which also commits   *)
(* what an attempt of the writer that failed a moment ago has left open.   *)
BrokerFlush ==
    /\ brokerPc = "ready" /\ LockFree
    /\ db' = Snapshot(txn) /\ txn' = db'
    /\ UNCHANGED <<spoolVars, writerVars, files, brokerPc, phase, historyVars,
                   faults, restarts>>

(* The connect, the INSERT or its commit raises pyodbc.Error: nothing was  *)
(* done, the INSERT is open in the shared transaction, the server rolled   *)
(* it back, or did the commit whose answer was lost.  The lock is free     *)
(* until the rollback takes it anew.                                       *)
BrokerFault ==
    /\ brokerPc = "ready" /\ LockFree /\ Fault
    /\ \/ UNCHANGED dbVars
       \/ txn' = Snapshot(txn) /\ UNCHANGED db
       \/ txn' = db /\ UNCHANGED db
       \/ db' = Snapshot(txn) /\ txn' = db'
    /\ brokerPc' = "failed"
    /\ UNCHANGED <<spoolVars, writerVars, files, phase, historyVars, restarts>>

BrokerRollBack ==
    /\ brokerPc = "failed" /\ LockFree
    /\ txn' = db /\ UNCHANGED db
    /\ brokerPc' = "ready"
    /\ UNCHANGED <<spoolVars, writerVars, files, phase, historyVars, faults,
                   restarts>>
-----------------------------------------------------------------------------
(* Main thread, and the death of the process.                              *)

Stop ==
    /\ phase = "run" /\ restarts < MaxRestarts
    /\ phase' = "stopping" /\ restarts' = restarts + 1
    /\ UNCHANGED <<spoolVars, writerVars, dbVars, files, brokerPc, historyVars,
                   faults>>

(* run() after mqtt.stop() and joins that may have timed out: the writer   *)
(* can still be at work when both connections are closed under it.         *)
CloseAll ==
    /\ phase = "stopping" /\ LockFree
    /\ phase' = "closed"
    /\ Close
    /\ txn' = db /\ UNCHANGED db
    /\ UNCHANGED <<writerVars, files, brokerPc, historyVars, faults, restarts>>

Reborn ==
    /\ Crash
    /\ txn' = db /\ UNCHANGED db
    /\ pc' = "idle" /\ todo' = {} /\ attempt' = 0 /\ draining' = FALSE
    /\ brokerPc' = "ready" /\ phase' = "run"
    /\ CountFailure
    /\ UNCHANGED <<files, filed, lost, faults>>

ExitAndRestart == phase = "closed" /\ Reborn /\ UNCHANGED restarts

CrashAndRestart ==
    /\ restarts < MaxRestarts /\ restarts' = restarts + 1
    /\ Reborn

WriterStep ==
    \/ Fetch \/ WriteSettings \/ ReleaseSettings \/ BeginAttempt
    \/ DispatchEntry \/ DispatchRaises \/ DispatchCollides \/ DispatchFault
    \/ CommitAttempt \/ RollBack \/ ReleaseWritten \/ UpdatePipelineState
    \/ WriteDeadletter \/ DeadletterFault \/ DiscardBatch

Next ==
    \/ \E m \in Message : Receive(m)
    \/ WriterStep
    \/ BrokerFlush \/ BrokerFault \/ BrokerRollBack
    \/ Stop \/ CloseAll \/ ExitAndRestart \/ CrashAndRestart

Spec == Init /\ [][Next]_vars

(* The threads keep being scheduled, the joins of run() time out and the   *)
(* container is restarted; the broker thread, the signals and the failures *)
(* owe nothing.                                                            *)
Fairness ==
    /\ WF_vars(WriterStep)
    /\ WF_vars(CloseAll)
    /\ WF_vars(ExitAndRestart)

FairSpec == Spec /\ Fairness
-----------------------------------------------------------------------------
(* Rows whose message has an end the code accounts for. *)
Settled == db.done \cup db.dead \cup filed \cup lost

DatabaseOK(t) ==
    /\ t.devices \in [Device -> {Absent} \cup {SerialFor(m) : m \in Message}]
    /\ t.status \in [Device -> 0 .. Len(log)]
    /\ IsABag(t.itemlog)
    /\ t.stats \in {0, 1}
    /\ t.done \cup t.dead \cup BagToSet(t.itemlog) \subseteq 1 .. Len(log)

(* Type invariant of the ingestor; the attempt counter stays within the    *)
(* configured retries.                                                     *)
IngestorTypeOK ==
    /\ pc \in {"idle", "settings", "waiting", "dispatch", "failed", "stored",
               "state", "deadletter", "discard", "halt"}
    /\ todo \subseteq held
    /\ attempt \in 0 .. (IF pc \in {"deadletter", "discard"}
                         THEN DeadletterTries ELSE MaxRetries)
    /\ draining \in BOOLEAN
    /\ DatabaseOK(db) /\ DatabaseOK(txn)
    /\ files \in [Device -> 0 .. Len(log)]
    /\ brokerPc \in {"ready", "failed"} /\ phase \in {"run", "stopping", "closed"}
    /\ filed \cup lost \subseteq 1 .. Len(log)
    /\ failures \in [1 .. Len(log) -> Nat]
    /\ faults \in 0 .. MaxFaults /\ restarts \in 0 .. MaxRestarts

(* No row leaves the spool before its message has an end in the committed  *)
(* database or in a file, or write_deadletter said it is permanently lost: *)
(* the writer releases what it dequeued long ago, after retries, rollbacks *)
(* and lost answers, while the connection is shared with another thread.   *)
NeverSilentlyLost == Released(view) \subseteq Settled

(* At-least-once, and duplicates have a cause: a scan statistic is stored  *)
(* at most once more than attempts at it failed (with an error, a crash or *)
(* a restart).  A commit in mid-batch, or one by the broker thread, makes  *)
(* the rows of a failed attempt permanent, and the retry adds them again.  *)
DuplicatesNeedFailures ==
    \A i \in BagToSet(txn.itemlog) : txn.itemlog[i] <= 1 + failures[i]

(* An attempt starts with nothing of an earlier attempt open: what its     *)
(* commits make permanent is what it did itself, and at most the one       *)
(* snapshot whose commit failed, while the broker thread waits for the     *)
(* lock to roll it back.  Not so once a handler raised (the entry          *)
(* "malformed"): that path of write_batch has no rollback.                 *)
AttemptStartsClean ==
    (\A i \in 1 .. Len(log) : KindOf(i) # "malformed") =>
        (pc = "dispatch" /\ todo = held =>
            \/ txn = db
            \/ txn = Snapshot(db) /\ brokerPc = "failed")

(* Once the backlog is empty a device shows its newest status: retries and *)
(* replays after a crash write older statuses again, but never last.  The  *)
(* newest one stored may only be missing if its batch was given up or the  *)
(* row was dropped, half-committed, before the batch was repeated.         *)
LastWriteWins ==
    view.live = {} /\ pc = "idle" =>
        \A i \in db.done \ (db.dead \cup lost \cup view.dropped) :
            KindOf(i) = "status" => db.status[DeviceOf[log[i]]] >= i

(* The same for the settings file of a device, when no file error occurred *)
(* (a settings entry that cannot be written is dropped).                   *)
LastSettingsWin ==
    view.live = {} /\ pc = "idle" /\ faults = 0 =>
        \A i \in filed : files[DeviceOf[log[i]]] >= i

(* Whatever arrives, the passes of a drop make room for it: no enqueue     *)
(* deletes rows in vain and leaves the deletions uncommitted.              *)
MakesRoom ==
    \A m \in Message :
        EventBytes(m) <= MaxBytes
        /\ EventBytes(m) <= DropPasses * ScanLimit * RowOverhead

(* What a device shows last is the newest of what it sent, in the tables   *)
(* of latest values and in its settings file, through retries, replays     *)
(* after a crash, and rows dropped on the way.  Not so when an event that  *)
(* never fits has rows dropped in vain and spool.close() brings them back  *)
(* while the writer holds newer ones: those are stored first.              *)
NewestWins == (DropOldest => MakesRoom) => LastWriteWins /\ LastSettingsWin

(* The pipeline implements the promise of Delivery: the spool is the       *)
(* queue, what has an end is settled.  Every handler, error path, crash    *)
(* and restart is a step of the promise or invisible to it.                *)
Promise == INSTANCE Delivery WITH
    Sheds <- DropOldest, accepted <- Len(log), queue <- view.live,
    shed <- view.dropped, settled <- Settled

DeliveryKept == Promise!DeliverySpec

(* Every message accepted is settled and off the spool in the end, or      *)
(* dropped by policy, provided no handler raises: a batch that cannot be   *)
(* stored (a serial taken by another device) is dead-lettered and does not *)
(* block the ones behind it, and what a crash interrupts is taken up again.*)
RowSettled(i) == i \notin view.live /\ i \in Settled \cup view.dropped
EventuallySettled(i) == i \in view.live ~> RowSettled(i)

(* pipeline.py:219 says of the batch it removes from the spool that "they  *)
(* have been dead-lettered"; write_deadletter returns in the same way when *)
(* all its tries failed.                                                   *)
ReleasedIsOnRecord == Released(view) \subseteq db.done \cup db.dead \cup filed

(* README.md:184 describes the dead-letter table as "messages that failed  *)
(* every retry": none of them should be in the tables as well.  A          *)
(* registration in mid-batch commits the entries before it for good.       *)
DeadlettersNotStored == \A i \in db.dead : i \notin db.done

(* README.md:176: devices are keyed by customer, location and machine      *)
(* name, "so the key is the triple".  Then without failures every device   *)
(* that sent telemetry gets registered; placeholders that name only the    *)
(* machine and the location collide.                                       *)
EveryTripleRegistered ==
    faults = 0 /\ restarts = 0 =>
        \A i \in Released(view) :
            KindOf(i) \in {"status", "itemlog"} =>
                db.devices[DeviceOf[log[i]]] # Absent

(* README.md:142 describes retry with a dead-letter table: then a message  *)
(* that fails on every try, in a single run of the process, is             *)
(* dead-lettered once the retries are used up.  An exception that is not a *)
(* pyodbc.Error bypasses both.                                             *)
RetriesAreBounded ==
    restarts = 0 =>
        \A i \in view.live : failures[i] <= MaxRetries + 1
=============================================================================
