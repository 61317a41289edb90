------------------------------- MODULE Spool -------------------------------
(***************************************************************************)
(* The durable SQLite spool of the MQTT ingestor                           *)
(* (roles/mqtt_ingestor/files/app/ingestor/spool.py).                      *)
(*                                                                         *)
(* The MQTT thread enqueues, the writer thread reads a batch of the oldest *)
(* rows without removing them and later removes the rows it has dealt      *)
(* with.  Both share one SQLite connection under one lock, so every public *)
(* method is one step; what two steps share is the transaction: a method   *)
(* that does not commit leaves its changes to whichever commit or rollback *)
(* comes next.                                                             *)
(*                                                                         *)
(* AUTOINCREMENT ids are never reused, so log[i] is the message of row i   *)
(* and a table is a set of ids.  view is the database as its connection    *)
(* sees it, disk the last committed one.                                   *)
(***************************************************************************)
EXTENDS Naturals, Sequences, FiniteSets

CONSTANTS Message,       \* what the broker may deliver
          PayloadBytes,  \* its payload length
          RowOverhead,   \* bytes charged to a row beyond its payload
          MaxBytes,      \* cap on the bytes charged to the spool
          DropOldest,    \* full_mode: TRUE "drop_oldest", FALSE "reject_new"
          ScanLimit,     \* rows one drop pass may delete
          DropPasses,    \* drop passes one enqueue may make
          BatchSizes     \* the batch sizes the writer asks for

ASSUME SpoolAssumption ==
    /\ PayloadBytes \in [Message -> Nat]
    /\ RowOverhead \in Nat
    /\ MaxBytes \in Nat
    /\ DropOldest \in BOOLEAN
    /\ ScanLimit \in Nat \ {0}
    /\ DropPasses \in Nat
    /\ BatchSizes \subseteq Nat

VARIABLES log,   \* every message ever inserted, by row id
          view,  \* the tables as the open connection sees them
          disk,  \* the tables as last committed
          held   \* ids of the batch the writer holds, outside the lock

spoolVars == <<log, view, disk, held>>
-----------------------------------------------------------------------------
(* A row id is "dropped" when the drop-oldest policy deleted the row; that *)
(* set is history the database keeps only the size of.                     *)
Tables ==
    [live : SUBSET Nat, dropped : SUBSET Nat,
     total_bytes : Nat, enqueued_total : Nat, dequeued_total : Nat,
     dropped_total : Nat, dropped_bytes_total : Nat, drop_events_total : Nat]

EmptyTables ==
    [live |-> {}, dropped |-> {},
     total_bytes |-> 0, enqueued_total |-> 0, dequeued_total |-> 0,
     dropped_total |-> 0, dropped_bytes_total |-> 0, drop_events_total |-> 0]

EventBytes(m) == PayloadBytes[m] + RowOverhead

(* The bytes the rows S of the log l are charged, counted one by one. *)
ByteSet(l, S) == UNION {{i} \X (1 .. EventBytes(l[i])) : i \in S}
BytesIn(l, S) == Cardinality(ByteSet(l, S))
Bytes(S) == BytesIn(log, S)

(* max(0, a - b) *)
Monus(a, b) == IF a >= b THEN a - b ELSE 0

(* ORDER BY id ASC LIMIT n *)
Oldest(S, n) == {i \in S : Cardinality({j \in S : j <= i}) <= n}

Fits(t, m) == t.total_bytes + EventBytes(m) <= MaxBytes

BadDropSetNewest(m) ==  \* mutant: ORDER BY id DESC
    {i \in view.live : \A j \in view.live : j > i =>
        view.total_bytes - Bytes({k \in view.live : k >= j}) + EventBytes(m)
            > MaxBytes}

BadDropSetGreedy(m) ==  \* mutant: the scan does not stop when there is room
    Oldest(view.live, DropPasses * ScanLimit)

(* The rows the drop passes of one enqueue delete: oldest first, until one *)
(* deletion makes room for m or the passes have used up their scan limit.  *)
DropSet(m) ==
    LET scan == Oldest(view.live, DropPasses * ScanLimit)
        Room(i) == Monus(view.total_bytes, Bytes({j \in scan : j <= i}))
                     + EventBytes(m) <= MaxBytes
    IN  {i \in scan : \A j \in scan : j < i => ~Room(j)}

BadDrop(t, D) ==  \* mutant: the counters move, the rows stay
    [t EXCEPT !.dropped = @ \cup D,
              !.total_bytes = Monus(@, Bytes(D)),
              !.dropped_total = @ + Cardinality(D)]

Drop(t, D) ==
    [t EXCEPT !.live = @ \ D,
              !.dropped = @ \cup D,
              !.total_bytes = Monus(@, Bytes(D)),
              !.dropped_total = @ + Cardinality(D),
              !.dropped_bytes_total = @ + Bytes(D),
              !.drop_events_total =
                  @ + ((Cardinality(D) + ScanLimit - 1) \div ScanLimit)]

(* What an enqueue of m finds once the policy has tried to make room. *)
MakeRoom(m) ==
    IF ~Fits(view, m) /\ DropOldest THEN Drop(view, DropSet(m)) ELSE view

Insert(t, m) ==
    [t EXCEPT !.live = @ \cup {Len(log) + 1},
              !.total_bytes = @ + EventBytes(m),
              !.enqueued_total = @ + 1]
-----------------------------------------------------------------------------
SpoolInit ==
    /\ log = << >>
    /\ view = EmptyTables
    /\ disk = EmptyTables
    /\ held = {}

BadEnqueueAccept(m) ==  \* mutant: no second look after the drop passes
    /\ log' = Append(log, m)
    /\ view' = Insert(MakeRoom(m), m)
    /\ disk' = view'
    /\ UNCHANGED held

(* enqueue() that inserts the row and commits, with any drops before it. *)
EnqueueAccept(m) ==
    /\ Fits(MakeRoom(m), m)
    /\ log' = Append(log, m)
    /\ view' = Insert(MakeRoom(m), m)
    /\ disk' = view'
    /\ UNCHANGED held

(* enqueue() that rejects m.  In drop_oldest mode the deletions made in    *)
(* vain stay in the open transaction: this path returns without a commit.  *)
EnqueueReject(m) ==
    /\ ~Fits(MakeRoom(m), m)
    /\ view' = MakeRoom(m)
    /\ UNCHANGED <<log, disk, held>>

Enqueue(m) == EnqueueAccept(m) \/ EnqueueReject(m)

(* dequeue_batch() only reads; the batch is the caller's. *)
DequeueBatch(n) ==
    /\ held' = Oldest(view.live, n)
    /\ UNCHANGED <<log, view, disk>>

BadReleaseBytes(ids) ==  \* mutant: frees the bytes of rows already gone
    [view EXCEPT !.live = @ \ ids,
                 !.total_bytes = Monus(@, Bytes(ids)),
                 !.dequeued_total = @ + Cardinality(ids)]

BadReleaseCount(ids) ==  \* mutant: counts batches, not rows
    [view EXCEPT !.live = @ \ ids,
                 !.total_bytes = Monus(@, Bytes(ids \cap view.live)),
                 !.dequeued_total = @ + 1]

(* commit_batch(): the bytes of the rows still there are released, the     *)
(* dequeued counter grows by the number of ids.                            *)
Release(ids) ==
    [view EXCEPT !.live = @ \ ids,
                 !.total_bytes = Monus(@, Bytes(ids \cap view.live)),
                 !.dequeued_total = @ + Cardinality(ids)]

BadCommitBatch(ids) ==  \* mutant: the deletion is not committed
    /\ ids # {}
    /\ view' = Release(ids)
    /\ held' = held \ ids
    /\ UNCHANGED <<log, disk>>

CommitBatch(ids) ==
    /\ ids # {}
    /\ view' = Release(ids)
    /\ disk' = view'
    /\ held' = held \ ids
    /\ UNCHANGED log

(* close() rolls an open transaction back; a writer still running keeps    *)
(* its batch, and its next call opens a new connection.                    *)
Close ==
    /\ view' = disk
    /\ UNCHANGED <<log, disk, held>>

(* The process dies and a new one opens the file. *)
Crash ==
    /\ view' = disk
    /\ held' = {}
    /\ UNCHANGED <<log, disk>>

SpoolNext ==
    \/ \E m \in Message : Enqueue(m)
    \/ \E n \in BatchSizes : DequeueBatch(n)
    \/ \E ids \in SUBSET held : CommitBatch(ids)
    \/ Close
    \/ Crash

SpoolSpec == SpoolInit /\ [][SpoolNext]_spoolVars
-----------------------------------------------------------------------------
(* Rows the writer took out for good: neither queued nor dropped.          *)
Released(t) == (1 .. Len(log)) \ (t.live \cup t.dropped)

(* Type invariant of the spool: ids come from the log, and the counters    *)
(* kept in spool_meta are natural numbers.                                 *)
SpoolTypeOK ==
    /\ log \in Seq(Message)
    /\ view \in Tables /\ disk \in Tables
    /\ held \subseteq 1 .. Len(log)
    /\ \A t \in {view, disk} : t.live \cup t.dropped \subseteq 1 .. Len(log)
    /\ \A t \in {view, disk} : t.live \cap t.dropped = {}

(* The running totals of spool_meta match the rows, in the open            *)
(* transaction and in the committed file a restart will find: the byte     *)
(* total is that of the rows present and the drop counters account for     *)
(* exactly the rows the policy deleted, through rejections that do not     *)
(* commit, rollbacks and rows dropped while the writer held them.          *)
TotalsMatchRows ==
    \A t \in {view, disk} :
        /\ t.total_bytes = Bytes(t.live)
        /\ t.dropped_total = Cardinality(t.dropped)
        /\ t.dropped_bytes_total = Bytes(t.dropped)

(* The rows never take more than the configured cap, whatever the sizes of *)
(* the messages and however many passes a drop takes (the cap is judged by *)
(* the rows, not by the counter enqueue() consults).                       *)
CapRespected == Bytes(view.live) <= MaxBytes /\ Bytes(disk.live) <= MaxBytes

(* Every message counted in enqueued_total is still queued, was dropped,   *)
(* or was counted by commit_batch: the counters never miss a message, so a *)
(* loss cannot hide between them.  (They may count one twice: a row        *)
(* dropped while the writer held it is counted again by commit_batch.)     *)
CountersCoverAll ==
    \A t \in {view, disk} :
        /\ t.enqueued_total = Len(log)
        /\ t.enqueued_total
             <= Cardinality(t.live) + t.dropped_total + t.dequeued_total

(* Whoever reads spool_meta may trust it: totals and counters agree with   *)
(* the rows and with the messages accepted, at any time and after a crash. *)
BooksBalance == TotalsMatchRows /\ CountersCoverAll

(* In reject_new mode no row is deleted behind the writer's back, so the   *)
(* counters partition the messages exactly.                                *)
CountersExactWhenRejecting ==
    ~DropOldest =>
        /\ view.enqueued_total = Cardinality(view.live) + view.dequeued_total
        /\ held \subseteq view.live

(* What an uncommitted transaction may hold: only policy deletions, made   *)
(* for an event that was then rejected.  So a rollback never brings back a *)
(* row the writer released and never takes away a row.                     *)
OnlyDropsUncommitted ==
    /\ view.live \subseteq disk.live
    /\ Released(view) = Released(disk)

(* A row the writer released never comes back, through crashes, closes and *)
(* rollbacks: commit_batch is durable before the writer moves on.          *)
ReleasedForGood == [][Released(view) \subseteq Released(view)']_spoolVars

(* The policy deletes in arrival order: nothing it deletes is newer than a *)
(* row it keeps.                                                           *)
DropsOldestFirst ==
    [][\A i \in view'.dropped \ view.dropped, j \in view'.live : i < j]_spoolVars

(* An accepted event never costs more of the backlog than it needs: had    *)
(* the newest of the deleted rows been kept, the event would not have fit. *)
NoNeedlessDrop ==
    [][\A i \in view'.dropped \ view.dropped :
         Len(log') = Len(log) + 1 =>
           LET gone == {j \in view'.dropped \ view.dropped : j < i}
           IN  Bytes(view.live \ gone) + EventBytes(log'[Len(log')])
                 > MaxBytes]_spoolVars
=============================================================================
