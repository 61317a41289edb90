-------------------------- MODULE MqttClientProofs --------------------------
(***************************************************************************)
(* Proofs about MqttClient, for every set of messages, size of the spool   *)
(* and number of failures and restarts.                                    *)
(***************************************************************************)
EXTENDS MqttClient, FiniteSetTheorems, TLAPS

(* What on_message() was done with: buffered, kept, refused by policy, or  *)
(* lost by the broker itself.                                              *)
Accounted(n) ==
    \A i \in 1 .. n : IsBroker[published[i]] \/ i \in kept \cup refused \cup forgotten

(* The inductive invariant.  A worker that failed may claim an attempt     *)
(* more, so attempts are bounded only together with those workers; an      *)
(* acknowledgement follows the message handled on the same connection, so  *)
(* what was handled must be accounted for before what is acknowledged.     *)
ClientIInv ==
    /\ ClientTypeOK
    /\ attempt + failing <= faults
    /\ UpIsUsable
    /\ Accounted(handled)
    /\ Accounted(acked)

LEMMA ClientInitIInv == Init => ClientIInv
<1> SUFFICES ASSUME Init
             PROVE  ClientIInv
  OBVIOUS
<1> USE ClientAssumption DEF Init
<1>0. connected \in BOOLEAN /\ reconnecting \in BOOLEAN /\ session \in BOOLEAN
  BY Zenon
<1>1. ClientTypeOK
  BY <1>0 DEF ClientTypeOK, Published
<1>2. UpIsUsable
  BY DEF UpIsUsable
<1>3. Accounted(handled) /\ Accounted(acked)
  BY DEF Accounted
<1> QED
  BY <1>1, <1>2, <1>3 DEF ClientIInv, ClientTypeOK

(* A step that leaves the messages of the session alone keeps them         *)
(* accounted for.                                                          *)
LEMMA SessionKept ==
    ASSUME ClientIInv, UNCHANGED <<published, forgotten>>,
           kept \subseteq kept', refused \subseteq refused',
           handled' \in {handled, acked}, acked' = acked
    PROVE  Accounted(handled)' /\ Accounted(acked)'
BY DEF ClientIInv, Accounted

(* A disconnect claims at most one worker and one attempt, and is one of   *)
(* the failures.                                                           *)
LEMMA DisconnectKeepsBounds ==
    ASSUME ClientIInv, OnDisconnect, Fail
    PROVE  /\ socket' = "none" /\ loop' = "waiting" /\ connected' = FALSE
           /\ reconnecting' \in BOOLEAN
           /\ attempt' \in Nat /\ asleep' \in Nat /\ failing' \in Nat
           /\ attempt' + failing' <= faults'
           /\ asleep' + failing' <= faults'
           /\ faults' \in 0 .. MaxFaults /\ restarts' = restarts
<1>0. /\ attempt \in Nat /\ asleep \in Nat /\ failing \in Nat
      /\ attempt + failing <= faults /\ asleep + failing <= faults
      /\ faults \in 0 .. MaxFaults /\ MaxFaults \in Nat
  BY ClientAssumption DEF ClientIInv, ClientTypeOK
<1>1. faults' = faults + 1 /\ faults < MaxFaults /\ restarts' = restarts
  BY DEF Fail
<1>2. CASE reconnecting
  <2>1. reconnecting' \in BOOLEAN /\ connected' = FALSE
    BY <1>2, Zenon DEF OnDisconnect, MaybeScheduleReconnect, ClientIInv, ClientTypeOK
  <2> QED BY <1>0, <1>1, <1>2, <2>1 DEF OnDisconnect, MaybeScheduleReconnect
<1>3. CASE ~reconnecting
  <2>1. reconnecting' = TRUE /\ connected' = FALSE
    BY <1>3 DEF OnDisconnect, MaybeScheduleReconnect
  <2>2. reconnecting' \in BOOLEAN
    BY <2>1, Zenon
  <2>3. /\ socket' = "none" /\ loop' = "waiting" /\ failing' = failing
        /\ attempt' = attempt + 1 /\ (asleep' = asleep \/ asleep' = asleep + 1)
    BY <1>3 DEF OnDisconnect, MaybeScheduleReconnect
  <2>4. /\ attempt' \in Nat /\ asleep' \in Nat /\ failing' \in Nat
        /\ attempt' + failing' <= faults' /\ asleep' + failing' <= faults'
        /\ faults' \in 0 .. MaxFaults
    <3>1. CASE asleep' = asleep
      BY <1>0, <1>1, <2>3, <3>1
    <3>2. CASE asleep' = asleep + 1
      BY <1>0, <1>1, <2>3, <3>2
    <3> QED
      BY <2>3, <3>1, <3>2
  <2> QED
    BY <1>1, <2>1, <2>2, <2>3, <2>4, Zenon
<1> QED
  BY <1>2, <1>3

LEMMA ClientNextIInv == ClientIInv /\ [Next]_vars => ClientIInv'
<1> SUFFICES ASSUME ClientIInv, [Next]_vars
             PROVE  ClientIInv'
  OBVIOUS
<1>0. /\ ClientTypeOK /\ attempt + failing <= faults /\ UpIsUsable
      /\ Accounted(handled) /\ Accounted(acked)
      /\ IsBroker \in [Message -> BOOLEAN]
      /\ MaxFaults \in Nat /\ MaxRestarts \in Nat
  BY ClientAssumption DEF ClientIInv
<1> USE DEF connVars, flagVars, sessionVars, outcomeVars, budgetVars
<1>1. CASE ConnackAccepted
  <2>0. session' \in BOOLEAN /\ connected' \in BOOLEAN /\ reconnecting' \in BOOLEAN
    BY <1>1, Zenon DEF ConnackAccepted
  <2>1. ClientTypeOK' /\ (attempt + failing <= faults)'
    BY <1>0, <1>1, <2>0 DEF ConnackAccepted, ClientTypeOK, Published
  <2>2. UpIsUsable'
    BY <1>1 DEF ConnackAccepted, UpIsUsable
  <2>3. Accounted(handled)' /\ Accounted(acked)'
    BY <1>1, SessionKept DEF ConnackAccepted
  <2> QED
    BY <2>1, <2>2, <2>3 DEF ClientIInv
<1>2. CASE ConnackRefused \/ ConnectionLost
  <2>1. /\ OnDisconnect /\ Fail
        /\ UNCHANGED <<session, published, handled, acked, forgotten,
                       buffer, kept, refused>>
    BY <1>2 DEF ConnackRefused, ConnectionLost
  <2>2. ClientTypeOK' /\ (attempt + failing <= faults)'
    BY <1>0, <2>1, DisconnectKeepsBounds DEF ClientTypeOK, Published
  <2>3. UpIsUsable'
    BY <2>1 DEF OnDisconnect, UpIsUsable
  <2>4. Accounted(handled)' /\ Accounted(acked)'
    BY <2>1, SessionKept
  <2> QED
    BY <2>2, <2>3, <2>4 DEF ClientIInv
<1>3. CASE BrokerForgets
  <2>1. /\ OnDisconnect /\ Fail
        /\ session' = FALSE
        /\ forgotten' = forgotten \cup (acked + 1 .. Len(published))
        /\ acked' = Len(published)
        /\ UNCHANGED <<published, handled, buffer, kept, refused>>
    BY <1>3 DEF BrokerForgets
  <2>0. session' \in BOOLEAN /\ connected' \in BOOLEAN
    BY <2>1, Zenon DEF OnDisconnect
  <2>6. forgotten' \subseteq Published /\ acked' \in 0 .. Len(published)
    BY <1>0, <2>1 DEF ClientTypeOK, Published
  <2>2. ClientTypeOK' /\ (attempt + failing <= faults)'
    BY <1>0, <2>0, <2>1, <2>6, DisconnectKeepsBounds DEF ClientTypeOK, Published
  <2>3. UpIsUsable'
    BY <2>1 DEF OnDisconnect, UpIsUsable
  <2>4. Accounted(handled)' /\ Accounted(acked)'
    BY <1>0, <2>1 DEF Accounted, ClientTypeOK, Published
  <2> QED
    BY <2>2, <2>3, <2>4 DEF ClientIInv
<1>4. CASE LoopFindsNoSocket \/ LoopReconnects
  <2>1. /\ socket' \in {"none", "connecting"} /\ loop' \in {"running", "waiting"}
        /\ UNCHANGED <<session, flagVars, sessionVars, outcomeVars, restarts>>
        /\ faults' \in 0 .. MaxFaults /\ faults' >= faults
    BY <1>0, <1>4 DEF LoopFindsNoSocket, LoopReconnects, Fail, ClientTypeOK
  <2>2. ClientTypeOK' /\ (attempt + failing <= faults)'
    BY <1>0, <2>1 DEF ClientTypeOK, Published
  <2>3. UpIsUsable'
    BY <2>1 DEF UpIsUsable
  <2>4. Accounted(handled)' /\ Accounted(acked)'
    BY <2>1, SessionKept
  <2> QED
    BY <2>2, <2>3, <2>4 DEF ClientIInv
<1>5. CASE AckArrives
  <2>1. ClientTypeOK' /\ (attempt + failing <= faults)'
    BY <1>0, <1>5 DEF AckArrives, ClientTypeOK, Published
  <2>2. UpIsUsable'
    BY <1>0, <1>5 DEF AckArrives, UpIsUsable, Running
  <2>3. Accounted(handled)' /\ Accounted(acked)'
    BY <1>0, <1>5 DEF AckArrives, Accounted, ClientTypeOK
  <2> QED
    BY <2>1, <2>2, <2>3 DEF ClientIInv
<1>6. CASE \E m \in Message : ReceiveBroker(m) \/ ReceiveEvent(m)
  <2>1. PICK m \in Message : ReceiveBroker(m) \/ ReceiveEvent(m)
    BY <1>6
  <2>2. /\ handled < Len(published) /\ m = published[handled + 1]
        /\ handled' = handled + 1
        /\ UNCHANGED <<connVars, flagVars, published, acked, forgotten, budgetVars>>
        /\ buffer' \subseteq buffer \cup {m}
        /\ kept \subseteq kept' /\ kept' \subseteq kept \cup {handled'}
        /\ refused \subseteq refused' /\ refused' \subseteq refused \cup {handled'}
        /\ IsBroker[m] \/ handled' \in kept' \cup refused'
    BY <2>1 DEF ReceiveBroker, ReceiveEvent, Due
  <2>3. ClientTypeOK' /\ (attempt + failing <= faults)'
    BY <1>0, <2>2 DEF ClientTypeOK, Published
  <2>4. UpIsUsable'
    BY <1>0, <2>2 DEF UpIsUsable, Running
  <2>5. Accounted(handled)' /\ Accounted(acked)'
    BY <1>0, <2>2 DEF Accounted, ClientTypeOK
  <2> QED
    BY <2>3, <2>4, <2>5 DEF ClientIInv
<1>7. CASE \E m \in Message : ReceiveRaises(m)
  <2>1. /\ loop' = "dead" /\ Fail
        /\ UNCHANGED <<socket, session, flagVars, sessionVars, outcomeVars>>
    BY <1>7 DEF ReceiveRaises
  <2>2. ClientTypeOK' /\ (attempt + failing <= faults)'
    BY <1>0, <2>1 DEF ClientTypeOK, Published, Fail
  <2>3. UpIsUsable'
    BY <2>1 DEF UpIsUsable, Running
  <2>4. Accounted(handled)' /\ Accounted(acked)'
    BY <2>1, SessionKept
  <2> QED
    BY <2>2, <2>3, <2>4 DEF ClientIInv
<1>8. CASE WorkerReconnects
  <2>1. ClientTypeOK' /\ (attempt + failing <= faults)'
    BY <1>0, <1>8 DEF WorkerReconnects, ClientTypeOK, Published
  <2>2. UpIsUsable'
    BY <1>8 DEF WorkerReconnects, UpIsUsable
  <2>3. Accounted(handled)' /\ Accounted(acked)'
    BY <1>8, SessionKept DEF WorkerReconnects
  <2> QED
    BY <2>1, <2>2, <2>3 DEF ClientIInv
<1>9. CASE WorkerFails
  <2>0. reconnecting' \in BOOLEAN
    BY <1>9, Zenon DEF WorkerFails
  <2>1. ClientTypeOK' /\ (attempt + failing <= faults)'
    BY <1>0, <1>9, <2>0 DEF WorkerFails, Fail, ClientTypeOK, Published
  <2>2. UpIsUsable'
    BY <1>9 DEF WorkerFails, UpIsUsable
  <2>3. Accounted(handled)' /\ Accounted(acked)'
    BY <1>9, SessionKept DEF WorkerFails
  <2> QED
    BY <2>1, <2>2, <2>3 DEF ClientIInv
<1>10. CASE WorkerTriesAgain
  <2>1. ClientTypeOK' /\ (attempt + failing <= faults)'
    <3>1. CASE reconnecting
      BY <1>0, <1>10, <3>1
      DEF WorkerTriesAgain, MaybeScheduleReconnect, ClientTypeOK, Published
    <3>2. CASE ~reconnecting
      <4>1. reconnecting' \in BOOLEAN
        BY <1>10, <3>2, Zenon DEF WorkerTriesAgain, MaybeScheduleReconnect
      <4>2. /\ failing > 0 /\ failing' = failing - 1 /\ attempt' = attempt + 1
            /\ asleep' = asleep \/ asleep' = asleep + 1
            /\ UNCHANGED <<socket, loop, session, connected, published, handled,
                           acked, forgotten, buffer, kept, refused, faults, restarts>>
        BY <1>10, <3>2 DEF WorkerTriesAgain, MaybeScheduleReconnect
      <4>3. /\ attempt' \in 0 .. MaxFaults /\ attempt' + failing' <= faults'
            /\ asleep' \in Nat /\ failing' \in Nat /\ asleep' + failing' <= faults'
        BY <1>0, <4>2 DEF ClientTypeOK
      <4> QED
        BY <1>0, <4>1, <4>2, <4>3 DEF ClientTypeOK, Published
    <3> QED
      BY <3>1, <3>2
  <2>2. UpIsUsable'
    BY <1>0, <1>10 DEF WorkerTriesAgain, UpIsUsable, Running
  <2>3. Accounted(handled)' /\ Accounted(acked)'
    BY <1>10, SessionKept DEF WorkerTriesAgain
  <2> QED
    BY <2>1, <2>2, <2>3 DEF ClientIInv
<1>11. CASE \E m \in Message : Publish(m)
  <2>1. PICK m \in Message : Publish(m)
    BY <1>11
  <2>2. /\ published' = Append(published, m)
        /\ UNCHANGED <<connVars, flagVars, handled, acked, forgotten,
                       outcomeVars, budgetVars>>
    BY <2>1 DEF Publish
  <2>3. /\ published' \in Seq(Message) /\ Len(published') = Len(published) + 1
        /\ \A i \in 1 .. Len(published) : published'[i] = published[i]
    BY <1>0, <2>2 DEF ClientTypeOK
  <2>4. ClientTypeOK' /\ (attempt + failing <= faults)'
    BY <1>0, <2>2, <2>3 DEF ClientTypeOK, Published
  <2>5. UpIsUsable'
    BY <1>0, <2>2 DEF UpIsUsable, Running
  <2>6. Accounted(handled)' /\ Accounted(acked)'
    BY <1>0, <2>2, <2>3 DEF Accounted, ClientTypeOK
  <2> QED
    BY <2>4, <2>5, <2>6 DEF ClientIInv
<1>12. CASE WriterStep \/ UNCHANGED vars
  <2>1. /\ UNCHANGED <<connVars, flagVars, sessionVars, outcomeVars, restarts>>
        /\ faults' \in 0 .. MaxFaults /\ faults' >= faults
    BY <1>0, <1>12
    DEF WriterStep, WriterTakes, WriterReleases, WriterRaises, Fail,
        ClientTypeOK, vars, clientVars
  <2>2. ClientTypeOK' /\ (attempt + failing <= faults)'
    BY <1>0, <2>1 DEF ClientTypeOK, Published
  <2>3. UpIsUsable'
    BY <1>0, <2>1 DEF UpIsUsable, Running
  <2>4. Accounted(handled)' /\ Accounted(acked)'
    BY <2>1, SessionKept
  <2> QED
    BY <2>2, <2>3, <2>4 DEF ClientIInv
<1>13. CASE Stop
  <2>0. connected' \in BOOLEAN
    BY <1>13, Zenon DEF Stop
  <2>1. ClientTypeOK' /\ (attempt + failing <= faults)'
    BY <1>0, <1>13, <2>0 DEF Stop, ClientTypeOK, Published
  <2>2. UpIsUsable'
    BY <1>13 DEF Stop, UpIsUsable
  <2>3. Accounted(handled)' /\ Accounted(acked)'
    BY <1>13, SessionKept DEF Stop
  <2> QED
    BY <2>1, <2>2, <2>3 DEF ClientIInv
<1>14. CASE Restart
  <2>0. connected' \in BOOLEAN /\ reconnecting' \in BOOLEAN
    BY <1>14, Zenon DEF Restart
  <2>1. ClientTypeOK' /\ (attempt + failing <= faults)'
    BY <1>0, <1>14, <2>0 DEF Restart, ClientTypeOK, Published
  <2>2. UpIsUsable'
    BY <1>14 DEF Restart, UpIsUsable
  <2>3. Accounted(handled)' /\ Accounted(acked)'
    BY <1>14, SessionKept DEF Restart
  <2> QED
    BY <2>1, <2>2, <2>3 DEF ClientIInv
<1> QED
  BY <1>1, <1>2, <1>3, <1>4, <1>5, <1>6, <1>7, <1>8, <1>9, <1>10, <1>11,
     <1>12, <1>13, <1>14
  DEF Next, NetworkStep, WorkerStep, Receive

(* The inductive invariant holds in every behaviour. *)
THEOREM ClientInvariant == Spec => []ClientIInv
<1>1. Init => ClientIInv
  BY ClientInitIInv
<1>2. ClientIInv /\ [Next]_vars => ClientIInv'
  BY ClientNextIInv
<1> QED
  BY <1>1, <1>2, PTL DEF Spec

(* The type invariant: however often workers, loop and broker tear each    *)
(* other's connections down, there are never more workers, and no more     *)
(* attempts, than there were failures (_maybe_schedule_reconnect).         *)
THEOREM ClientTypeCorrect == Spec => []ClientTypeOK
<1>1. ClientIInv => ClientTypeOK
  BY DEF ClientIInv
<1> QED
  BY <1>1, ClientInvariant, PTL

(* A connection in use is subscribed and reported as connected.            *)
THEOREM ConnectionUpIsUsable == Spec => []UpIsUsable
<1>1. ClientIInv => UpIsUsable
  BY DEF ClientIInv
<1> QED
  BY <1>1, ClientInvariant, PTL

(* Both together: neither do workers multiply, nor is a connection used    *)
(* that is not subscribed, for any number of failures and restarts.        *)
THEOREM ConnectionsStaySound == Spec => []ConnectionsAreSound
BY ClientTypeCorrect, ConnectionUpIsUsable, PTL DEF ConnectionsAreSound

(* The broker is told to forget a message only when the program has dealt  *)
(* with it, for any number of failures, reconnects and restarts.           *)
THEOREM AcknowledgedIsKept == Spec => []AckedIsKept
<1>1. ClientIInv => AckedIsKept
  BY DEF ClientIInv, Accounted, AckedIsKept
<1> QED
  BY <1>1, ClientInvariant, PTL
-----------------------------------------------------------------------------
(* The counters of the spool while SQLite fails.                           *)

Counted(t) ==
    /\ {"live", "enqueued_total", "dequeued_total"} \subseteq DOMAIN t
    /\ t.live \subseteq 1 .. Len(log)
    /\ t.dequeued_total \in Nat
    /\ t.enqueued_total = Cardinality(t.live) + t.dequeued_total

(* An insert that was not committed is seen only once the network loop is  *)
(* dead; until then the file has every row the connection sees.            *)
CountIInv ==
    ~DropOldest =>
        /\ log \in Seq(Message)
        /\ Counted(view) /\ Counted(disk)
        /\ held \subseteq view.live
        /\ loop # "dead" => view.live \subseteq disk.live

LEMMA InsertCounted ==
    ASSUME NEW m \in Message, log \in Seq(Message), Counted(view),
           log' = Append(log, m), view' = Insert(view, m)
    PROVE  /\ Counted(view)'
           /\ view'.live = view.live \cup {Len(log) + 1}
<1>1. /\ view'.live = view.live \cup {Len(log) + 1}
      /\ view'.enqueued_total = view.enqueued_total + 1
      /\ view'.dequeued_total = view.dequeued_total
      /\ DOMAIN view' = DOMAIN view
  BY DEF Insert, Counted
<1>2. Len(log) \in Nat /\ Len(log') = Len(log) + 1
  OBVIOUS
<1>3. IsFiniteSet(view.live) /\ Cardinality(view.live) \in Nat
  <2>1. IsFiniteSet(1 .. Len(log))
    BY <1>2, FS_Interval
  <2>2. IsFiniteSet(view.live)
    BY <2>1, FS_Subset DEF Counted
  <2> QED BY <2>2, FS_CardinalityType
<1>4. Cardinality(view'.live) = Cardinality(view.live) + 1
  <2>1. Len(log) + 1 \notin view.live
    BY <1>2 DEF Counted
  <2>2. Cardinality(view.live \cup {Len(log) + 1}) = Cardinality(view.live) + 1
    BY <1>3, <2>1, FS_AddElement
  <2>3. view'.live = view.live \cup {Len(log) + 1}
    BY <1>1
  <2> QED BY <2>2, <2>3
<1>5. view'.live \subseteq 1 .. Len(log')
  BY <1>1, <1>2 DEF Counted
<1>6. view'.enqueued_total = Cardinality(view'.live) + view'.dequeued_total
  BY <1>1, <1>3, <1>4 DEF Counted
<1> QED BY <1>1, <1>5, <1>6 DEF Counted

LEMMA ReleaseCounted ==
    ASSUME log \in Seq(Message), Counted(view), held \subseteq view.live,
           log' = log, view' = Release(held)
    PROVE  /\ Counted(view)'
           /\ view'.live \subseteq view.live
<1>1. /\ view'.live = view.live \ held
      /\ view'.enqueued_total = view.enqueued_total
      /\ view'.dequeued_total = view.dequeued_total + Cardinality(held)
      /\ DOMAIN view' = DOMAIN view
  BY DEF Release, Counted
<1>2. /\ IsFiniteSet(view.live) /\ Cardinality(view.live) \in Nat
      /\ IsFiniteSet(held) /\ Cardinality(held) \in Nat
  <2>1. Len(log) \in Nat /\ IsFiniteSet(1 .. Len(log))
    BY FS_Interval
  <2> QED BY <2>1, FS_Subset, FS_CardinalityType DEF Counted
<1>3. Cardinality(view'.live) = Cardinality(view.live) - Cardinality(held)
  <2>1. view.live \cap held = held
    OBVIOUS
  <2>2. Cardinality(view.live \ held) = Cardinality(view.live) - Cardinality(held)
    BY <1>2, <2>1, FS_Difference
  <2> QED BY <1>1, <2>2
<1>4. view'.enqueued_total = Cardinality(view'.live) + view'.dequeued_total
  BY <1>1, <1>2, <1>3 DEF Counted
<1>5. view'.live \subseteq 1 .. Len(log') /\ view'.live \subseteq view.live
  BY <1>1 DEF Counted
<1>6. view'.dequeued_total \in Nat
  BY <1>1, <1>2 DEF Counted
<1> QED BY <1>1, <1>4, <1>5, <1>6 DEF Counted

LEMMA CountNext == CountIInv /\ [Next]_vars => CountIInv'
<1> SUFFICES ASSUME ~DropOldest, CountIInv, [Next]_vars
             PROVE  CountIInv'
  BY DEF CountIInv
<1>0. /\ log \in Seq(Message) /\ Counted(view) /\ Counted(disk)
      /\ held \subseteq view.live
      /\ loop # "dead" => view.live \subseteq disk.live
      /\ Len(log) \in Nat
  BY DEF CountIInv
<1> USE DEF connVars, flagVars, sessionVars, outcomeVars, budgetVars
(* The rows, the batch and the counters are left alone. *)
<1>1. ASSUME UNCHANGED spoolVars, loop = "dead" => loop' = "dead"
      PROVE  CountIInv'
  BY <1>0, <1>1 DEF CountIInv, Counted, spoolVars
<1>2. CASE \E m \in Message : ReceiveEvent(m)
  <2>1. PICK m \in Message : ReceiveEvent(m)
    BY <1>2
  <2>2. MakeRoom(m) = view /\ loop' = loop
    BY <2>1 DEF MakeRoom, ReceiveEvent
  <2>3. CASE EnqueueReject(m)
    BY <1>1, <2>2, <2>3 DEF EnqueueReject, spoolVars
  <2>4. CASE EnqueueAccept(m)
    <3>1. log' = Append(log, m) /\ view' = Insert(view, m) /\ disk' = view' /\ held' = held
      BY <2>2, <2>4 DEF EnqueueAccept
    <3>2. Counted(view)' /\ view.live \subseteq view'.live
      BY <1>0, <3>1, InsertCounted
    <3>3. log' \in Seq(Message)
      BY <1>0, <3>1
    <3> QED BY <1>0, <3>1, <3>2, <3>3 DEF CountIInv, Counted
  <2> QED BY <2>1, <2>3, <2>4 DEF ReceiveEvent
<1>3. CASE \E m \in Message : ReceiveRaises(m)
  <2>1. PICK m \in Message : ReceiveRaises(m)
    BY <1>3
  <2>2. MakeRoom(m) = view /\ loop = "running" /\ loop' = "dead"
    BY <2>1 DEF MakeRoom, ReceiveRaises, Due
  <2>3. CASE UNCHANGED spoolVars
    BY <1>1, <2>2, <2>3
  <2>4. CASE ~UNCHANGED spoolVars
    <3>1. /\ log' = Append(log, m) /\ view' \in {Insert(view, m), disk}
          /\ disk' = disk /\ held' = held
      BY <2>1, <2>2, <2>4 DEF ReceiveRaises
    <3>2. log' \in Seq(Message) /\ Len(log') = Len(log) + 1
      BY <1>0, <3>1
    <3>3. Counted(disk)'
      BY <1>0, <3>1, <3>2 DEF Counted
    <3>4. CASE view' = disk
      <4>1. Counted(view)'
        BY <3>1, <3>3, <3>4 DEF Counted
      <4> QED BY <1>0, <2>2, <3>1, <3>2, <3>3, <3>4, <4>1 DEF CountIInv
    <3>5. CASE view' = Insert(view, m)
      <4>1. Counted(view)' /\ view.live \subseteq view'.live
        BY <1>0, <3>1, <3>5, InsertCounted
      <4> QED BY <1>0, <2>2, <3>1, <3>2, <3>3, <4>1 DEF CountIInv
    <3> QED BY <3>1, <3>4, <3>5
  <2> QED BY <2>3, <2>4
<1>4. CASE \E n \in BatchSizes : WriterTakes(n)
  BY <1>0, <1>4
  DEF WriterTakes, DequeueBatch, Oldest, clientVars, CountIInv, Counted
<1>5. CASE WriterReleases
  <2>1. log' = log /\ view' = Release(held) /\ disk' = view' /\ held' = {}
    BY <1>5 DEF WriterReleases, CommitBatch
  <2>2. Counted(view)'
    BY <1>0, <2>1, ReleaseCounted
  <2> QED BY <1>0, <2>1, <2>2 DEF CountIInv, Counted
<1>6. CASE WriterRaises
  <2>1. /\ log' = log /\ view' \in {Release(held), disk} /\ disk' = disk
        /\ held' = {} /\ loop' = loop
    BY <1>6 DEF WriterRaises
  <2>2. Counted(disk)'
    BY <1>0, <2>1 DEF Counted
  <2>3. CASE view' = disk
    <3>1. Counted(view)'
      BY <2>1, <2>2, <2>3 DEF Counted
    <3> QED BY <1>0, <2>1, <2>2, <2>3, <3>1 DEF CountIInv
  <2>4. CASE view' = Release(held)
    <3>1. Counted(view)' /\ view'.live \subseteq view.live
      BY <1>0, <2>1, <2>4, ReleaseCounted
    <3> QED BY <1>0, <2>1, <2>2, <3>1 DEF CountIInv
  <2> QED BY <2>1, <2>3, <2>4
<1>7. CASE Restart
  <2>1. log' = log /\ view' = disk /\ disk' = disk /\ held' = {}
    BY <1>7 DEF Restart, Crash
  <2> QED BY <1>0, <2>1 DEF CountIInv, Counted
<1>8. CASE ConnackAccepted \/ ConnackRefused \/ ConnectionLost \/ BrokerForgets
  BY <1>1, <1>8
  DEF ConnackAccepted, ConnackRefused, ConnectionLost, BrokerForgets, OnDisconnect
<1>9. CASE LoopFindsNoSocket \/ LoopReconnects \/ AckArrives \/ Stop
  BY <1>1, <1>9 DEF LoopFindsNoSocket, LoopReconnects, AckArrives, Stop
<1>10. CASE WorkerStep
  BY <1>1, <1>10
  DEF WorkerStep, WorkerReconnects, WorkerFails, WorkerTriesAgain
<1>11. CASE \E m \in Message : ReceiveBroker(m) \/ Publish(m)
  BY <1>1, <1>11 DEF ReceiveBroker, Publish
<1>12. CASE UNCHANGED vars
  BY <1>1, <1>12 DEF vars, clientVars
<1> QED
  BY <1>2, <1>3, <1>4, <1>5, <1>6, <1>7, <1>8, <1>9, <1>10, <1>11, <1>12
  DEF Next, NetworkStep, WriterStep, Receive

(* In reject_new mode no failure of SQLite unbalances the counters: an     *)
(* insert whose commit failed, a release rolled back or left open, and     *)
(* what the next commit or restart makes of them, leave as many rows       *)
(* counted in as there are rows and rows counted out.                      *)
THEOREM CountersSurviveFailures == Spec => []CountersExactWhenRejecting
<1>1. Init => CountIInv
  BY FS_EmptySet DEF Init, SpoolInit, EmptyTables, CountIInv, Counted
<1>2. CountIInv /\ [Next]_vars => CountIInv'
  BY CountNext
<1>3. CountIInv => CountersExactWhenRejecting
  BY DEF CountIInv, Counted, CountersExactWhenRejecting
<1> QED
  BY <1>1, <1>2, <1>3, PTL DEF Spec
=============================================================================
