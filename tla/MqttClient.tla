----------------------------- MODULE MqttClient -----------------------------
(***************************************************************************)
(* The MQTT side of the ingestor (ingestor/mqtt_client.py, with the part   *)
(* of ingestor/pipeline.py that takes its events and reports its health),  *)
(* composed with the spool.                                                *)
(*                                                                         *)
(* Three kinds of thread touch the connection: the network loop of the     *)
(* paho library, which runs every callback and reconnects by itself; the   *)
(* reconnect workers this program starts on a disconnect, which sleep and  *)
(* call reconnect() whatever happened meanwhile; and the main thread,      *)
(* which stops the client.  reconnect() closes the socket it finds without *)
(* a callback.  The broker keeps the session of the client                 *)
(* (clean_session is off): it sends what was not acknowledged again.       *)
(*                                                                         *)
(* SQLite may fail: an exception of enqueue() ends paho's loop for good,   *)
(* one of commit_batch() is caught by the writer loop.                     *)
(***************************************************************************)
EXTENDS Spool

CONSTANTS IsBroker,      \* messages on $SYS topics, which are not spooled
          CriticalBytes, \* spool bytes from which the process is unhealthy
          MaxAttempt,    \* largest attempt whose delay is a float (1024)
          MaxFaults,     \* bound: failures of network, broker and SQLite
          MaxRestarts,   \* bound: restarts of the process
          MaxPublished   \* bound: messages the broker gets for the session

ASSUME ClientAssumption ==
    /\ IsBroker \in [Message -> BOOLEAN]
    /\ CriticalBytes \in Nat
    /\ MaxAttempt \in Nat \ {0}
    /\ MaxFaults \in Nat /\ MaxRestarts \in Nat /\ MaxPublished \in Nat

VARIABLES socket,       \* "none", "connecting" (CONNECT sent) or "up"
          loop,         \* paho's thread: "running", "waiting" to reconnect,
                        \* "dead" of an exception, "stopped"
          connected,    \* _connected
          reconnecting, \* _reconnecting
          attempt,      \* _reconnect_attempt
          asleep,       \* number of reconnect workers in their sleep
          failing,      \* workers whose reconnect() raised, not done with it
          session,      \* the broker has our subscriptions
          published,    \* messages the broker took for the session
          handled,      \* how far on_message got, on this connection
          acked,        \* how far the broker has our acknowledgements
          buffer,       \* _broker_buffer: the $SYS messages seen
          kept,         \* history: messages committed to the spool
          refused,      \* history: messages the spool rejected
          forgotten,    \* history: messages the broker lost with the session
          faults, restarts

connVars == <<socket, loop, session>>
flagVars == <<connected, reconnecting, attempt, asleep, failing>>
sessionVars == <<published, handled, acked, forgotten>>
outcomeVars == <<buffer, kept, refused>>
budgetVars == <<faults, restarts>>
clientVars == <<connVars, flagVars, sessionVars, outcomeVars, budgetVars>>
vars == <<spoolVars, clientVars>>

Published == 1 .. Len(published)
Running == loop \in {"running", "waiting"}
Fail == faults < MaxFaults /\ faults' = faults + 1 /\ UNCHANGED restarts
-----------------------------------------------------------------------------
(* start(): connect() raised or sent CONNECT; the loop thread runs.        *)
Init ==
    /\ SpoolInit
    /\ socket = "connecting" /\ loop = "running" /\ session = FALSE
    /\ connected = FALSE /\ reconnecting = FALSE /\ attempt = 0
    /\ asleep = 0 /\ failing = 0
    /\ published = << >> /\ handled = 0 /\ acked = 0 /\ forgotten = {}
    /\ buffer = {} /\ kept = {} /\ refused = {}
    /\ faults = 0 /\ restarts = 0

(* _maybe_schedule_reconnect(): at most one claim.  The delay of the new   *)
(* worker, 1.0 * 2 ** (attempt - 1), overflows for a large attempt: the    *)
(* worker then ends at once, and the claim stays.                          *)
MaybeScheduleReconnect ==
    \/ /\ reconnecting
       /\ UNCHANGED <<reconnecting, attempt, asleep>>
    \/ /\ ~reconnecting
       /\ reconnecting' = TRUE
       /\ attempt' = attempt + 1
       /\ asleep' = IF attempt' > MaxAttempt THEN asleep ELSE asleep + 1

(* _on_disconnect() with a reason, run by the loop once it closed the      *)
(* socket.  What was not acknowledged will be sent again.                  *)
OnDisconnect ==
    /\ socket' = "none"
    /\ loop' = "waiting"
    /\ connected' = FALSE
    /\ MaybeScheduleReconnect
    /\ UNCHANGED failing

BadConnackAccepted ==  \* mutant: subscribes on the first connect only
    /\ loop = "running" /\ socket = "connecting"
    /\ socket' = "up"
    /\ session' = (session \/ (published = << >> /\ faults = 0))
    /\ connected' = TRUE
    /\ reconnecting' = FALSE
    /\ attempt' = 0
    /\ handled' = acked
    /\ UNCHANGED <<spoolVars, loop, asleep, failing, published, acked,
                   forgotten, outcomeVars, budgetVars>>

(* The loop reads an accepting CONNACK: _on_connect() clears the claim and *)
(* subscribes.                                                             *)
ConnackAccepted ==
    /\ loop = "running" /\ socket = "connecting"
    /\ socket' = "up"
    /\ session' = TRUE
    /\ connected' = TRUE
    /\ reconnecting' = FALSE
    /\ attempt' = 0
    /\ handled' = acked
    /\ UNCHANGED <<spoolVars, loop, asleep, failing, published, acked,
                   forgotten, outcomeVars, budgetVars>>

(* A refusing CONNACK: _on_connect() logs and returns, then paho closes    *)
(* the socket and reports a disconnect.                                    *)
ConnackRefused ==
    /\ loop = "running" /\ socket = "connecting"
    /\ OnDisconnect
    /\ Fail
    /\ UNCHANGED <<spoolVars, session, sessionVars, outcomeVars>>

(* The loop finds the connection broken. *)
ConnectionLost ==
    /\ loop = "running" /\ socket # "none"
    /\ OnDisconnect
    /\ Fail
    /\ UNCHANGED <<spoolVars, session, sessionVars, outcomeVars>>

(* The broker restarts without its state: connection, subscriptions and    *)
(* the messages it held for us are gone.                                   *)
BrokerForgets ==
    /\ loop = "running" /\ socket # "none"
    /\ OnDisconnect
    /\ Fail
    /\ session' = FALSE
    /\ forgotten' = forgotten \cup (acked + 1 .. Len(published))
    /\ acked' = Len(published)
    /\ UNCHANGED <<spoolVars, published, handled, outcomeVars>>

(* A worker failed, its connection closed under the loop, and nobody was   *)
(* told: the loop finds no socket and waits to reconnect.                  *)
LoopFindsNoSocket ==
    /\ loop = "running" /\ socket = "none"
    /\ loop' = "waiting"
    /\ UNCHANGED <<spoolVars, socket, session, flagVars, sessionVars,
                   outcomeVars, budgetVars>>

(* paho's loop reconnects after its own delay, closing what it finds. *)
LoopReconnects ==
    /\ loop = "waiting"
    /\ \/ /\ socket' = "connecting" /\ loop' = "running"
          /\ UNCHANGED budgetVars
       \/ /\ socket' = "none" /\ UNCHANGED loop
          /\ Fail
    /\ UNCHANGED <<spoolVars, session, flagVars, sessionVars, outcomeVars>>

BadWorkerReconnects ==  \* mutant: goes back to sleep, to try again
    /\ asleep > 0
    /\ socket' = "connecting"
    /\ \/ UNCHANGED loop
       \/ loop = "running" /\ loop' = "waiting"
    /\ UNCHANGED <<spoolVars, session, flagVars, sessionVars, outcomeVars,
                   budgetVars>>

(* _reconnect_worker() after its sleep: reconnect() closes the socket and  *)
(* opens another.  A running loop goes on with the new socket, or takes    *)
(* the change for a lost connection.                                       *)
WorkerReconnects ==
    /\ asleep > 0
    /\ asleep' = asleep - 1
    /\ socket' = "connecting"
    /\ \/ UNCHANGED loop
       \/ loop = "running" /\ loop' = "waiting"
    /\ UNCHANGED <<spoolVars, session, connected, reconnecting, attempt,
                   failing, sessionVars, outcomeVars, budgetVars>>

(* reconnect() raises in a worker: the claim is given up. *)
WorkerFails ==
    /\ asleep > 0
    /\ Fail
    /\ asleep' = asleep - 1
    /\ failing' = failing + 1
    /\ socket' = "none"
    /\ reconnecting' = FALSE
    /\ UNCHANGED <<spoolVars, loop, session, connected, attempt, sessionVars,
                   outcomeVars>>

BadWorkerTriesAgain ==  \* mutant: does not end with the new worker
    /\ failing > 0
    /\ MaybeScheduleReconnect
    /\ UNCHANGED <<spoolVars, connVars, connected, failing, sessionVars,
                   outcomeVars, budgetVars>>

(* ... and taken again, unless a disconnect was faster. *)
WorkerTriesAgain ==
    /\ failing > 0
    /\ failing' = failing - 1
    /\ MaybeScheduleReconnect
    /\ UNCHANGED <<spoolVars, connVars, connected, sessionVars, outcomeVars,
                   budgetVars>>
-----------------------------------------------------------------------------
(* A device, or the broker itself, publishes on a subscribed topic. *)
Publish(m) ==
    /\ session
    /\ Len(published) < MaxPublished
    /\ published' = Append(published, m)
    /\ UNCHANGED <<spoolVars, connVars, flagVars, handled, acked, forgotten,
                   outcomeVars, budgetVars>>

(* on_message() is due for the message m. *)
Due(m) ==
    /\ loop = "running" /\ socket = "up"
    /\ handled < Len(published)
    /\ m = published[handled + 1]

(* _handle_broker_event(): the value goes into the buffer. *)
ReceiveBroker(m) ==
    /\ Due(m) /\ IsBroker[m]
    /\ handled' = handled + 1
    /\ buffer' = buffer \cup {m}
    /\ UNCHANGED <<spoolVars, connVars, flagVars, published, acked, forgotten,
                   kept, refused, budgetVars>>

(* _on_message() and _handle_event(): the event is in the spool, or        *)
(* refused by it, before the loop acknowledges it.                         *)
ReceiveEvent(m) ==
    /\ Due(m) /\ ~IsBroker[m]
    /\ handled' = handled + 1
    /\ \/ EnqueueAccept(m) /\ kept' = kept \cup {handled'} /\ UNCHANGED refused
       \/ EnqueueReject(m) /\ refused' = refused \cup {handled'} /\ UNCHANGED kept
    /\ UNCHANGED <<connVars, flagVars, published, acked, forgotten, buffer,
                   budgetVars>>

BadReceiveRaises(m) ==  \* mutant: the exception is swallowed
    /\ Due(m) /\ ~IsBroker[m] /\ Fits(MakeRoom(m), m)
    /\ Fail
    /\ handled' = handled + 1
    /\ UNCHANGED <<spoolVars, connVars, flagVars, published, acked,
                   forgotten, outcomeVars>>

(* enqueue() raises: at its first statement, or at the commit, with the    *)
(* row left in the open transaction or rolled back.  The loop dies; no     *)
(* callback tells the client.                                              *)
ReceiveRaises(m) ==
    /\ Due(m) /\ ~IsBroker[m] /\ Fits(MakeRoom(m), m)
    /\ Fail
    /\ loop' = "dead"
    /\ \/ UNCHANGED spoolVars
       \/ /\ log' = Append(log, m)
          /\ view' \in {Insert(MakeRoom(m), m), disk}
          /\ UNCHANGED <<disk, held>>
    /\ UNCHANGED <<socket, session, flagVars, sessionVars, outcomeVars>>

(* The broker gets an acknowledgement of this connection. *)
AckArrives ==
    /\ socket = "up"
    /\ acked < handled
    /\ acked' = acked + 1
    /\ UNCHANGED <<spoolVars, connVars, flagVars, published, handled,
                   forgotten, outcomeVars, budgetVars>>

Receive(m) == ReceiveBroker(m) \/ ReceiveEvent(m) \/ ReceiveRaises(m)
-----------------------------------------------------------------------------
(* The writer takes a batch and removes it; the details are Ingestor's. *)
WriterTakes(n) ==
    /\ held = {} /\ view.live # {}
    /\ DequeueBatch(n)
    /\ UNCHANGED clientVars

WriterReleases ==
    /\ CommitBatch(held)
    /\ UNCHANGED clientVars

BadWriterRaises ==  \* mutant: the rows go uncounted
    /\ held # {}
    /\ Fail
    /\ view' \in {[view EXCEPT !.live = @ \ held], disk}
    /\ held' = {}
    /\ UNCHANGED <<log, disk, connVars, flagVars, sessionVars, outcomeVars>>

(* The commit of commit_batch() fails: the deletion stays in the open      *)
(* transaction or is rolled back; the writer loop logs and goes on.        *)
WriterRaises ==
    /\ held # {}
    /\ Fail
    /\ view' \in {Release(held), disk}
    /\ held' = {}
    /\ UNCHANGED <<log, disk, connVars, flagVars, sessionVars, outcomeVars>>

(* stop(): the loop ends, the connection closes; workers sleep on. *)
Stop ==
    /\ restarts < MaxRestarts
    /\ loop \in {"running", "waiting"}
    /\ loop' = "stopped" /\ socket' = "none"
    /\ connected' = FALSE
    /\ UNCHANGED <<spoolVars, session, reconnecting, attempt, asleep, failing,
                   sessionVars, outcomeVars, budgetVars>>

(* The process ends, by stop() or by a kill, and its successor starts. *)
Restart ==
    /\ restarts < MaxRestarts
    /\ restarts' = restarts + 1
    /\ Crash
    /\ socket' = "connecting" /\ loop' = "running"
    /\ connected' = FALSE /\ reconnecting' = FALSE /\ attempt' = 0
    /\ asleep' = 0 /\ failing' = 0
    /\ buffer' = {}
    /\ UNCHANGED <<session, sessionVars, kept, refused, faults>>

NetworkStep ==
    \/ ConnackAccepted
    \/ LoopFindsNoSocket
    \/ LoopReconnects
    \/ AckArrives
    \/ \E m \in Message : Receive(m)

WorkerStep == WorkerReconnects \/ WorkerFails \/ WorkerTriesAgain

WriterStep ==
    \/ \E n \in BatchSizes : WriterTakes(n)
    \/ WriterReleases
    \/ WriterRaises

Next ==
    \/ NetworkStep
    \/ ConnackRefused
    \/ ConnectionLost
    \/ BrokerForgets
    \/ WorkerStep
    \/ WriterStep
    \/ \E m \in Message : Publish(m)
    \/ Stop
    \/ Restart

(* Threads run and sleeps end; after the failures the broker answers.  A   *)
(* stopped process ends and the container starts it again.                 *)
Fairness ==
    /\ WF_vars(NetworkStep)
    /\ WF_vars(WorkerStep)
    /\ WF_vars(WriterStep)
    /\ WF_vars(loop = "stopped" /\ Restart)

Spec == Init /\ [][Next]_vars
FairSpec == Spec /\ Fairness
-----------------------------------------------------------------------------
(* _get_health_status() *)
Healthy == connected /\ view.total_bytes < CriticalBytes

Receiving == loop = "running" /\ socket = "up" /\ session

(* Type invariant of the client; there are never more reconnect workers,   *)
(* and no more attempts, than there were failures.                         *)
ClientTypeOK ==
    /\ socket \in {"none", "connecting", "up"}
    /\ loop \in {"running", "waiting", "dead", "stopped"}
    /\ connected \in BOOLEAN /\ reconnecting \in BOOLEAN /\ session \in BOOLEAN
    /\ attempt \in 0 .. MaxFaults
    /\ asleep \in Nat /\ failing \in Nat /\ asleep + failing <= faults
    /\ published \in Seq(Message)
    /\ handled \in 0 .. Len(published) /\ acked \in 0 .. Len(published)
    /\ buffer \subseteq Message
    /\ kept \cup refused \cup forgotten \subseteq Published
    /\ faults \in 0 .. MaxFaults /\ restarts \in 0 .. MaxRestarts

(* A connection in use is one the client knows of and the broker delivers  *)
(* on: however the workers, the loop and the broker tear connections down, *)
(* an accepted one is subscribed and reported (_on_connect).               *)
UpIsUsable == socket = "up" /\ Running => connected /\ session

(* Two back-offs beside each other never do worse than one: workers do not *)
(* multiply without failures, and whoever made the connection in use, it   *)
(* is subscribed and known (_maybe_schedule_reconnect, _on_connect).       *)
ConnectionsAreSound == ClientTypeOK /\ UpIsUsable

(* The broker may only forget a message the program has dealt with: it is  *)
(* in the committed spool or was refused by its policy before the          *)
(* acknowledgement went out, through reconnects, deaths of the loop,       *)
(* failed commits and restarts (_on_message runs before the PUBACK).       *)
AckedIsKept ==
    \A i \in 1 .. acked :
        IsBroker[published[i]] \/ i \in kept \cup refused \cup forgotten

(* The guard of the reconnect thread: the program never has two reconnect  *)
(* workers at a time (mqtt_client.py:4).                                   *)
OneReconnectWorker == asleep + failing <= 1

(* After the last failure the process receives and is healthy for good,    *)
(* although workers go on tearing down the connections of the loop and the *)
(* loop those of the workers; unless an exception ended the loop.          *)
RecoversForGood == <>[](loop = "dead" \/ (Receiving /\ Healthy))

(* Every message for the session reaches the spool or is refused by it,    *)
(* unless the broker lost it or an exception ended the loop: none is       *)
(* stranded by a reconnect.                                                *)
EveryMessageArrives ==
    \A i \in 1 .. MaxPublished :
        (i \in Published /\ ~IsBroker[published[i]])
            ~> (i \in kept \cup refused \cup forgotten \/ loop = "dead")
=============================================================================
