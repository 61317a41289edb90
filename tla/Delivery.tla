------------------------------ MODULE Delivery ------------------------------
(***************************************************************************)
(* What the MQTT ingestor promises for the messages it accepts from the    *)
(* broker, whatever it is built of: a message accepted is kept in a queue  *)
(* until it is settled (stored, filed, dead-lettered, or given up with a   *)
(* log line that says so) or shed by the configured policy, oldest first.  *)
(* It may be settled more than once, and a message shed may come back as   *)
(* long as the shedding is not durable.                                    *)
(***************************************************************************)
EXTENDS Naturals

CONSTANT Sheds  \* TRUE when the policy is to shed the oldest messages

VARIABLES accepted,  \* how many messages were accepted: 1 .. accepted
          queue, shed, settled

deliveryVars == <<accepted, queue, shed, settled>>

DeliveryInit == accepted = 0 /\ queue = {} /\ shed = {} /\ settled = {}

(* The messages S may be shed from the queue: the oldest, by policy. *)
MayShed(S) ==
    /\ S \subseteq queue
    /\ S # {} => Sheds
    /\ \A i \in S, j \in queue \ S : i < j

AcceptOne(S) ==
    /\ MayShed(S)
    /\ accepted' = accepted + 1
    /\ queue' = (queue \ S) \cup {accepted'}
    /\ shed' = shed \cup S
    /\ UNCHANGED settled

Shed(S) ==
    /\ MayShed(S)
    /\ queue' = queue \ S
    /\ shed' = shed \cup S
    /\ UNCHANGED <<accepted, settled>>

Recover(S) ==
    /\ S \subseteq shed
    /\ shed' = shed \ S
    /\ queue' = queue \cup S
    /\ UNCHANGED <<accepted, settled>>

(* Settle the messages S and take R, settled by now, out of the queue. *)
Process(S, R) ==
    /\ S \subseteq queue \cup shed \cup settled
    /\ settled' = settled \cup S
    /\ R \subseteq queue \cap settled'
    /\ queue' = queue \ R
    /\ UNCHANGED <<accepted, shed>>

DeliveryNext ==
    \/ \E S \in SUBSET queue : AcceptOne(S) \/ Shed(S)
    \/ \E S \in SUBSET shed : Recover(S)
    \/ \E S \in SUBSET (queue \cup shed), R \in SUBSET queue : Process(S, R)

DeliverySpec == DeliveryInit /\ [][DeliveryNext]_deliveryVars
-----------------------------------------------------------------------------
(* The promise: no accepted message is in none of the three places, and a  *)
(* queued message is not shed.  (roles/mqtt_ingestor, spool.py and         *)
(* pipeline.py together.)                                                  *)
NothingLost ==
    /\ queue \cup shed \cup settled = 1 .. accepted
    /\ queue \cap shed = {}
=============================================================================
