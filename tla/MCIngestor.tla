----------------------------- MODULE MCIngestor -----------------------------
(***************************************************************************)
(* Ingestor on small instances.  Each configuration picks its messages     *)
(* from one list:                                                          *)
(*   "status1"  status of D1, no serial: registers D1 with a placeholder   *)
(*   "items1"   scan statistics of D1, with its serial: upgrades it        *)
(*   "items2"   scan statistics of D2, no serial                           *)
(*   "moved2"   scan statistics of D2, with the serial of D1               *)
(*   "file1"    settings of D1                                             *)
(*   "other1"   a topic of D1 that maps to no table                        *)
(*   "bad"      rejected before the device is resolved                     *)
(*   "big"      larger than the cap of the spool                           *)
(*   "poison1"  drives of D1 with a null drive letter                      *)
(***************************************************************************)
EXTENDS Ingestor

CONSTANTS MaxIds,      \* bound: rows ever inserted
          MaxFailures  \* bound: failures after which the writer takes no batch

MCDevice == {"D1", "D2"}
MCKind ==
    [status1 |-> "status", items1 |-> "itemlog", items2 |-> "itemlog",
     moved2 |-> "itemlog", file1 |-> "settings", other1 |-> "unmapped",
     bad |-> "rejected", big |-> "rejected", poison1 |-> "malformed"]
MCKindOf == [m \in Message |-> MCKind[m]]
MCDeviceOf == [m \in Message |-> IF m \in {"items2", "moved2"} THEN "D2" ELSE "D1"]
MCSerialOf == [m \in Message |-> IF m \in {"items1", "moved2"} THEN "S1" ELSE NoSerial]
MCPayloadBytes == [m \in Message |-> IF m = "big" THEN MaxBytes ELSE 0]

\* By machine name and location: distinct, or shared by two customers.
MCPlaceholder == [d \in Device |-> d]
MCSharedPlaceholder == [d \in Device |-> "UNKNOWN"]

MCNext ==
    /\ Next
    /\ Len(log') <= MaxIds
    /\ pc = "idle" /\ pc' # "idle" =>
           \A i \in held' : failures[i] < MaxFailures
MCSpec == Init /\ [][MCNext]_vars

\* A bound must not stop a step that fairness promises.
MCFairNext == Next /\ Len(log') <= MaxIds
MCFairSpec == Init /\ [][MCFairNext]_vars /\ Fairness

(* Every message accepted is settled and off the spool in the end, or      *)
(* dropped by policy, provided no handler raises: a batch that cannot be   *)
(* stored (a serial taken by another device) is dead-lettered and does not *)
(* block the ones behind it, and what a crash interrupts is taken up again *)
(* (writer loop, write_batch and write_deadletter).                        *)
AllSettled == \A i \in 1 .. MaxIds : EventuallySettled(i)
=============================================================================
