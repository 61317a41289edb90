----------------------------- MODULE MCReporter -----------------------------
(***************************************************************************)
(* Reporter with two devices of different keys.  check-alerts and          *)
(* sync-status read the same devices and share nothing they write, so each *)
(* behaviour runs one of the two jobs, beside everything that happens to   *)
(* the devices.                                                            *)
(***************************************************************************)
EXTENDS Reporter

VARIABLE job  \* the job of this behaviour

MCKeyOf == [d \in Device |-> d]

MCInit == Init /\ job \in {"check", "sync"}
MCNext ==
    /\ Next
    /\ UNCHANGED job
    /\ job = "check" => UNCHANGED statusVars
    /\ job = "sync" => UNCHANGED <<files, check, heard>>
MCSpec ==
    /\ MCInit /\ [][MCNext]_<<vars, job>>
    /\ WF_vars(job = "sync" /\ SyncStep)
    /\ WF_vars(job = "check" /\ CheckStep)

(* When nothing happens any more, dbo.device_status comes to say what the  *)
(* telemetry says, whatever devices said of themselves and however old the *)
(* look of an overtaken sync was (sync-status, every 20 minutes).          *)
StatusConverges == job = "sync" => TableFollowsFleet

(* When nothing happens any more, the state files come to list every       *)
(* device that is down and no other, and Teams holds down what they list:  *)
(* failed posts, killed runs and damaged files do not keep a device off    *)
(* them.  Excepted are the devices whose recovery was announced by a run   *)
(* that did not commit; they may be down again without an alert.           *)
AlertsConverge == job = "check" => FilesFollowFleet
=============================================================================
