------------------------------ MODULE Reporter ------------------------------
(***************************************************************************)
(* The alerts and the status sync of the Teams reporter                    *)
(* (s1_reporter/files/app/s1_reporter: reports.py, state.py, liveness.py,  *)
(* upload.py, status_sync.py, teams.py, cli.py).                           *)
(*                                                                         *)
(* Cron starts two kinds of one-shot process over the same database.       *)
(* check-alerts looks at the devices, compares with a state file, posts    *)
(* the differences to Teams and then replaces the file; it does so first   *)
(* for offline devices, then for stuck uploads.  sync-status looks at the  *)
(* devices and writes what it saw into dbo.device_status, which the        *)
(* ingestor writes too, from what devices say of themselves.  Between the  *)
(* look and the write devices report, age and are edited.                  *)
(*                                                                         *)
(* One process of each kind runs at a time.  A time step stands for the    *)
(* unit in which OfflineAge and StaleAge are counted.                      *)
(***************************************************************************)
EXTENDS Naturals, FiniteSets, Sequences

CONSTANTS Device,       \* rows of dbo.devices
          KeyOf,        \* machine_name@location, without the customer
          OfflineAge,   \* age from which a device is offline
          StaleAge,     \* age from which it is stale
          Consecutive,  \* packets with unsent items that make an alert, at
                        \* most the UPLOAD_LOOKBACK_PACKETS the query fetches
          NoTime,       \* NULL
          Horizon,      \* bound: the last moment
          MaxEvents,    \* bound: packets, status messages and edits
          MaxFaults     \* bound: failed posts, killed runs, damaged files

ASSUME ReporterAssumption ==
    /\ OfflineAge \in Nat /\ StaleAge \in Nat /\ OfflineAge < StaleAge
    /\ Consecutive \in Nat \ {0}
    /\ NoTime \notin Nat
    /\ Horizon \in Nat /\ MaxEvents \in Nat /\ MaxFaults \in Nat

VARIABLES now,
          lastSeen,  \* latest packet in device_statistics, NoTime if none
          recent,    \* newest packets, newest first: were items not sent?
          enabled,   \* reporting_enabled
          muted,     \* devices whose muted_until is in the future
          table,     \* dbo.device_status
          files,     \* keys in the state file of each kind of alert
          check,     \* the check-alerts process
          sync,      \* the sync-status process and what it saw
          told,      \* history: keys Teams last heard to be down
          unsaid,    \* history: keys Teams heard to be up from a run that
                     \* did not commit, and that were not alerted since
          unfiled,   \* history: keys announced by a run that did not commit,
                     \* or gone from a file without a card, while Teams held
                     \* them down, and that were not alerted since
          repeated,  \* history: keys alerted while Teams held them down
                     \* though they were not unfiled
          back,      \* history: keys with a packet since last seen offline
          events, faults

fleetVars == <<now, lastSeen, recent, enabled, muted>>
heard == <<told, unsaid, unfiled, repeated>>
alertVars == <<files, check, heard, back>>
statusVars == <<table, sync>>
vars == <<fleetVars, alertVars, statusVars, events, faults>>

Key == {KeyOf[d] : d \in Device}
Kind == {"offline", "upload"}
-----------------------------------------------------------------------------
(* classify(), for enabled devices; creation was at time 0. *)
LastSeen(d) == IF lastSeen[d] = NoTime THEN 0 ELSE lastSeen[d]
Age(d) == now - LastSeen(d)

Classify(d) ==
    CASE Age(d) >= StaleAge -> "stale"
      [] Age(d) < StaleAge /\ lastSeen[d] = NoTime -> "never"
      [] Age(d) \in OfflineAge .. StaleAge - 1 /\ lastSeen[d] # NoTime -> "offline"
      [] OTHER -> "online"

States == [d \in enabled |-> Classify(d)]

Keys(D) == {KeyOf[d] : d \in D}

(* alertable_offline() *)
Alertable == {d \in enabled \ muted : Classify(d) \in {"offline", "never"}}

BadSilent == Keys(enabled \cap muted)  \* mutant: stale devices announced

(* Keys that leave the offline state without a card. *)
Silent == Keys({d \in enabled : Classify(d) = "stale"} \cup (enabled \cap muted))

(* detect_upload_failures(): the packets of all devices that share a key   *)
(* are taken together, sorted by their rank within their own device.       *)
Packets(k) ==
    {p \in enabled \X (1 .. Consecutive) :
        KeyOf[p[1]] = k /\ p[2] <= Len(recent[p[1]])}

(* The first Consecutive of them; equal ranks come in any order. *)
Newest(k) ==
    {P \in SUBSET Packets(k) :
        /\ Cardinality(P) = Consecutive
        /\ \A p \in P, q \in Packets(k) \ P : p[2] <= q[2]}

Stuck(P) == \A p \in P : recent[p[1]][p[2]]

(* The answers a run may come to. *)
UploadFailing ==
    {F \in SUBSET Key :
        \A k \in Key :
            IF k \in F THEN \E P \in Newest(k) : Stuck(P)
            ELSE Newest(k) = {} \/ \E P \in Newest(k) : ~Stuck(P)}
-----------------------------------------------------------------------------
Idle == [phase |-> "idle"]

Init ==
    /\ now = 0
    /\ lastSeen \in [Device -> {0, NoTime}]
    /\ recent = [d \in Device |-> IF lastSeen[d] = NoTime THEN <<>> ELSE <<FALSE>>]
    /\ enabled = Device /\ muted = {}
    /\ table = [d \in Device |-> [status |-> "none", since |-> NoTime]]
    /\ files = [a \in Kind |-> {}]
    /\ check = Idle /\ sync = Idle
    /\ told = [a \in Kind |-> {}]
    /\ unsaid = {} /\ unfiled = {} /\ repeated = {} /\ back = {}
    /\ events = 0 /\ faults = 0

Event == events < MaxEvents /\ events' = events + 1 /\ UNCHANGED faults
Fault == faults < MaxFaults /\ faults' = faults + 1 /\ UNCHANGED events
NoBudget == UNCHANGED <<events, faults>>

Tick ==
    /\ now < Horizon
    /\ now' = now + 1
    /\ UNCHANGED <<lastSeen, recent, enabled, muted, alertVars, statusVars>>
    /\ NoBudget

(* A packet of d reaches device_statistics. *)
Report(d) ==
    /\ Event
    /\ lastSeen' = [lastSeen EXCEPT ![d] = now]
    /\ \E stuck \in BOOLEAN :
          recent' = [recent EXCEPT ![d] =
              <<stuck>> \o (IF Len(@) < Consecutive THEN @
                            ELSE SubSeq(@, 1, Consecutive - 1))]
    /\ back' = back \cup {KeyOf[d]}
    /\ UNCHANGED <<now, enabled, muted, files, check, heard, statusVars>>

(* An operator edits dbo.devices, or a mute runs out. *)
Edit(d) ==
    /\ Event
    /\ \/ enabled' \in {enabled \ {d}, enabled \cup {d}} /\ UNCHANGED muted
       \/ muted' \in {muted \ {d}, muted \cup {d}} /\ UNCHANGED enabled
    /\ <<enabled, muted>>' # <<enabled, muted>>
    /\ UNCHANGED <<now, lastSeen, recent, alertVars, statusVars>>

(* The ingestor's MERGE for a live status message of d. *)
IngestStatus(d, s) ==
    /\ Event
    /\ table' = [table EXCEPT ![d] =
          [status |-> s,
           since |-> CASE s = "online" -> NoTime
                       [] s = "offline" /\ @.since = NoTime -> now
                       [] OTHER -> @.since]]
    /\ UNCHANGED <<fleetVars, alertVars, sync>>
-----------------------------------------------------------------------------
(* sync-status: _states(). *)
SyncLooks ==
    /\ sync = Idle
    /\ sync' = [phase |-> "seen", states |-> States,
                since |-> [d \in enabled |-> LastSeen(d)]]
    /\ UNCHANGED <<fleetVars, alertVars, table>>
    /\ NoBudget

BadStatusOf(s) == IF s \in {"online", "stale"} THEN "online" ELSE "offline"  \* mutant

(* rows_for_merge(): stale and never count as offline. *)
StatusOf(s) == IF s = "online" THEN "online" ELSE "offline"

BadMerged(old, status, since) ==  \* mutant: no COALESCE
    [status |-> status, since |-> IF status = "offline" THEN since ELSE NoTime]

BadMergedKeeps(old, status, since) ==  \* mutant: no ELSE NULL
    [status |-> status,
     since |-> IF old.since # NoTime THEN old.since
               ELSE IF status = "offline" THEN since ELSE NoTime]

(* The MERGE of one row: a known offline_since stays. *)
Merged(old, status, since) ==
    [status |-> status,
     since |-> CASE status # "offline" -> NoTime
                 [] status = "offline" /\ old.since # NoTime -> old.since
                 [] OTHER -> since]

(* All rows are merged in one transaction. *)
SyncMerges ==
    /\ sync.phase = "seen"
    /\ table' = [d \in Device |->
          IF d \in DOMAIN sync.states
          THEN Merged(table[d], StatusOf(sync.states[d]), sync.since[d])
          ELSE table[d]]
    /\ sync' = Idle
    /\ UNCHANGED <<fleetVars, alertVars>>
    /\ NoBudget
-----------------------------------------------------------------------------
(* check-alerts: the query, for the offline alerts and, once they are      *)
(* dealt with, for the upload alerts.                                      *)
Look(a, current, quiet) ==
    [phase |-> "seen", kind |-> a, current |-> current, quiet |-> quiet]

CheckLooks ==
    /\ \/ /\ check = Idle
          /\ check' = Look("offline", Keys(Alertable), Silent \cup (Key \ Keys(enabled)))
          /\ back' = back \ check'.current
       \/ /\ check.phase = "next"
          /\ \E failing \in UploadFailing : check' = Look("upload", failing, {})
          /\ UNCHANGED back
    /\ UNCHANGED <<fleetVars, files, heard, statusVars>>
    /\ NoBudget

BadCheckCompares ==  \* mutant: nothing is committed when no card is due
    /\ check.phase = "seen"
    /\ LET prev == files[check.kind]
           new == check.current \ prev
           recovered == (prev \ check.current) \ check.quiet
       IN  check' = [phase |-> "alert", kind |-> check.kind, new |-> new,
                     recovered |-> recovered, pending |-> check.current,
                     sent |-> new \cup recovered # {}]
    /\ UNCHANGED <<fleetVars, files, heard, back, statusVars>>
    /\ NoBudget

(* diff() against the state file, and what becomes of the differences. *)
CheckCompares ==
    /\ check.phase = "seen"
    /\ LET prev == files[check.kind]
       IN  check' = [phase |-> "alert", kind |-> check.kind,
                     new |-> check.current \ prev,
                     recovered |-> (prev \ check.current) \ check.quiet,
                     pending |-> check.current,
                     sent |-> TRUE]
    /\ UNCHANGED <<fleetVars, files, heard, back, statusVars>>
    /\ NoBudget

Of(K) == {check.kind} \X K  \* the keys K of the alerts of this run

(* A card appears in Teams: the alert, then the recovery. *)
HearsDown ==
    /\ told' = [told EXCEPT ![check.kind] = @ \cup check.new]
    /\ repeated' = repeated \cup (Of(check.new \cap told[check.kind]) \ unfiled)
    /\ unsaid' = unsaid \ Of(check.new)
    /\ unfiled' = unfiled \ Of(check.new)

HearsUp ==
    /\ told' = [told EXCEPT ![check.kind] = @ \ check.recovered]
    /\ UNCHANGED <<repeated, unsaid, unfiled>>

(* Teams accepts the alert card, if there is one. *)
AlertSent ==
    /\ check.phase = "alert"
    /\ HearsDown
    /\ check' = [check EXCEPT !.phase = "recovery"]
    /\ UNCHANGED <<fleetVars, files, back, statusVars>>
    /\ NoBudget

BadRecoverySent ==  \* mutant: the card is not waited for
    /\ check.phase = "recovery"
    /\ check' = [check EXCEPT !.phase = "commit", !.sent = TRUE]
    /\ HearsUp
    /\ UNCHANGED <<fleetVars, files, back, statusVars>>
    /\ NoBudget

RecoverySent ==
    /\ check.phase = "recovery"
    /\ HearsUp
    /\ check' = [check EXCEPT !.phase = "commit"]
    /\ UNCHANGED <<fleetVars, files, back, statusVars>>
    /\ NoBudget

(* post_to_teams() gives up: the job goes on, but will not commit.  The    *)
(* card may have appeared all the same, when only the answer was lost.     *)
PostFails ==
    /\ \/ /\ check.phase = "alert" /\ check.new # {}
          /\ check' = [check EXCEPT !.phase = "recovery", !.sent = FALSE]
          /\ HearsDown \/ UNCHANGED heard
       \/ /\ check.phase = "recovery" /\ check.recovered # {}
          /\ check' = [check EXCEPT !.phase = "commit", !.sent = FALSE]
          /\ HearsUp \/ UNCHANGED heard
    /\ Fault
    /\ UNCHANGED <<fleetVars, files, back, statusVars>>

AfterKind == IF check.kind = "offline" THEN [phase |-> "next"] ELSE Idle

(* A run ends without a commit: what Teams heard of it is on no file. *)
NotFiled ==
    /\ unsaid' = unsaid \cup Of(check.recovered \ told[check.kind])
    /\ unfiled' = unfiled \cup Of(check.new \cap told[check.kind])

BadCheckCommits ==  \* mutant: only new keys are kept
    /\ check.phase = "commit"
    /\ IF check.sent
       THEN /\ files' = [files EXCEPT ![check.kind] = check.pending \ @]
            /\ unfiled' = unfiled \cup
                  Of((files[check.kind] \ check.pending) \cap told[check.kind])
            /\ UNCHANGED unsaid
       ELSE NotFiled /\ UNCHANGED files
    /\ check' = AfterKind
    /\ UNCHANGED <<fleetVars, told, repeated, back, statusVars>>
    /\ NoBudget

(* commit() when every card was accepted; then the next kind of alert. *)
CheckCommits ==
    /\ check.phase = "commit"
    /\ IF check.sent
       THEN /\ files' = [files EXCEPT ![check.kind] = check.pending]
            /\ unfiled' = unfiled \cup
                  Of((files[check.kind] \ check.pending) \cap told[check.kind])
            /\ UNCHANGED unsaid
       ELSE NotFiled /\ UNCHANGED files
    /\ check' = AfterKind
    /\ UNCHANGED <<fleetVars, told, repeated, back, statusVars>>
    /\ NoBudget

(* A run is killed, or ends on a database error. *)
CheckDies ==
    /\ check # Idle
    /\ Fault
    /\ check' = Idle
    /\ IF check.phase \in {"alert", "recovery", "commit"} THEN NotFiled
       ELSE UNCHANGED <<unsaid, unfiled>>
    /\ UNCHANGED <<fleetVars, files, told, repeated, back, statusVars>>

(* A state file is lost or unreadable: load() takes it for empty. *)
FileDamaged(a) ==
    /\ files[a] # {}
    /\ Fault
    /\ files' = [files EXCEPT ![a] = {}]
    /\ unfiled' = unfiled \cup ({a} \X (files[a] \cap told[a]))
    /\ UNCHANGED <<fleetVars, check, told, unsaid, repeated, back, statusVars>>

SyncStep == SyncLooks \/ SyncMerges
CheckStep ==
    \/ CheckLooks \/ CheckCompares \/ AlertSent \/ RecoverySent \/ CheckCommits

Next ==
    \/ Tick
    \/ \E d \in Device : Report(d) \/ Edit(d)
    \/ \E d \in Device, s \in {"online", "offline", "unknown"} : IngestStatus(d, s)
    \/ SyncStep
    \/ CheckStep
    \/ PostFails
    \/ CheckDies
    \/ \E a \in Kind : FileDamaged(a)

(* Cron keeps starting both jobs and a run ends; posts and databases fail  *)
(* finitely often (MaxFaults).                                             *)
Fairness == WF_vars(SyncStep) /\ WF_vars(CheckStep)

Spec == Init /\ [][Next]_vars
FairSpec == Spec /\ Fairness
-----------------------------------------------------------------------------
(* Type invariant of the reporter.  An offline row has an offline_since,   *)
(* an online row has none, whoever wrote it.                               *)
ReporterTypeOK ==
    /\ now \in 0 .. Horizon
    /\ lastSeen \in [Device -> 0 .. now \cup {NoTime}]
    /\ recent \in [Device -> Seq(BOOLEAN)]
    /\ \A d \in Device :
          /\ Len(recent[d]) <= Consecutive
          /\ Len(recent[d]) = 0 <=> lastSeen[d] = NoTime
    /\ enabled \subseteq Device /\ muted \subseteq Device
    /\ table \in [Device -> [status : {"none", "online", "offline", "unknown"},
                             since : 0 .. now \cup {NoTime}]]
    /\ \A d \in Device :
          /\ table[d].status = "offline" => table[d].since # NoTime
          /\ table[d].status \in {"none", "online"} => table[d].since = NoTime
    /\ files \in [Kind -> SUBSET Key]
    /\ told \in [Kind -> SUBSET Key]
    /\ unsaid \subseteq Kind \X Key /\ unfiled \subseteq Kind \X Key
    /\ check.phase \in {"idle", "seen", "alert", "recovery", "commit", "next"}
    /\ sync.phase \in {"idle", "seen"}

(* Every key on file is one that Teams holds down, through failed posts,   *)
(* killed runs and damaged files (state.py: "commit() does, after Teams    *)
(* accepted"), with one exception: its recovery was announced, or is just  *)
(* being announced, and the run that did so did not commit.  Such a key    *)
(* that goes down again stays on file without an alert                     *)
(* (CommittedIsKnown).                                                     *)
FiledIsKnown ==
    \A a \in Kind :
        \A k \in files[a] \ told[a] :
            \/ <<a, k>> \in unsaid
            \/ check.phase = "commit" /\ check.kind = a /\ k \in check.recovered

(* What the jobs leave for the next run and for other programs is sound:   *)
(* an outage in dbo.device_status has a date and nothing else has one, and *)
(* the state files agree with what Teams heard, but for recoveries of runs *)
(* that did not commit.                                                    *)
RecordsAreSound == ReporterTypeOK /\ FiledIsKnown

(* Teams never hears from two runs that a key is down without hearing in   *)
(* between that it is up, except that since it last heard so that very key *)
(* was announced by a run that did not commit, left the file silently      *)
(* (stale, muted or disabled) or was lost with the file.  The copies that  *)
(* post_to_teams() may leave when it tries again count as one card.        *)
RepeatsHaveACause == repeated = {}

(* A run whose posts were all accepted leaves nothing offline on file of   *)
(* which Teams last heard that it is up: after a failed post the next run  *)
(* alerts again.                                                           *)
CommittedIsKnown ==
    check.phase = "commit" /\ check.sent =>
        check.pending \subseteq told[check.kind]

(* A recovery is announced only for a device that came back: a packet of  *)
(* its key arrived since check-alerts last saw it offline.  Devices that   *)
(* age into stale, are muted or disabled leave without a card              *)
(* (reports.py:59), whatever happens to posts, runs and files meanwhile.   *)
RecoveryMeansPacket ==
    check.phase = "recovery" /\ check.kind = "offline" =>
        check.recovered \subseteq back

(* offline_since dates the outage: as long as a device stays offline in    *)
(* the table it does not move, however often the reporter and the ingestor *)
(* write the row.                                                          *)
SinceIsKept ==
    [][\A d \in Device :
         table[d].status = "offline" /\ table'[d].status = "offline"
             => table'[d].since = table[d].since]_vars

(* dbo.device_status comes to say what the telemetry says, and stays so. *)
TableFollowsFleet ==
    <>[](\A d \in enabled :
            table[d].status = IF Classify(d) = "online" THEN "online" ELSE "offline")

(* The state files come to list what is down, and nothing else; what they  *)
(* list Teams holds down, unless it heard of a recovery from a run that    *)
(* did not commit.                                                         *)
FilesFollowFleet ==
    <>[](/\ files["offline"] = Keys(Alertable)
         /\ files["upload"] \in UploadFailing
         /\ \A a \in Kind : {a} \X (files[a] \ told[a]) \subseteq unsaid)
=============================================================================
