--------------------------- MODULE ReporterProofs ---------------------------
(***************************************************************************)
(* Proofs about Reporter, for every fleet, every age limit and any number  *)
(* of packets, edits, failed posts, killed runs and damaged files.         *)
(***************************************************************************)
EXTENDS Reporter, Integers, SequenceTheorems, TLAPS

(* What the two processes carry from their look to their writes. *)
CheckShape ==
    {[phase |-> "idle"], [phase |-> "next"]}
      \cup [phase : {"seen"}, kind : Kind, current : SUBSET Key, quiet : SUBSET Key]
      \cup [phase : {"alert", "recovery", "commit"}, kind : Kind,
            new : SUBSET Key, recovered : SUBSET Key, pending : SUBSET Key,
            sent : BOOLEAN]

SyncSees ==
    sync.phase = "seen" =>
        \A d \in DOMAIN sync.states : d \in Device /\ sync.since[d] \in 0 .. now

(* Teams holds k down, or heard of its recovery from a run that did not    *)
(* commit.                                                                 *)
Known(a, k) == k \in told[a] \/ <<a, k>> \in unsaid

(* The inductive invariant of the alerts: what a run is about to file is   *)
(* known, or it is new and the run has yet to announce it.                 *)
AlertIInv ==
    /\ check \in CheckShape
    /\ files \in [Kind -> SUBSET Key] /\ told \in [Kind -> SUBSET Key]
    /\ unsaid \subseteq Kind \X Key /\ unfiled \subseteq Kind \X Key
    /\ check.phase \in {"alert", "recovery", "commit"} =>
           check.recovered \cap check.pending = {}
    /\ check.phase = "alert" =>
           \A k \in check.pending \ check.new : Known(check.kind, k)
    /\ check.phase \in {"recovery", "commit"} /\ check.sent =>
           \A k \in check.pending : Known(check.kind, k)
    /\ FiledIsKnown

(* The inductive invariant of the fleet and its table: a row that says     *)
(* offline is dated, whoever wrote it, and so is every row a sync holds.   *)
FleetIInv ==
    /\ now \in 0 .. Horizon
    /\ lastSeen \in [Device -> 0 .. now \cup {NoTime}]
    /\ recent \in [Device -> Seq(BOOLEAN)]
    /\ \A d \in Device :
          /\ Len(recent[d]) <= Consecutive
          /\ Len(recent[d]) = 0 <=> lastSeen[d] = NoTime
    /\ enabled \subseteq Device /\ muted \subseteq Device
    /\ table \in [Device -> [status : {"none", "online", "offline", "unknown"},
                             since : 0 .. now \cup {NoTime}]]
    /\ \A d \in Device :
          /\ table[d].status = "offline" => table[d].since # NoTime
          /\ table[d].status \in {"none", "online"} => table[d].since = NoTime
    /\ sync.phase \in {"idle", "seen"}
    /\ SyncSees
-----------------------------------------------------------------------------
(* Every key of a set of devices is a key. *)
LEMMA KeysAreKeys ==
    ASSUME NEW D \in SUBSET Device
    PROVE  Keys(D) \subseteq Key
BY DEF Keys, Key

(* A look finds keys. *)
LEMMA LookShape ==
    ASSUME CheckLooks, enabled \subseteq Device, muted \subseteq Device
    PROVE  check' \in [phase : {"seen"}, kind : Kind, current : SUBSET Key,
                       quiet : SUBSET Key]
<1>1. Keys(Alertable) \in SUBSET Key
  BY DEF Keys, Key, Alertable
<1>2. Silent \cup (Key \ Keys(enabled)) \in SUBSET Key
  BY DEF Silent, Keys, Key
<1>3. CASE check' = Look("offline", Keys(Alertable), Silent \cup (Key \ Keys(enabled)))
  BY <1>1, <1>2, <1>3 DEF Look, Kind
<1>4. CASE \E failing \in UploadFailing : check' = Look("upload", failing, {})
  <2>1. PICK failing \in UploadFailing : check' = Look("upload", failing, {})
    BY <1>4
  <2>2. failing \in SUBSET Key
    BY DEF UploadFailing
  <2> QED
    BY <2>1, <2>2 DEF Look, Kind
<1> QED
  BY <1>3, <1>4 DEF CheckLooks

(* The alerts of a run, as pairs. *)
LEMMA OfPairs ==
    ASSUME NEW K, NEW a, NEW k
    PROVE  <<a, k>> \in Of(K) <=> a = check.kind /\ k \in K
BY DEF Of

LEMMA OfShape ==
    ASSUME check.kind \in Kind, NEW K \in SUBSET Key
    PROVE  Of(K) \subseteq Kind \X Key
BY DEF Of

LEMMA AlertInit == Init => AlertIInv
<1> SUFFICES ASSUME Init
             PROVE  AlertIInv
  OBVIOUS
<1>1. /\ check = [phase |-> "idle"]
      /\ files = [a \in Kind |-> {}]
      /\ told = [a \in Kind |-> {}] /\ unsaid = {} /\ unfiled = {}
  BY DEF Init, Idle
<1>2. check \in CheckShape
  BY <1>1 DEF CheckShape
<1> QED
  BY <1>1, <1>2 DEF AlertIInv, FiledIsKnown

LEMMA FleetInit == Init => FleetIInv
<1> SUFFICES ASSUME Init
             PROVE  FleetIInv
  OBVIOUS
<1>1. /\ now = 0 /\ lastSeen \in [Device -> {0, NoTime}]
      /\ enabled = Device /\ muted = {}
      /\ table = [d \in Device |-> [status |-> "none", since |-> NoTime]]
      /\ sync = [phase |-> "idle"]
  BY DEF Init, Idle
<1>2. /\ recent = [d \in Device |-> IF lastSeen[d] = NoTime THEN <<>> ELSE <<FALSE>>]
      /\ Consecutive \in Nat \ {0}
  BY ReporterAssumption DEF Init
<1>3. ASSUME NEW d \in Device
      PROVE  /\ recent[d] \in Seq(BOOLEAN) /\ Len(recent[d]) <= Consecutive
             /\ Len(recent[d]) = 0 <=> lastSeen[d] = NoTime
  <2>1. CASE lastSeen[d] = NoTime
    <3>1. recent[d] = << >>
      BY <1>2, <2>1
    <3>2. << >> \in Seq(BOOLEAN) /\ Len(<< >>) = 0
      OBVIOUS
    <3>3. recent[d] \in Seq(BOOLEAN) /\ Len(recent[d]) = 0
      BY <3>1, <3>2
    <3> QED
      BY <1>2, <2>1, <3>3
  <2>2. CASE lastSeen[d] # NoTime
    <3>1. recent[d] = <<FALSE>> /\ FALSE \in BOOLEAN
      BY <1>2, <2>2
    <3>2. recent[d] \in Seq(BOOLEAN) /\ Len(recent[d]) = 1
      BY <3>1
    <3> QED
      BY <1>2, <2>2, <3>2
  <2> QED
    BY <2>1, <2>2
<1>4. recent \in [Device -> Seq(BOOLEAN)]
  <2>1. recent = [d \in Device |-> recent[d]]
    BY <1>2
  <2> QED
    BY <1>3, <2>1
<1> QED
  BY <1>1, <1>3, <1>4, ReporterAssumption DEF FleetIInv, SyncSees
-----------------------------------------------------------------------------
(* What a run's alert, its recovery and its end without a commit do to     *)
(* what is known.                                                          *)
LEMMA DownIsKnown ==
    ASSUME AlertIInv, check.kind \in Kind, check.new \in SUBSET Key, HearsDown
    PROVE  /\ told' \in [Kind -> SUBSET Key]
           /\ unsaid' \subseteq Kind \X Key /\ unfiled' \subseteq Kind \X Key
           /\ \A a \in Kind, k \in Key : Known(a, k) => Known(a, k)'
           /\ \A a \in Kind, k \in Key :
                 a = check.kind /\ k \in check.new => Known(a, k)'
           /\ \A a \in Kind : told[a] \subseteq told'[a]
<1>1. /\ told \in [Kind -> SUBSET Key]
      /\ unsaid \subseteq Kind \X Key /\ unfiled \subseteq Kind \X Key
  BY DEF AlertIInv
<1>2. /\ told' = [told EXCEPT ![check.kind] = @ \cup check.new]
      /\ unsaid' = unsaid \ Of(check.new) /\ unfiled' = unfiled \ Of(check.new)
  BY DEF HearsDown
<1>3. /\ told'[check.kind] = told[check.kind] \cup check.new
      /\ \A a \in Kind : told[a] \subseteq told'[a]
      /\ told' \in [Kind -> SUBSET Key]
  BY <1>1, <1>2
<1>4. ASSUME NEW a \in Kind, NEW k \in Key, Known(a, k)
      PROVE  Known(a, k)'
  <2>1. CASE <<a, k>> \in Of(check.new)
    BY <1>3, <2>1, OfPairs DEF Known
  <2>2. CASE <<a, k>> \notin Of(check.new)
    BY <1>2, <1>3, <1>4, <2>2 DEF Known
  <2> QED
    BY <2>1, <2>2
<1>5. \A a \in Kind, k \in Key : a = check.kind /\ k \in check.new => Known(a, k)'
  BY <1>3 DEF Known
<1>6. unsaid' \subseteq Kind \X Key /\ unfiled' \subseteq Kind \X Key
  BY <1>1, <1>2
<1> QED
  BY <1>3, <1>4, <1>5, <1>6

LEMMA UpIsKnown ==
    ASSUME AlertIInv, check.kind \in Kind, HearsUp
    PROVE  /\ told' \in [Kind -> SUBSET Key] /\ UNCHANGED <<unsaid, unfiled>>
           /\ \A a \in Kind, k \in Key :
                 Known(a, k) =>
                     Known(a, k)' \/ (a = check.kind /\ k \in check.recovered)
           /\ \A a \in Kind : told'[a] \subseteq told[a]
<1>1. told \in [Kind -> SUBSET Key]
  BY DEF AlertIInv
<1>2. /\ told' = [told EXCEPT ![check.kind] = @ \ check.recovered]
      /\ UNCHANGED <<unsaid, unfiled>>
  BY DEF HearsUp
<1>3. /\ \A a \in Kind : told'[a] \subseteq told[a]
      /\ \A a \in Kind : \A k \in told[a] :
            k \in told'[a] \/ (a = check.kind /\ k \in check.recovered)
      /\ told' \in [Kind -> SUBSET Key]
  BY <1>1, <1>2
<1> QED
  BY <1>2, <1>3 DEF Known

LEMMA NotFiledIsKnown ==
    ASSUME AlertIInv, check.kind \in Kind, check.new \in SUBSET Key,
           check.recovered \in SUBSET Key, NotFiled, told' = told
    PROVE  /\ unsaid' \subseteq Kind \X Key /\ unfiled' \subseteq Kind \X Key
           /\ \A a \in Kind, k \in Key : Known(a, k) => Known(a, k)'
           /\ \A a \in Kind, k \in Key :
                 a = check.kind /\ k \in check.recovered => Known(a, k)'
<1>1. /\ unsaid \subseteq Kind \X Key /\ unfiled \subseteq Kind \X Key
      /\ told \in [Kind -> SUBSET Key]
  BY DEF AlertIInv
<1>2. /\ unsaid' = unsaid \cup Of(check.recovered \ told[check.kind])
      /\ unfiled' = unfiled \cup Of(check.new \cap told[check.kind])
  BY DEF NotFiled
<1>3. /\ Of(check.recovered \ told[check.kind]) \subseteq Kind \X Key
      /\ Of(check.new \cap told[check.kind]) \subseteq Kind \X Key
  BY OfShape
<1>4. \A a \in Kind, k \in Key : a = check.kind /\ k \in check.recovered => Known(a, k)'
  <2>1. ASSUME NEW k \in check.recovered
        PROVE  k \in told'[check.kind] \/ <<check.kind, k>> \in unsaid'
    BY <1>2, OfPairs
  <2> QED
    BY <2>1 DEF Known
<1>5. \A a \in Kind, k \in Key : Known(a, k) => Known(a, k)'
  BY <1>2 DEF Known
<1> QED
  BY <1>1, <1>2, <1>3, <1>4, <1>5

(* A run with cards to post. *)
Posting ==
    [phase : {"alert", "recovery", "commit"}, kind : Kind, new : SUBSET Key,
     recovered : SUBSET Key, pending : SUBSET Key, sent : BOOLEAN]

LEMMA PostingShape ==
    ASSUME AlertIInv, check.phase \in {"alert", "recovery", "commit"}
    PROVE  /\ check \in Posting /\ check.kind \in Kind
           /\ check.new \in SUBSET Key /\ check.recovered \in SUBSET Key
           /\ check.pending \in SUBSET Key
BY DEF AlertIInv, CheckShape, Posting

LEMMA AlertNext ==
    AlertIInv /\ enabled \subseteq Device /\ muted \subseteq Device
        /\ [Next]_vars => AlertIInv'
<1> SUFFICES ASSUME AlertIInv, enabled \subseteq Device, muted \subseteq Device,
                    [Next]_vars
             PROVE  AlertIInv'
  OBVIOUS
<1>0. /\ check \in CheckShape /\ files \in [Kind -> SUBSET Key]
      /\ told \in [Kind -> SUBSET Key]
      /\ unsaid \subseteq Kind \X Key /\ unfiled \subseteq Kind \X Key
      /\ FiledIsKnown
  BY DEF AlertIInv
<1>f. \A a \in Kind : \A k \in files[a] :
          Known(a, k) \/ (check.phase = "commit" /\ check.kind = a /\ k \in check.recovered)
  BY <1>0 DEF FiledIsKnown, Known
<1>1. CASE UNCHANGED <<files, check, told, unsaid, unfiled>>
  BY <1>1 DEF AlertIInv, FiledIsKnown, Known
<1>2. CASE CheckLooks
  <2>1. /\ UNCHANGED <<files, told, unsaid, unfiled>>
        /\ check.phase \in {"idle", "next"}
    BY <1>2 DEF CheckLooks, heard, Idle
  <2>2. check' \in [phase : {"seen"}, kind : Kind, current : SUBSET Key,
                    quiet : SUBSET Key]
    BY <1>2, LookShape
  <2>3. check' \in CheckShape /\ check'.phase = "seen"
    BY <2>2 DEF CheckShape
  <2>4. FiledIsKnown'
    BY <1>0, <2>1 DEF FiledIsKnown
  <2> QED
    BY <1>0, <2>1, <2>3, <2>4 DEF AlertIInv
<1>3. CASE CheckCompares
  <2>1. check.kind \in Kind /\ check.current \in SUBSET Key /\ check.phase = "seen"
    BY <1>0, <1>3 DEF CheckCompares, CheckShape
  <2>2. /\ check' = [phase |-> "alert", kind |-> check.kind,
                     new |-> check.current \ files[check.kind],
                     recovered |-> (files[check.kind] \ check.current) \ check.quiet,
                     pending |-> check.current, sent |-> TRUE]
        /\ UNCHANGED <<files, told, unsaid, unfiled>>
    BY <1>3 DEF CheckCompares, heard
  <2>3. check' \in CheckShape
    <3>1. TRUE \in BOOLEAN
      OBVIOUS
    <3>2. (files[check.kind] \ check.current) \ check.quiet \in SUBSET Key
      BY <1>0, <2>1
    <3>3. check.current \ files[check.kind] \in SUBSET Key
      BY <2>1
    <3> QED
      BY <2>1, <2>2, <3>1, <3>2, <3>3 DEF CheckShape
  <2>4. /\ check'.phase = "alert" /\ check'.kind = check.kind
        /\ check'.recovered \cap check'.pending = {}
        /\ check'.pending \ check'.new \subseteq files[check.kind]
    BY <2>2
  <2>5. \A k \in check'.pending \ check'.new : Known(check.kind, k)'
    BY <1>f, <2>1, <2>2, <2>4 DEF Known
  <2>6. FiledIsKnown'
    BY <1>0, <2>1, <2>2 DEF FiledIsKnown
  <2> QED
    BY <1>0, <2>2, <2>3, <2>4, <2>5, <2>6 DEF AlertIInv
<1>4. CASE AlertSent \/ (PostFails /\ check.phase = "alert")
  <2>0. check.phase = "alert"
    BY <1>4 DEF AlertSent
  <2>1. /\ check \in Posting /\ check.kind \in Kind /\ check.new \in SUBSET Key
        /\ check.pending \in SUBSET Key
    BY <2>0, PostingShape
  <2>2. /\ HearsDown \/ UNCHANGED heard
        /\ files' = files
        /\ \/ HearsDown /\ check' = [check EXCEPT !.phase = "recovery"]
           \/ check' = [check EXCEPT !.phase = "recovery", !.sent = FALSE]
    BY <1>4, <2>0 DEF AlertSent, PostFails
  <2>3. /\ check' \in CheckShape /\ check'.phase = "recovery"
        /\ check'.kind = check.kind /\ check'.pending = check.pending
        /\ check'.recovered = check.recovered
        /\ check'.sent => HearsDown
    <3>1. CASE HearsDown /\ check' = [check EXCEPT !.phase = "recovery"]
      BY <2>1, <3>1 DEF CheckShape, Posting
    <3>2. CASE check' = [check EXCEPT !.phase = "recovery", !.sent = FALSE]
      <4>1. FALSE \in BOOLEAN
        OBVIOUS
      <4> QED
        BY <2>1, <3>2, <4>1 DEF CheckShape, Posting
    <3> QED
      BY <2>2, <3>1, <3>2
  <2>4. /\ told' \in [Kind -> SUBSET Key]
        /\ unsaid' \subseteq Kind \X Key /\ unfiled' \subseteq Kind \X Key
        /\ \A a \in Kind, k \in Key : Known(a, k) => Known(a, k)'
    <3>1. CASE HearsDown
      BY <2>1, <3>1, DownIsKnown
    <3>2. CASE UNCHANGED heard
      BY <1>0, <3>2 DEF heard, Known
    <3> QED
      BY <2>2, <3>1, <3>2
  <2>5. check'.sent => \A k \in check'.pending : Known(check.kind, k)'
    <3>1. SUFFICES ASSUME HearsDown, NEW k \in check.pending
                   PROVE  Known(check.kind, k)'
      BY <2>3 DEF Known
    <3>2. CASE k \in check.new
      BY <2>1, <2>3, <3>1, <3>2, DownIsKnown DEF Known
    <3>3. CASE k \notin check.new
      <4>1. Known(check.kind, k) /\ k \in Key
        BY <2>0, <2>1, <3>1, <3>3 DEF AlertIInv
      <4> QED
        BY <2>1, <2>3, <2>4, <4>1 DEF Known
    <3> QED
      BY <3>2, <3>3
  <2>6. \A a \in Kind : \A k \in files'[a] : Known(a, k)'
    BY <1>0, <1>f, <2>0, <2>2, <2>4
  <2>7. FiledIsKnown'
    BY <2>6 DEF FiledIsKnown, Known
  <2>8. check'.recovered \cap check'.pending = {}
    BY <2>0, <2>3 DEF AlertIInv
  <2> QED
    BY <1>0, <2>2, <2>3, <2>4, <2>5, <2>7, <2>8 DEF AlertIInv
<1>5. CASE RecoverySent \/ (PostFails /\ check.phase # "alert")
  <2>0. check.phase = "recovery"
    BY <1>5 DEF RecoverySent, PostFails
  <2>1. /\ check \in Posting /\ check.kind \in Kind /\ check.recovered \in SUBSET Key
        /\ check.pending \in SUBSET Key
    BY <2>0, PostingShape
  <2>2. /\ HearsUp \/ UNCHANGED heard
        /\ files' = files
        /\ \/ check' = [check EXCEPT !.phase = "commit"]
           \/ check' = [check EXCEPT !.phase = "commit", !.sent = FALSE]
    BY <1>5, <2>0 DEF RecoverySent, PostFails
  <2>3. /\ check' \in CheckShape /\ check'.phase = "commit"
        /\ check'.kind = check.kind /\ check'.pending = check.pending
        /\ check'.recovered = check.recovered
        /\ check'.sent => check.sent
    <3>1. CASE check' = [check EXCEPT !.phase = "commit"]
      BY <2>1, <3>1 DEF CheckShape, Posting
    <3>2. CASE check' = [check EXCEPT !.phase = "commit", !.sent = FALSE]
      <4>1. FALSE \in BOOLEAN
        OBVIOUS
      <4> QED
        BY <2>1, <3>2, <4>1 DEF CheckShape, Posting
    <3> QED
      BY <2>2, <3>1, <3>2
  <2>4. /\ told' \in [Kind -> SUBSET Key] /\ UNCHANGED <<unsaid, unfiled>>
        /\ \A a \in Kind, k \in Key :
              Known(a, k) =>
                  Known(a, k)' \/ (a = check.kind /\ k \in check.recovered)
    <3>1. CASE HearsUp
      BY <2>1, <3>1, UpIsKnown
    <3>2. CASE UNCHANGED heard
      BY <1>0, <3>2 DEF heard, Known
    <3> QED
      BY <2>2, <3>1, <3>2
  <2>5. check'.recovered \cap check'.pending = {}
    BY <2>0, <2>3 DEF AlertIInv
  <2>6. check'.sent => \A k \in check'.pending : Known(check.kind, k)'
    <3>1. SUFFICES ASSUME check.sent, NEW k \in check.pending
                   PROVE  Known(check.kind, k)'
      BY <2>3 DEF Known
    <3>2. Known(check.kind, k) /\ k \in Key
      BY <2>0, <2>1, <3>1 DEF AlertIInv
    <3> QED
      BY <2>1, <2>3, <2>4, <2>5, <3>2
  <2>7. \A a \in Kind : \A k \in files'[a] :
            Known(a, k)' \/ (check'.phase = "commit" /\ check'.kind = a
                                /\ k \in check'.recovered)
    BY <1>0, <1>f, <2>0, <2>2, <2>3, <2>4
  <2>8. FiledIsKnown'
    BY <2>7 DEF FiledIsKnown, Known
  <2> QED
    BY <1>0, <2>2, <2>3, <2>4, <2>5, <2>6, <2>8 DEF AlertIInv
<1>6. CASE CheckCommits
  <2>0. check.phase = "commit"
    BY <1>6 DEF CheckCommits
  <2>1. /\ check.kind \in Kind /\ check.new \in SUBSET Key
        /\ check.recovered \in SUBSET Key /\ check.pending \in SUBSET Key
    BY <2>0, PostingShape
  <2>2. told' = told /\ check' = AfterKind
    BY <1>6 DEF CheckCommits
  <2>3. check' \in {[phase |-> "idle"], [phase |-> "next"]}
    BY <2>2 DEF AfterKind, Idle
  <2>4. check' \in CheckShape /\ check'.phase \in {"idle", "next"}
    BY <2>3 DEF CheckShape
  <2>5. /\ files' \in [Kind -> SUBSET Key]
        /\ unsaid' \subseteq Kind \X Key /\ unfiled' \subseteq Kind \X Key
        /\ \A a \in Kind : \A k \in files'[a] : Known(a, k)'
    <3>1. CASE check.sent
      <4>1. /\ files' = [files EXCEPT ![check.kind] = check.pending]
            /\ unsaid' = unsaid
            /\ unfiled' = unfiled \cup
                 Of((files[check.kind] \ check.pending) \cap told[check.kind])
        BY <1>6, <3>1 DEF CheckCommits
      <4>2. unfiled' \subseteq Kind \X Key
        <5>1. (files[check.kind] \ check.pending) \cap told[check.kind] \in SUBSET Key
          BY <1>0, <2>1
        <5> QED
          BY <1>0, <2>1, <4>1, <5>1, OfShape
      <4>3. \A k \in check.pending : Known(check.kind, k)
        BY <2>0, <3>1 DEF AlertIInv
      <4>4. \A a \in Kind : \A k \in files'[a] : Known(a, k)
        BY <1>0, <1>f, <2>1, <4>1, <4>3
      <4>5. \A a \in Kind, k \in Key : Known(a, k) => Known(a, k)'
        BY <2>2, <4>1 DEF Known
      <4>6. files' \in [Kind -> SUBSET Key]
        BY <1>0, <2>1, <4>1
      <4> QED
        BY <1>0, <4>1, <4>2, <4>4, <4>5, <4>6
    <3>2. CASE ~check.sent
      <4>1. NotFiled /\ files' = files
        BY <1>6, <3>2 DEF CheckCommits
      <4>2. /\ unsaid' \subseteq Kind \X Key /\ unfiled' \subseteq Kind \X Key
            /\ \A a \in Kind, k \in Key : Known(a, k) => Known(a, k)'
            /\ \A a \in Kind, k \in Key :
                  a = check.kind /\ k \in check.recovered => Known(a, k)'
        BY <2>1, <2>2, <4>1, NotFiledIsKnown
      <4>3. ASSUME NEW a \in Kind, NEW k \in files[a]
            PROVE  Known(a, k)'
        <5>1. k \in Key
          BY <1>0
        <5>2. CASE Known(a, k)
          BY <4>2, <5>1, <5>2
        <5>3. CASE check.kind = a /\ k \in check.recovered
          BY <4>2, <5>1, <5>3
        <5> QED
          BY <1>f, <5>2, <5>3
      <4> QED
        BY <1>0, <4>1, <4>2, <4>3
    <3> QED
      BY <3>1, <3>2
  <2>6. FiledIsKnown'
    BY <2>5 DEF FiledIsKnown, Known
  <2> QED
    BY <1>0, <2>2, <2>4, <2>5, <2>6 DEF AlertIInv
<1>7. CASE CheckDies
  <2>1. check' = [phase |-> "idle"] /\ UNCHANGED <<files, told>>
    BY <1>7 DEF CheckDies, Idle
  <2>2. check' \in CheckShape /\ check'.phase = "idle"
    BY <2>1 DEF CheckShape
  <2>3. /\ unsaid' \subseteq Kind \X Key /\ unfiled' \subseteq Kind \X Key
        /\ \A a \in Kind : \A k \in files[a] : Known(a, k)'
    <3>1. CASE check.phase \in {"alert", "recovery", "commit"}
      <4>1. NotFiled
        BY <1>7, <3>1 DEF CheckDies
      <4>2. /\ check.kind \in Kind /\ check.new \in SUBSET Key
            /\ check.recovered \in SUBSET Key
        BY <3>1, PostingShape
      <4>3. /\ unsaid' \subseteq Kind \X Key /\ unfiled' \subseteq Kind \X Key
            /\ \A a \in Kind, k \in Key : Known(a, k) => Known(a, k)'
            /\ \A a \in Kind, k \in Key :
                  a = check.kind /\ k \in check.recovered => Known(a, k)'
        BY <2>1, <4>1, <4>2, NotFiledIsKnown
      <4>4. ASSUME NEW a \in Kind, NEW k \in files[a]
            PROVE  Known(a, k)'
        <5>1. k \in Key
          BY <1>0
        <5>2. CASE Known(a, k)
          BY <4>3, <5>1, <5>2
        <5>3. CASE check.kind = a /\ k \in check.recovered
          BY <4>3, <5>1, <5>3
        <5> QED
          BY <1>f, <5>2, <5>3
      <4> QED
        BY <4>3, <4>4
    <3>2. CASE check.phase \notin {"alert", "recovery", "commit"}
      <4>1. UNCHANGED <<unsaid, unfiled>>
        BY <1>7, <3>2 DEF CheckDies
      <4> QED
        BY <1>0, <1>f, <2>1, <3>2, <4>1 DEF Known
    <3> QED
      BY <3>1, <3>2
  <2>4. FiledIsKnown'
    BY <2>1, <2>3 DEF FiledIsKnown, Known
  <2> QED
    BY <1>0, <2>1, <2>2, <2>3, <2>4 DEF AlertIInv
<1>8. CASE \E a \in Kind : FileDamaged(a)
  <2>1. PICK a \in Kind : FileDamaged(a)
    BY <1>8
  <2>2. /\ files' = [files EXCEPT ![a] = {}] /\ UNCHANGED <<check, told, unsaid>>
        /\ unfiled' = unfiled \cup ({a} \X (files[a] \cap told[a]))
    BY <2>1 DEF FileDamaged
  <2>3. /\ files' \in [Kind -> SUBSET Key]
        /\ \A b \in Kind : files'[b] \subseteq files[b]
    BY <1>0, <2>2
  <2>4. unfiled' \subseteq Kind \X Key
    <3>1. files[a] \cap told[a] \in SUBSET Key
      BY <1>0
    <3>2. {a} \X (files[a] \cap told[a]) \subseteq Kind \X Key
      BY <3>1
    <3> QED
      BY <1>0, <2>2, <3>2
  <2>5. FiledIsKnown'
    BY <1>0, <2>2, <2>3 DEF FiledIsKnown
  <2> QED
    BY <2>2, <2>3, <2>4, <2>5 DEF AlertIInv, Known
<1>9. CASE \/ Tick
           \/ \E d \in Device : Report(d) \/ Edit(d)
           \/ \E d \in Device, s \in {"online", "offline", "unknown"} : IngestStatus(d, s)
           \/ SyncStep \/ UNCHANGED vars
  <2>1. UNCHANGED <<files, check, told, unsaid, unfiled>>
    BY <1>9 DEF Tick, Report, Edit, IngestStatus, SyncStep, SyncLooks, SyncMerges,
                vars, alertVars, heard
  <2> QED
    BY <1>1, <2>1
<1> QED
  BY <1>2, <1>3, <1>4, <1>5, <1>6, <1>7, <1>8, <1>9 DEF Next, CheckStep

(* The merge of a row keeps an offline row dated. *)
LEMMA MergedShape ==
    ASSUME FleetIInv, NEW d \in Device, NEW s, NEW t \in 0 .. now
    PROVE  /\ Merged(table[d], StatusOf(s), t) \in
                 [status : {"online", "offline"}, since : 0 .. now \cup {NoTime}]
           /\ Merged(table[d], StatusOf(s), t).status = "offline" =>
                 Merged(table[d], StatusOf(s), t).since # NoTime
           /\ Merged(table[d], StatusOf(s), t).status = "online" =>
                 Merged(table[d], StatusOf(s), t).since = NoTime
           /\ table[d].status = "offline" /\ StatusOf(s) = "offline" =>
                 Merged(table[d], StatusOf(s), t).since = table[d].since
<1>1. /\ table[d] \in [status : {"none", "online", "offline", "unknown"},
                       since : 0 .. now \cup {NoTime}]
      /\ table[d].status = "offline" => table[d].since # NoTime
      /\ t # NoTime
  BY ReporterAssumption DEF FleetIInv
<1>2. CASE s = "online"
  BY <1>1, <1>2 DEF Merged, StatusOf
<1>3. CASE s # "online" /\ table[d].since # NoTime
  BY <1>1, <1>3 DEF Merged, StatusOf
<1>4. CASE s # "online" /\ table[d].since = NoTime
  BY <1>1, <1>4 DEF Merged, StatusOf
<1> QED
  BY <1>2, <1>3, <1>4

(* What the two writers of the table do to a row. *)
LEMMA TableNext ==
    ASSUME FleetIInv, [Next]_vars
    PROVE  /\ table' \in [Device -> [status : {"none", "online", "offline", "unknown"},
                                     since : 0 .. now \cup {NoTime}]]
           /\ \A d \in Device :
                 /\ table'[d].status = "offline" => table'[d].since # NoTime
                 /\ table'[d].status \in {"none", "online"} => table'[d].since = NoTime
                 /\ table[d].status = "offline" /\ table'[d].status = "offline"
                        => table'[d].since = table[d].since
<1>0. /\ table \in [Device -> [status : {"none", "online", "offline", "unknown"},
                               since : 0 .. now \cup {NoTime}]]
      /\ \A d \in Device :
            /\ table[d].status = "offline" => table[d].since # NoTime
            /\ table[d].status \in {"none", "online"} => table[d].since = NoTime
      /\ now \in Nat /\ NoTime \notin Nat /\ SyncSees
  BY ReporterAssumption DEF FleetIInv
<1>1. CASE UNCHANGED table
  BY <1>0, <1>1
<1>2. CASE \E d \in Device, s \in {"online", "offline", "unknown"} : IngestStatus(d, s)
  <2>1. PICK d \in Device, s \in {"online", "offline", "unknown"} : IngestStatus(d, s)
    BY <1>2
  <2>2. table' = [table EXCEPT ![d] =
                    [status |-> s,
                     since |-> CASE s = "online" -> NoTime
                                 [] s = "offline" /\ @.since = NoTime -> now
                                 [] OTHER -> @.since]]
    BY <2>1 DEF IngestStatus
  <2>3. /\ table'[d].status = s
        /\ s = "online" => table'[d].since = NoTime
        /\ s = "offline" /\ table[d].since = NoTime => table'[d].since = now
        /\ s = "offline" /\ table[d].since # NoTime => table'[d].since = table[d].since
        /\ s = "unknown" => table'[d].since = table[d].since
        /\ \A e \in Device \ {d} : table'[e] = table[e]
    BY <1>0, <2>2
  <2>4. table' \in [Device -> [status : {"none", "online", "offline", "unknown"},
                               since : 0 .. now \cup {NoTime}]]
    <3>1. CASE s = "online"
      BY <1>0, <2>2, <3>1
    <3>2. CASE s = "offline" /\ table[d].since = NoTime
      BY <1>0, <2>2, <3>2
    <3>3. CASE s # "online" /\ (s = "offline" => table[d].since # NoTime)
      BY <1>0, <2>2, <3>3
    <3> QED
      BY <3>1, <3>2, <3>3
  <2> QED
    BY <1>0, <2>3, <2>4
<1>3. CASE SyncMerges
  <2>1. /\ sync.phase = "seen"
        /\ table' = [d \in Device |->
              IF d \in DOMAIN sync.states
              THEN Merged(table[d], StatusOf(sync.states[d]), sync.since[d])
              ELSE table[d]]
    BY <1>3 DEF SyncMerges
  <2>2. \A d \in DOMAIN sync.states : d \in Device /\ sync.since[d] \in 0 .. now
    BY <1>0, <2>1 DEF SyncSees
  <2>3. ASSUME NEW d \in Device
        PROVE  /\ table'[d] \in [status : {"none", "online", "offline", "unknown"},
                                 since : 0 .. now \cup {NoTime}]
               /\ table'[d].status = "offline" => table'[d].since # NoTime
               /\ table'[d].status \in {"none", "online"} => table'[d].since = NoTime
               /\ table[d].status = "offline" /\ table'[d].status = "offline"
                      => table'[d].since = table[d].since
    <3>1. CASE d \in DOMAIN sync.states
      <4>1. table'[d] = Merged(table[d], StatusOf(sync.states[d]), sync.since[d])
        BY <2>1, <3>1
      <4>2. sync.since[d] \in 0 .. now
        BY <2>2, <3>1
      <4>3. Merged(table[d], StatusOf(sync.states[d]), sync.since[d]).status
              = StatusOf(sync.states[d])
        BY DEF Merged
      <4> QED
        BY <4>1, <4>2, <4>3, MergedShape
    <3>2. CASE d \notin DOMAIN sync.states
      BY <1>0, <2>1, <3>2
    <3> QED
      BY <3>1, <3>2
  <2> QED
    BY <2>1, <2>3
<1>4. CASE ~ SyncMerges /\ ~ \E d \in Device, s \in {"online", "offline", "unknown"} :
                               IngestStatus(d, s)
  BY <1>1, <1>4
  DEF Next, Tick, Report, Edit, SyncStep, SyncLooks, CheckStep, CheckLooks,
      CheckCompares, AlertSent, RecoverySent, CheckCommits, PostFails, CheckDies,
      FileDamaged, vars, statusVars
<1> QED
  BY <1>2, <1>3, <1>4

(* The first n members of a sequence. *)
LEMMA FirstOf ==
    ASSUME NEW S, NEW s \in Seq(S), NEW n \in Nat, n <= Len(s)
    PROVE  SubSeq(s, 1, n) \in Seq(S) /\ Len(SubSeq(s, 1, n)) = n
<1>1. 1 \in Int /\ n \in Int /\ (n < 1 => n = 0)
  OBVIOUS
<1>2. \A i \in 1 .. n : s[i] \in S
  <2>1. s \in [1 .. Len(s) -> S] /\ Len(s) \in Nat
    OBVIOUS
  <2> QED
    BY <2>1
<1>3. /\ SubSeq(s, 1, n) \in Seq(S)
      /\ Len(SubSeq(s, 1, n)) = IF 1 <= n THEN n - 1 + 1 ELSE 0
  BY <1>1, <1>2, SubSeqProperties
<1> QED
  BY <1>1, <1>3

LEMMA FleetNext == FleetIInv /\ [Next]_vars => FleetIInv'
<1> SUFFICES ASSUME FleetIInv, [Next]_vars
             PROVE  FleetIInv'
  OBVIOUS
<1>0. /\ now \in 0 .. Horizon /\ lastSeen \in [Device -> 0 .. now \cup {NoTime}]
      /\ recent \in [Device -> Seq(BOOLEAN)]
      /\ \A d \in Device :
            /\ Len(recent[d]) <= Consecutive
            /\ Len(recent[d]) = 0 <=> lastSeen[d] = NoTime
      /\ enabled \subseteq Device /\ muted \subseteq Device
      /\ sync.phase \in {"idle", "seen"} /\ SyncSees
      /\ Consecutive \in Nat \ {0} /\ Horizon \in Nat /\ NoTime \notin Nat
  BY ReporterAssumption DEF FleetIInv
<1>1. /\ now' \in 0 .. Horizon /\ now' >= now
      /\ lastSeen' \in [Device -> 0 .. now' \cup {NoTime}]
      /\ recent' \in [Device -> Seq(BOOLEAN)]
      /\ \A d \in Device :
            /\ Len(recent'[d]) <= Consecutive
            /\ Len(recent'[d]) = 0 <=> lastSeen'[d] = NoTime
      /\ enabled' \subseteq Device /\ muted' \subseteq Device
  <2>1. CASE Tick
    BY <1>0, <2>1 DEF Tick
  <2>2. CASE \E d \in Device : Report(d)
    <3>1. PICK d \in Device : Report(d)
      BY <2>2
    <3>2. PICK stuck \in BOOLEAN :
              recent' = [recent EXCEPT ![d] =
                  <<stuck>> \o (IF Len(@) < Consecutive THEN @
                                ELSE SubSeq(@, 1, Consecutive - 1))]
      BY <3>1 DEF Report
    <3> DEFINE kept == IF Len(recent[d]) < Consecutive THEN recent[d]
                       ELSE SubSeq(recent[d], 1, Consecutive - 1)
    <3>3. kept \in Seq(BOOLEAN) /\ Len(kept) \in Nat /\ Len(kept) < Consecutive
      <4>1. recent[d] \in Seq(BOOLEAN) /\ Len(recent[d]) \in Nat
        BY <1>0
      <4>2. CASE Len(recent[d]) < Consecutive
        BY <4>1, <4>2
      <4>3. CASE ~(Len(recent[d]) < Consecutive)
        <5>1. Consecutive - 1 \in Nat /\ Consecutive - 1 <= Len(recent[d])
          BY <1>0, <4>1, <4>3
        <5>2. /\ SubSeq(recent[d], 1, Consecutive - 1) \in Seq(BOOLEAN)
              /\ Len(SubSeq(recent[d], 1, Consecutive - 1)) = Consecutive - 1
          BY <4>1, <5>1, FirstOf
        <5>3. kept = SubSeq(recent[d], 1, Consecutive - 1)
          BY <4>3
        <5> HIDE DEF kept
        <5> QED
          BY <1>0, <5>2, <5>3
      <4> QED
        BY <4>2, <4>3
    <3>a. <<stuck>> \in Seq(BOOLEAN) /\ Len(<<stuck>>) = 1
      OBVIOUS
    <3> HIDE DEF kept
    <3>b. <<stuck>> \o kept \in Seq(BOOLEAN) /\ Len(<<stuck>> \o kept) = 1 + Len(kept)
      BY <3>3, <3>a, ConcatProperties
    <3>c. recent' = [recent EXCEPT ![d] = <<stuck>> \o kept]
      BY <3>2 DEF kept
    <3>d. /\ recent' \in [Device -> Seq(BOOLEAN)]
          /\ recent'[d] = <<stuck>> \o kept
          /\ \A e \in Device \ {d} : recent'[e] = recent[e]
      BY <1>0, <3>b, <3>c
    <3>e. Len(recent'[d]) <= Consecutive /\ Len(recent'[d]) # 0
      BY <1>0, <3>3, <3>b, <3>d
    <3>4. /\ lastSeen' = [lastSeen EXCEPT ![d] = now]
          /\ UNCHANGED <<now, enabled, muted>>
      BY <3>1 DEF Report
    <3>5. /\ lastSeen'[d] # NoTime /\ lastSeen' \in [Device -> 0 .. now \cup {NoTime}]
          /\ \A e \in Device \ {d} : lastSeen'[e] = lastSeen[e]
      BY <1>0, <3>4
    <3> QED
      BY <1>0, <3>4, <3>5, <3>d, <3>e
  <2>3. CASE \E d \in Device : Edit(d)
    <3>1. PICK d \in Device : Edit(d)
      BY <2>3
    <3>2. /\ UNCHANGED <<now, lastSeen, recent>>
          /\ enabled' \in {enabled, enabled \ {d}, enabled \cup {d}}
          /\ muted' \in {muted, muted \ {d}, muted \cup {d}}
      BY <3>1 DEF Edit
    <3> QED
      BY <1>0, <3>2
  <2>4. CASE ~Tick /\ ~(\E d \in Device : Report(d) \/ Edit(d))
    <3>1. UNCHANGED fleetVars
      BY <2>4
      DEF Next, IngestStatus, SyncStep, SyncLooks, SyncMerges, CheckStep, CheckLooks,
          CheckCompares, AlertSent, RecoverySent, CheckCommits, PostFails, CheckDies,
          FileDamaged, vars
    <3> QED
      BY <1>0, <3>1 DEF fleetVars
  <2> QED
    BY <2>1, <2>2, <2>3, <2>4
<1>2. sync'.phase \in {"idle", "seen"} /\ SyncSees'
  <2>1. CASE SyncLooks
    <3>1. /\ sync' = [phase |-> "seen", states |-> States,
                      since |-> [d \in enabled |-> LastSeen(d)]]
          /\ now' = now
      BY <2>1 DEF SyncLooks, fleetVars
    <3>2. \A d \in enabled : d \in Device /\ LastSeen(d) \in 0 .. now
      BY <1>0 DEF LastSeen
    <3> QED
      BY <3>1, <3>2 DEF SyncSees, States
  <2>2. CASE SyncMerges
    <3>1. sync'.phase = "idle"
      BY <2>2 DEF SyncMerges, Idle
    <3> QED
      BY <3>1 DEF SyncSees
  <2>3. CASE UNCHANGED sync
    BY <1>0, <1>1, <2>3 DEF SyncSees
  <2>4. SyncLooks \/ SyncMerges \/ UNCHANGED sync
    BY DEF Next, Tick, Report, Edit, IngestStatus, SyncStep, CheckStep, CheckLooks,
           CheckCompares, AlertSent, RecoverySent, CheckCommits, PostFails, CheckDies,
           FileDamaged, vars, statusVars
  <2> QED
    BY <2>1, <2>2, <2>3, <2>4
<1>3. table' \in [Device -> [status : {"none", "online", "offline", "unknown"},
                             since : 0 .. now' \cup {NoTime}]]
  <2>1. table' \in [Device -> [status : {"none", "online", "offline", "unknown"},
                               since : 0 .. now \cup {NoTime}]]
    BY TableNext
  <2>2. 0 .. now \subseteq 0 .. now'
    BY <1>0, <1>1
  <2> QED
    BY <2>1, <2>2
<1> QED
  BY <1>1, <1>2, <1>3, TableNext DEF FleetIInv
-----------------------------------------------------------------------------
(* Both inductive invariants hold in every behaviour. *)
THEOREM ReporterInvariant == Spec => [](FleetIInv /\ AlertIInv)
<1>1. Init => FleetIInv /\ AlertIInv
  BY FleetInit, AlertInit
<1>2. FleetIInv /\ AlertIInv /\ [Next]_vars => (FleetIInv /\ AlertIInv)'
  BY FleetNext, AlertNext DEF FleetIInv
<1> QED
  BY <1>1, <1>2, PTL DEF Spec

(* The type invariant of the reporter, for every fleet: a row of           *)
(* dbo.device_status that says offline is dated, whoever wrote it last.    *)
THEOREM ReporterTypeCorrect == Spec => []ReporterTypeOK
<1>1. FleetIInv /\ AlertIInv => ReporterTypeOK
  <2> SUFFICES ASSUME FleetIInv, AlertIInv
               PROVE  ReporterTypeOK
    OBVIOUS
  <2>1. check.phase \in {"idle", "seen", "alert", "recovery", "commit", "next"}
    BY DEF AlertIInv, CheckShape
  <2> QED
    BY <2>1 DEF FleetIInv, AlertIInv, ReporterTypeOK
<1> QED
  BY <1>1, ReporterInvariant, PTL

(* Every key on file is one that Teams holds down, but for recoveries      *)
(* announced by a run that did not commit, through any number of failed    *)
(* posts, killed runs and damaged files (reports.py:73, commit() of        *)
(* state.py).                                                              *)
THEOREM FiledStaysKnown == Spec => []FiledIsKnown
<1>1. AlertIInv => FiledIsKnown
  BY DEF AlertIInv
<1> QED
  BY <1>1, ReporterInvariant, PTL

(* What a run leaves behind is sound, for any devices, failures and kills. *)
THEOREM RecordsStaySound == Spec => []RecordsAreSound
BY ReporterTypeCorrect, FiledStaysKnown, PTL DEF RecordsAreSound

(* The date of an outage does not move while the table says offline,       *)
(* however the reporter and the ingestor interleave.                       *)
THEOREM OutageKeepsItsDate == Spec => SinceIsKept
<1>1. FleetIInv /\ [Next]_vars =>
        [\A d \in Device :
           table[d].status = "offline" /\ table'[d].status = "offline"
               => table'[d].since = table[d].since]_vars
  BY TableNext
<1> QED
  BY <1>1, ReporterInvariant, PTL DEF Spec, SinceIsKept
-----------------------------------------------------------------------------
(* Recoveries, when no two devices share a key.  The inductive invariant:  *)
(* a device on file, or about to be filed, has not sent a packet since it  *)
(* was seen offline, and then is still down, or it is in back.             *)
OwnKeys == \A d, e \in Device : KeyOf[d] = KeyOf[e] => d = e

Down(d) == lastSeen[d] = NoTime \/ Age(d) >= OfflineAge
DownOrBack(K) == \A d \in Device : KeyOf[d] \in K => Down(d) \/ KeyOf[d] \in back

RecoveryIInv ==
    /\ DownOrBack(files["offline"])
    /\ check.phase = "seen" /\ check.kind = "offline" =>
           /\ DownOrBack(check.current)
           /\ (files["offline"] \ check.current) \ check.quiet \subseteq back
    /\ check.phase \in {"alert", "recovery", "commit"} /\ check.kind = "offline" =>
           DownOrBack(check.pending)
    /\ check.phase \in {"alert", "recovery"} /\ check.kind = "offline" =>
           check.recovered \subseteq back

(* What classify() says of a device that is down, and of one that is not.  *)
LEMMA ClassifyDown ==
    ASSUME FleetIInv, NEW d \in Device
    PROVE  /\ Classify(d) \in {"offline", "never"} => Down(d)
           /\ Down(d) => Classify(d) \in {"stale", "offline", "never"}
<1>1. /\ Age(d) \in Int /\ OfflineAge \in Nat /\ StaleAge \in Nat
      /\ OfflineAge < StaleAge
  BY ReporterAssumption DEF FleetIInv, Age, LastSeen
<1>2. CASE Age(d) >= StaleAge
  BY <1>1, <1>2 DEF Classify, Down
<1>3. CASE Age(d) < StaleAge /\ lastSeen[d] = NoTime
  BY <1>1, <1>3 DEF Classify, Down
<1>4. CASE Age(d) \in OfflineAge .. StaleAge - 1 /\ lastSeen[d] # NoTime
  BY <1>1, <1>4 DEF Classify, Down
<1>5. CASE Age(d) < OfflineAge /\ lastSeen[d] # NoTime
  BY <1>1, <1>5 DEF Classify, Down
<1> QED
  BY <1>1, <1>2, <1>3, <1>4, <1>5

(* A look for offline devices, against what is on file. *)
LEMMA OfflineLook ==
    ASSUME FleetIInv, AlertIInv, OwnKeys, DownOrBack(files["offline"])
    PROVE  LET look == Look("offline", Keys(Alertable), Silent \cup (Key \ Keys(enabled))) IN
           /\ \A d \in Device : KeyOf[d] \in look.current => Down(d)
           /\ (files["offline"] \ look.current) \ look.quiet \subseteq back
<1> DEFINE look == Look("offline", Keys(Alertable), Silent \cup (Key \ Keys(enabled)))
<1>1. /\ look.current = Keys(Alertable)
      /\ look.quiet = Silent \cup (Key \ Keys(enabled))
  BY DEF Look
<1>2. enabled \subseteq Device /\ files["offline"] \subseteq Key
  BY DEF FleetIInv, AlertIInv, Kind
<1>3. ASSUME NEW d \in Device, KeyOf[d] \in look.current
      PROVE  Down(d)
  <2>1. PICK e \in Alertable : KeyOf[e] = KeyOf[d]
    BY <1>1, <1>3 DEF Keys
  <2>2. e \in Device /\ Classify(e) \in {"offline", "never"}
    BY <1>2 DEF Alertable
  <2>3. e = d
    BY <2>1, <2>2 DEF OwnKeys
  <2> QED
    BY <2>2, <2>3, ClassifyDown
<1>4. ASSUME NEW k \in (files["offline"] \ look.current) \ look.quiet
      PROVE  k \in back
  <2>1. k \in Keys(enabled) /\ k \notin Silent /\ k \notin Keys(Alertable)
    BY <1>1, <1>2
  <2>2. PICK d \in enabled : KeyOf[d] = k
    BY <2>1 DEF Keys
  <2>3. Classify(d) # "stale" /\ d \notin muted
    BY <2>1, <2>2 DEF Silent, Keys
  <2>4. Classify(d) \notin {"offline", "never"}
    BY <2>1, <2>2, <2>3 DEF Alertable, Keys
  <2>5. ~Down(d)
    BY <1>2, <2>3, <2>4, ClassifyDown
  <2> QED
    BY <1>2, <2>2, <2>5 DEF DownOrBack
<1> HIDE DEF look
<1>5. /\ \A d \in Device : KeyOf[d] \in look.current => Down(d)
      /\ (files["offline"] \ look.current) \ look.quiet \subseteq back
  BY <1>3, <1>4
<1> QED
  BY <1>5 DEF look

(* The fleet goes on: a device that is down stays down or is back. *)
LEMMA FleetMovesOn ==
    ASSUME FleetIInv, NEW K,
           Tick \/ (\E d \in Device : Report(d) \/ Edit(d)) \/ UNCHANGED <<now, lastSeen, back>>,
           DownOrBack(K)
    PROVE  DownOrBack(K)' /\ (UNCHANGED back \/ back \subseteq back')
<1>0. /\ now \in Nat /\ lastSeen \in [Device -> 0 .. now \cup {NoTime}]
      /\ OfflineAge \in Nat /\ NoTime \notin Nat
  BY ReporterAssumption DEF FleetIInv
<1>1. CASE Tick
  <2>1. now' = now + 1 /\ lastSeen' = lastSeen /\ back' = back
    BY <1>1 DEF Tick, alertVars
  <2>2. \A d \in Device : Down(d) => Down(d)'
    BY <1>0, <2>1 DEF Down, Age, LastSeen
  <2> QED
    BY <2>1, <2>2 DEF DownOrBack
<1>2. CASE \E d \in Device : Report(d)
  <2>1. PICK d \in Device : Report(d)
    BY <1>2
  <2>2. /\ now' = now /\ lastSeen' = [lastSeen EXCEPT ![d] = now]
        /\ back' = back \cup {KeyOf[d]}
    BY <2>1 DEF Report
  <2>3. \A e \in Device : e # d /\ Down(e) => Down(e)'
    BY <1>0, <2>2 DEF Down, Age, LastSeen
  <2> QED
    BY <2>2, <2>3 DEF DownOrBack
<1>3. CASE (\E d \in Device : Edit(d)) \/ UNCHANGED <<now, lastSeen, back>>
  <2>1. UNCHANGED <<now, lastSeen, back>>
    BY <1>3 DEF Edit, alertVars
  <2> QED
    BY <2>1 DEF DownOrBack, Down, Age, LastSeen
<1> QED
  BY <1>1, <1>2, <1>3

LEMMA RecoveryNext ==
    FleetIInv /\ AlertIInv /\ OwnKeys /\ RecoveryIInv /\ [Next]_vars => RecoveryIInv'
<1> SUFFICES ASSUME FleetIInv, AlertIInv, OwnKeys, RecoveryIInv, [Next]_vars
             PROVE  RecoveryIInv'
  OBVIOUS
<1>0. check \in CheckShape /\ files \in [Kind -> SUBSET Key]
  BY DEF AlertIInv
<1>1. CASE \/ Tick \/ \E d \in Device : Report(d) \/ Edit(d)
           \/ \E d \in Device, s \in {"online", "offline", "unknown"} : IngestStatus(d, s)
           \/ SyncStep \/ UNCHANGED vars
  <2>1. /\ Tick \/ (\E d \in Device : Report(d) \/ Edit(d))
              \/ UNCHANGED <<now, lastSeen, back>>
        /\ UNCHANGED <<files, check>>
    BY <1>1 DEF Tick, Report, Edit, IngestStatus, SyncStep, SyncLooks, SyncMerges,
                vars, alertVars, fleetVars
  <2>2. back \subseteq back' /\ \A K : DownOrBack(K) => DownOrBack(K)'
    BY <2>1, FleetMovesOn DEF RecoveryIInv
  <2> QED
    BY <2>1, <2>2 DEF RecoveryIInv
<1>2. CASE CheckLooks
  <2>1. UNCHANGED <<now, lastSeen, files>>
    BY <1>2 DEF CheckLooks, fleetVars
  <2>2. CASE check = Idle
    <3>1. /\ check' = Look("offline", Keys(Alertable), Silent \cup (Key \ Keys(enabled)))
          /\ back' = back \ check'.current
      BY <1>2, <2>2 DEF CheckLooks, Idle
    <3>2. /\ \A d \in Device : KeyOf[d] \in check'.current => Down(d)
          /\ (files["offline"] \ check'.current) \ check'.quiet \subseteq back'
      BY <3>1, OfflineLook DEF RecoveryIInv
    <3>3. \A d \in Device : Down(d) => Down(d)'
      BY <2>1 DEF Down, Age, LastSeen
    <3>4. DownOrBack(files["offline"])' /\ DownOrBack(check.current)'
      BY <2>1, <3>1, <3>2, <3>3 DEF DownOrBack, RecoveryIInv
    <3>5. check'.phase = "seen"
      BY <3>1 DEF Look
    <3> QED
      BY <2>1, <3>2, <3>4, <3>5 DEF RecoveryIInv
  <2>3. CASE check # Idle
    <3>1. /\ \E failing \in UploadFailing : check' = Look("upload", failing, {})
          /\ back' = back
      BY <1>2, <2>3 DEF CheckLooks
    <3>2. check'.phase = "seen" /\ check'.kind = "upload"
      BY <3>1 DEF Look
    <3> QED
      BY <2>1, <3>1, <3>2 DEF RecoveryIInv, DownOrBack, Down, Age, LastSeen
  <2> QED
    BY <2>2, <2>3
<1>3. CASE CheckCompares
  <2>1. /\ check' = [phase |-> "alert", kind |-> check.kind,
                     new |-> check.current \ files[check.kind],
                     recovered |-> (files[check.kind] \ check.current) \ check.quiet,
                     pending |-> check.current, sent |-> TRUE]
        /\ check.phase = "seen"
        /\ UNCHANGED <<now, lastSeen, files, back>>
    BY <1>3 DEF CheckCompares, fleetVars
  <2> QED
    BY <2>1 DEF RecoveryIInv, DownOrBack, Down, Age, LastSeen
<1>4. CASE AlertSent \/ RecoverySent \/ PostFails
  <2>1. /\ check \in [phase : {"alert", "recovery", "commit"}, kind : Kind,
                      new : SUBSET Key, recovered : SUBSET Key,
                      pending : SUBSET Key, sent : BOOLEAN]
        /\ check.phase \in {"alert", "recovery"}
    BY <1>0, <1>4 DEF AlertSent, RecoverySent, PostFails, CheckShape
  <2>2. /\ check'.phase \in {"recovery", "commit"}
        /\ check'.kind = check.kind /\ check'.pending = check.pending
        /\ check'.recovered = check.recovered
        /\ UNCHANGED <<now, lastSeen, files, back>>
    BY <1>4, <2>1 DEF AlertSent, RecoverySent, PostFails, fleetVars
  <2> QED
    BY <2>1, <2>2 DEF RecoveryIInv, DownOrBack, Down, Age, LastSeen
<1>5. CASE CheckCommits
  <2>1. /\ check.phase = "commit" /\ check.kind \in Kind
        /\ files' = [files EXCEPT ![check.kind] = check.pending] \/ files' = files
        /\ check'.phase \in {"idle", "next"}
        /\ UNCHANGED <<now, lastSeen, back>>
    BY <1>0, <1>5 DEF CheckCommits, CheckShape, AfterKind, Idle, fleetVars
  <2>2. files'["offline"] = files["offline"]
          \/ (check.kind = "offline" /\ files'["offline"] = check.pending)
    BY <1>0, <2>1 DEF Kind
  <2> QED
    BY <2>1, <2>2 DEF RecoveryIInv, DownOrBack, Down, Age, LastSeen
<1>6. CASE CheckDies
  <2>1. check'.phase = "idle" /\ UNCHANGED <<now, lastSeen, files, back>>
    BY <1>6 DEF CheckDies, Idle, fleetVars
  <2> QED
    BY <2>1 DEF RecoveryIInv, DownOrBack, Down, Age, LastSeen
<1>7. CASE \E a \in Kind : FileDamaged(a)
  <2>1. PICK a \in Kind : FileDamaged(a)
    BY <1>7
  <2>2. /\ files' = [files EXCEPT ![a] = {}]
        /\ UNCHANGED <<now, lastSeen, check, back>>
    BY <2>1 DEF FileDamaged, fleetVars
  <2>3. files'["offline"] \subseteq files["offline"]
    BY <1>0, <2>2 DEF Kind
  <2> QED
    BY <2>2, <2>3 DEF RecoveryIInv, DownOrBack, Down, Age, LastSeen
<1> QED
  BY <1>1, <1>2, <1>3, <1>4, <1>5, <1>6, <1>7 DEF Next, CheckStep

(* If no two devices share machine name and location, a recovery is        *)
(* announced only for a device that sent a packet since it was seen        *)
(* offline: none that is stale, muted or disabled is (reports.py:59).      *)
THEOREM RecoveryIsHonest ==
    ASSUME OwnKeys
    PROVE  Spec => []RecoveryMeansPacket
<1>1. Init => RecoveryIInv
  BY DEF Init, Idle, RecoveryIInv, DownOrBack, Kind
<1>2. FleetIInv /\ AlertIInv /\ RecoveryIInv /\ [Next]_vars => RecoveryIInv'
  BY RecoveryNext
<1>3. RecoveryIInv => RecoveryMeansPacket
  BY DEF RecoveryIInv, RecoveryMeansPacket
<1> QED
  BY <1>1, <1>2, <1>3, ReporterInvariant, PTL DEF Spec
-----------------------------------------------------------------------------
(* Keys on file, or sent and about to be filed. *)
Listed(a) ==
    files[a] \cup (IF check.phase \in {"recovery", "commit"} /\ check.kind = a
                   THEN check.new ELSE {})

(* The inductive invariant of repeats: what Teams holds down is listed, or *)
(* it is known to be unfiled; and a run that will commit files what it     *)
(* announced.                                                              *)
RepeatIInv ==
    /\ repeated = {}
    /\ check.phase = "alert" =>
           \A k \in check.new \cap told[check.kind] : <<check.kind, k>> \in unfiled
    /\ check.phase \in {"alert", "recovery", "commit"} => check.new \subseteq check.pending
    /\ \A a \in Kind : \A k \in told[a] \ Listed(a) : <<a, k>> \in unfiled

LEMMA RepeatNext == AlertIInv /\ RepeatIInv /\ [Next]_vars => RepeatIInv'
<1> SUFFICES ASSUME AlertIInv, RepeatIInv, [Next]_vars
             PROVE  RepeatIInv'
  OBVIOUS
<1>0. /\ check \in CheckShape /\ files \in [Kind -> SUBSET Key]
      /\ told \in [Kind -> SUBSET Key]
  BY DEF AlertIInv
<1>a. /\ repeated = {}
      /\ \A a \in Kind : \A k \in told[a] \ Listed(a) : <<a, k>> \in unfiled
  BY DEF RepeatIInv
<1>1. CASE CheckLooks
  <2>1. /\ check'.phase = "seen" /\ UNCHANGED <<files, told, repeated, unfiled>>
        /\ check.phase \in {"idle", "next"}
    BY <1>1 DEF CheckLooks, Look, Idle, heard
  <2>2. \A a \in Kind : Listed(a)' = Listed(a)
    BY <2>1 DEF Listed
  <2> QED
    BY <1>a, <2>1, <2>2 DEF RepeatIInv
<1>2. CASE CheckCompares
  <2>1. /\ check.phase = "seen" /\ check'.phase = "alert" /\ check'.kind = check.kind
        /\ check'.new = check'.pending \ files[check.kind]
        /\ UNCHANGED <<files, told, repeated, unfiled>>
    BY <1>2 DEF CheckCompares, heard
  <2>2. \A a \in Kind : Listed(a)' = Listed(a) /\ Listed(a) = files[a]
    BY <2>1 DEF Listed
  <2>3. check.kind \in Kind
    BY <1>0, <2>1 DEF CheckShape
  <2>4. \A k \in check'.new \cap told'[check'.kind] : <<check'.kind, k>> \in unfiled'
    BY <1>a, <2>1, <2>2, <2>3
  <2> QED
    BY <1>a, <2>1, <2>2, <2>4 DEF RepeatIInv
<1>3. CASE AlertSent \/ (PostFails /\ check.phase = "alert")
  <2>0. check.phase = "alert"
    BY <1>3 DEF AlertSent
  <2>1. check \in Posting /\ check.kind \in Kind
    BY <2>0, PostingShape
  <2>2. /\ HearsDown \/ UNCHANGED heard
        /\ files' = files
        /\ check'.phase = "recovery" /\ check'.kind = check.kind
        /\ check'.new = check.new /\ check'.pending = check.pending
    BY <1>3, <2>0, <2>1 DEF AlertSent, PostFails, Posting
  <2>3. /\ check.new \subseteq check.pending
        /\ \A k \in check.new \cap told[check.kind] : <<check.kind, k>> \in unfiled
    BY <2>0 DEF RepeatIInv
  <2>4. /\ \A a \in Kind : Listed(a)' = files[a] \cup (IF a = check.kind THEN check.new ELSE {})
        /\ \A a \in Kind : Listed(a) = files[a]
    BY <2>0, <2>2 DEF Listed
  <2>5. CASE HearsDown
    <3>1. /\ told' = [told EXCEPT ![check.kind] = @ \cup check.new]
          /\ repeated' = repeated \cup (Of(check.new \cap told[check.kind]) \ unfiled)
          /\ unfiled' = unfiled \ Of(check.new)
      BY <2>5 DEF HearsDown
    <3>2. repeated' = {}
      <4>1. Of(check.new \cap told[check.kind]) \subseteq unfiled
        BY <2>3 DEF Of
      <4> QED
        BY <1>a, <3>1, <4>1
    <3>3. ASSUME NEW a \in Kind, NEW k \in told'[a] \ Listed(a)'
          PROVE  <<a, k>> \in unfiled'
      <4>1. <<a, k>> \notin Of(check.new)
        BY <2>4, <3>3, OfPairs
      <4>2. k \in told[a] \ Listed(a)
        BY <1>0, <2>1, <2>4, <3>1, <3>3
      <4> QED
        BY <1>a, <3>1, <4>1, <4>2
    <3> QED
      BY <2>2, <2>3, <3>2, <3>3 DEF RepeatIInv
  <2>6. CASE UNCHANGED heard
    <3>1. UNCHANGED <<told, repeated, unfiled>>
      BY <2>6 DEF heard
    <3>2. \A a \in Kind : \A k \in told'[a] \ Listed(a)' : <<a, k>> \in unfiled'
      BY <1>a, <2>4, <3>1
    <3> QED
      BY <1>a, <2>2, <2>3, <3>1, <3>2 DEF RepeatIInv
  <2> QED
    BY <2>2, <2>5, <2>6
<1>4. CASE RecoverySent \/ (PostFails /\ check.phase # "alert")
  <2>0. check.phase = "recovery"
    BY <1>4 DEF RecoverySent, PostFails
  <2>1. check \in Posting /\ check.kind \in Kind
    BY <2>0, PostingShape
  <2>2. /\ HearsUp \/ UNCHANGED heard
        /\ files' = files
        /\ check'.phase = "commit" /\ check'.kind = check.kind
        /\ check'.new = check.new /\ check'.pending = check.pending
    BY <1>4, <2>0, <2>1 DEF RecoverySent, PostFails, Posting
  <2>3. /\ UNCHANGED <<repeated, unfiled>>
        /\ \A a \in Kind : told'[a] \subseteq told[a]
    <3>1. CASE HearsUp
      BY <2>1, <3>1, UpIsKnown DEF HearsUp
    <3>2. CASE UNCHANGED heard
      BY <3>2 DEF heard
    <3> QED
      BY <2>2, <3>1, <3>2
  <2>4. \A a \in Kind : Listed(a)' = Listed(a)
    BY <2>0, <2>2 DEF Listed
  <2>5. check.new \subseteq check.pending
    BY <2>0 DEF RepeatIInv
  <2> QED
    BY <1>a, <2>2, <2>3, <2>4, <2>5 DEF RepeatIInv
<1>5. CASE CheckCommits
  <2>0. check.phase = "commit"
    BY <1>5 DEF CheckCommits
  <2>1. check \in Posting /\ check.kind \in Kind
    BY <2>0, PostingShape
  <2>2. /\ UNCHANGED <<told, repeated>> /\ check'.phase \in {"idle", "next"}
    BY <1>5 DEF CheckCommits, AfterKind, Idle
  <2>3. \A a \in Kind : Listed(a)' = files'[a]
    BY <2>2 DEF Listed
  <2>4. ASSUME NEW a \in Kind, NEW k \in told[a] \ files'[a]
        PROVE  <<a, k>> \in unfiled'
    <3>1. CASE check.sent
      <4>1. /\ files' = [files EXCEPT ![check.kind] = check.pending]
            /\ unfiled' = unfiled \cup
                 Of((files[check.kind] \ check.pending) \cap told[check.kind])
        BY <1>5, <3>1 DEF CheckCommits
      <4>2. CASE k \in Listed(a)
        <5>1. check.new \subseteq check.pending
          BY <2>0 DEF RepeatIInv
        <5>2. a = check.kind /\ k \in (files[check.kind] \ check.pending) \cap told[check.kind]
          BY <1>0, <2>1, <2>4, <4>1, <4>2, <5>1 DEF Listed
        <5> QED
          BY <4>1, <5>2, OfPairs
      <4>3. CASE k \notin Listed(a)
        BY <1>a, <2>4, <4>1, <4>3
      <4> QED
        BY <4>2, <4>3
    <3>2. CASE ~check.sent
      <4>1. /\ files' = files
            /\ unfiled' = unfiled \cup Of(check.new \cap told[check.kind])
        BY <1>5, <3>2 DEF CheckCommits, NotFiled
      <4>2. CASE k \in Listed(a)
        <5>1. a = check.kind /\ k \in check.new \cap told[check.kind]
          BY <2>4, <4>1, <4>2 DEF Listed
        <5> QED
          BY <4>1, <5>1, OfPairs
      <4>3. CASE k \notin Listed(a)
        BY <1>a, <2>4, <4>1, <4>3
      <4> QED
        BY <4>2, <4>3
    <3> QED
      BY <3>1, <3>2
  <2> QED
    BY <1>a, <2>2, <2>3, <2>4 DEF RepeatIInv
<1>6. CASE CheckDies
  <2>1. /\ check'.phase = "idle" /\ UNCHANGED <<files, told, repeated>>
    BY <1>6 DEF CheckDies, Idle
  <2>2. \A a \in Kind : Listed(a)' = files[a]
    BY <2>1 DEF Listed
  <2>3. ASSUME NEW a \in Kind, NEW k \in told[a] \ files[a]
        PROVE  <<a, k>> \in unfiled'
    <3>1. CASE check.phase \in {"alert", "recovery", "commit"}
      <4>1. unfiled' = unfiled \cup Of(check.new \cap told[check.kind])
        BY <1>6, <3>1 DEF CheckDies, NotFiled
      <4>2. CASE k \in Listed(a)
        <5>1. a = check.kind /\ k \in check.new \cap told[check.kind]
          BY <2>3, <4>2 DEF Listed
        <5> QED
          BY <4>1, <5>1, OfPairs
      <4>3. CASE k \notin Listed(a)
        BY <1>a, <2>3, <4>1, <4>3
      <4> QED
        BY <4>2, <4>3
    <3>2. CASE check.phase \notin {"alert", "recovery", "commit"}
      <4>1. unfiled' = unfiled /\ Listed(a) = files[a]
        BY <1>6, <3>2 DEF CheckDies, Listed
      <4> QED
        BY <1>a, <2>3, <4>1
    <3> QED
      BY <3>1, <3>2
  <2> QED
    BY <1>a, <2>1, <2>2, <2>3 DEF RepeatIInv
<1>7. CASE \E a \in Kind : FileDamaged(a)
  <2>1. PICK a \in Kind : FileDamaged(a)
    BY <1>7
  <2>2. /\ files' = [files EXCEPT ![a] = {}]
        /\ unfiled' = unfiled \cup ({a} \X (files[a] \cap told[a]))
        /\ UNCHANGED <<check, told, repeated>>
    BY <2>1 DEF FileDamaged
  <2>3. ASSUME NEW b \in Kind, NEW k \in told[b] \ Listed(b)'
        PROVE  <<b, k>> \in unfiled'
    <3>1. CASE k \in Listed(b)
      <4>1. b = a /\ k \in files[a]
        BY <1>0, <2>2, <2>3, <3>1 DEF Listed
      <4>2. <<b, k>> \in {a} \X (files[a] \cap told[a])
        BY <2>3, <4>1
      <4> QED
        BY <2>2, <4>2
    <3>2. CASE k \notin Listed(b)
      BY <1>a, <2>2, <2>3, <3>2
    <3> QED
      BY <3>1, <3>2
  <2>4. /\ check'.phase = "alert" =>
              \A k \in check'.new \cap told'[check'.kind] : <<check'.kind, k>> \in unfiled'
        /\ check'.phase \in {"alert", "recovery", "commit"} =>
              check'.new \subseteq check'.pending
    BY <2>2 DEF RepeatIInv
  <2> QED
    BY <1>a, <2>2, <2>3, <2>4 DEF RepeatIInv
<1>8. CASE \/ Tick
           \/ \E d \in Device : Report(d) \/ Edit(d)
           \/ \E d \in Device, s \in {"online", "offline", "unknown"} : IngestStatus(d, s)
           \/ SyncStep \/ UNCHANGED vars
  <2>1. UNCHANGED <<files, check, told, repeated, unfiled>>
    BY <1>8 DEF Tick, Report, Edit, IngestStatus, SyncStep, SyncLooks, SyncMerges,
                vars, alertVars, heard
  <2> QED
    BY <2>1 DEF RepeatIInv, Listed
<1> QED
  BY <1>1, <1>2, <1>3, <1>4, <1>5, <1>6, <1>7, <1>8 DEF Next, CheckStep

(* No two runs announce the same outage without a recovery in between,     *)
(* unless a run failed, the key left silently or the file was lost since   *)
(* the first: for every fleet and any number of failures.                  *)
THEOREM RepeatsAreExplained == Spec => []RepeatsHaveACause
<1>1. Init => RepeatIInv
  BY DEF Init, RepeatIInv, Idle, Kind, Listed
<1>2. AlertIInv /\ RepeatIInv /\ [Next]_vars => RepeatIInv'
  BY RepeatNext
<1>3. RepeatIInv => RepeatsHaveACause
  BY DEF RepeatIInv, RepeatsHaveACause
<1> QED
  BY <1>1, <1>2, <1>3, ReporterInvariant, PTL DEF Spec
=============================================================================
