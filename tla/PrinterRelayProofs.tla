------------------------ MODULE PrinterRelayProofs ------------------------
(***************************************************************************)
(* Proofs about PrinterRelay, for every set of clients and jobs, and any   *)
(* number of outages and kills.                                            *)
(***************************************************************************)
EXTENDS PrinterRelay, TLAPS

(* How far a client's handler got, against what it may have done. *)
HandlerOK(c) ==
    /\ stage[c] \in {"none", "accepted", "connecting"} =>
           written[c] = 0 /\ link[c] = "none" /\ answer[c] = "none"
    /\ stage[c] # "relaying" => ~up[c] /\ ~down[c]
    /\ stage[c] \in {"connecting", "relaying"} => c \in Allowed
    /\ stage[c] = "relaying" => link[c] # "none" /\ answer[c] = "none"
    /\ stage[c] = "none" => sent[c] = 0

(* The inductive invariant.  HandlerOK is needed because the answer a      *)
(* client gets depends on how far its handler had come.                    *)
RelayIInv ==
    /\ RelayTypeOK
    /\ \A c \in Client : HandlerOK(c)
    /\ FailureIsHonest

LEMMA RelayInitIInv == Init => RelayIInv
<1> SUFFICES ASSUME Init
             PROVE  RelayIInv
  OBVIOUS
<1>1. /\ Size \in [Client -> Nat] /\ MaxFlips \in Nat /\ MaxErrors \in Nat
  BY RelayAssumption
<1>2. /\ reachable \in BOOLEAN /\ server \in BOOLEAN
      /\ up \in [Client -> BOOLEAN] /\ down \in [Client -> BOOLEAN]
  BY Zenon DEF Init
<1>3. RelayTypeOK
  BY <1>1, <1>2 DEF Init, RelayTypeOK
<1>4. (\A c \in Client : HandlerOK(c)) /\ FailureIsHonest
  BY DEF Init, HandlerOK, FailureIsHonest
<1> QED
  BY <1>3, <1>4 DEF RelayIInv

(* A step of the watcher or of the printer does not concern the handlers.  *)
LEMMA WatcherKeeps ==
    ASSUME RelayIInv,
           UNCHANGED <<stage, sent, pipeVars, answer>>,
           \A c \in Client : link'[c] = link[c] \/ (link[c] = "open" /\ link'[c] # "none")
    PROVE  (\A c \in Client : HandlerOK(c))' /\ FailureIsHonest'
BY DEF RelayIInv, HandlerOK, FailureIsHonest, RelayTypeOK, pipeVars

LEMMA RelayNextIInv == RelayIInv /\ [Next]_vars => RelayIInv'
<1> SUFFICES ASSUME RelayIInv, [Next]_vars
             PROVE  RelayIInv'
  OBVIOUS
<1>0. /\ RelayTypeOK /\ FailureIsHonest
      /\ \A c \in Client : HandlerOK(c)
      /\ Buffer \in Nat \ {0} /\ MaxFlips \in Nat /\ MaxErrors \in Nat
      /\ Size \in [Client -> Nat]
  BY RelayAssumption DEF RelayIInv
<1>1. CASE Probe
  <2>1. reachable' \in BOOLEAN /\ watch' \in {"probing", "act"}
    BY <1>1 DEF Probe, Reachable, Available
  <2>2. RelayTypeOK'
    BY <1>0, <1>1, <2>1 DEF Probe, RelayTypeOK, printerVars, pipeVars
  <2>3. UNCHANGED <<stage, sent, pipeVars, answer>>
    BY <1>1 DEF Probe, pipeVars
  <2>4. \A d \in Client : link'[d] = link[d] \/ (link[d] = "open" /\ link'[d] # "none")
    BY <1>1 DEF Probe
  <2>5. (\A d \in Client : HandlerOK(d))' /\ FailureIsHonest'
    BY <2>3, <2>4, WatcherKeeps
  <2> QED BY <2>2, <2>5 DEF RelayIInv
<1>2. CASE WatchActs
  <2>1. server' \in BOOLEAN
    BY <1>2 DEF WatchActs
  <2>2. RelayTypeOK'
    BY <1>0, <1>2, <2>1 DEF WatchActs, RelayTypeOK, printerVars, pipeVars
  <2>3. UNCHANGED <<stage, sent, pipeVars, answer>>
    BY <1>2 DEF WatchActs, pipeVars
  <2>4. \A d \in Client : link'[d] = link[d] \/ (link[d] = "open" /\ link'[d] # "none")
    BY <1>2 DEF WatchActs
  <2>5. (\A d \in Client : HandlerOK(d))' /\ FailureIsHonest'
    BY <2>3, <2>4, WatcherKeeps
  <2> QED BY <2>2, <2>5 DEF RelayIInv
<1>3. CASE OpenListener
  <2>1. server' \in BOOLEAN
    BY <1>3 DEF OpenListener
  <2>2. errors' \in 0 .. MaxErrors
    BY <1>0, <1>3 DEF OpenListener, RelayTypeOK
  <2>6. RelayTypeOK'
    BY <1>0, <1>3, <2>1, <2>2
    DEF OpenListener, RelayTypeOK, printerVars, pipeVars
  <2>3. UNCHANGED <<stage, sent, pipeVars, answer>>
    BY <1>3 DEF OpenListener, pipeVars
  <2>4. \A d \in Client : link'[d] = link[d] \/ (link[d] = "open" /\ link'[d] # "none")
    BY <1>3 DEF OpenListener
  <2>5. (\A d \in Client : HandlerOK(d))' /\ FailureIsHonest'
    BY <2>3, <2>4, WatcherKeeps
  <2> QED BY <2>6, <2>5 DEF RelayIInv
<1>4. CASE PrinterOff \/ PrinterOn
  <2>1. RelayTypeOK'
    BY <1>0, <1>4
    DEF PrinterOff, PrinterOn, RelayTypeOK, watchVars, pipeVars
  <2>3. UNCHANGED <<stage, sent, pipeVars, answer>>
    BY <1>0, <1>4 DEF PrinterOff, PrinterOn, RelayTypeOK, pipeVars
  <2>4. \A d \in Client : link'[d] = link[d] \/ (link[d] = "open" /\ link'[d] # "none")
    BY <1>0, <1>4 DEF PrinterOff, PrinterOn, RelayTypeOK
  <2>5. (\A d \in Client : HandlerOK(d))' /\ FailureIsHonest'
    BY <2>3, <2>4, WatcherKeeps
  <2> QED BY <2>1, <2>5 DEF RelayIInv
<1>5. ASSUME NEW c \in Client, PrinterTakes(c)
      PROVE  RelayIInv'
  <2>1. RelayTypeOK'
    BY <1>0, <1>5 DEF PrinterTakes, RelayTypeOK, watchVars, pipeVars
  <2>3. UNCHANGED <<stage, sent, pipeVars, answer>>
    BY <1>5 DEF PrinterTakes, pipeVars
  <2>4. \A d \in Client : link'[d] = link[d] \/ (link[d] = "open" /\ link'[d] # "none")
    BY <1>5 DEF PrinterTakes
  <2>5. (\A d \in Client : HandlerOK(d))' /\ FailureIsHonest'
    BY <2>3, <2>4, WatcherKeeps
  <2> QED BY <2>1, <2>5 DEF RelayIInv
<1>6. ASSUME NEW c \in Client, LinkCloses(c)
      PROVE  RelayIInv'
  <2>1. RelayTypeOK'
    BY <1>0, <1>6
    DEF LinkCloses, RelayTypeOK, printerVars, watchVars, pipeVars
  <2>3. UNCHANGED <<stage, sent, pipeVars, answer>>
    BY <1>0, <1>6 DEF LinkCloses, RelayTypeOK, pipeVars
  <2>4. \A d \in Client : link'[d] = link[d] \/ (link[d] = "open" /\ link'[d] # "none")
    BY <1>0, <1>6 DEF LinkCloses, RelayTypeOK
  <2>5. (\A d \in Client : HandlerOK(d))' /\ FailureIsHonest'
    BY <2>3, <2>4, WatcherKeeps
  <2> QED BY <2>1, <2>5 DEF RelayIInv
<1>7. ASSUME NEW c \in Client, Connect(c)
      PROVE  RelayIInv'
  <2>1. RelayTypeOK'
    BY <1>0, <1>7
    DEF Connect, RelayTypeOK, printerVars, watchVars, pipeVars
  <2>2. (\A d \in Client : HandlerOK(d))' /\ FailureIsHonest'
    BY <1>0, <1>7
    DEF Connect, RelayTypeOK, HandlerOK, FailureIsHonest, pipeVars
  <2> QED BY <2>1, <2>2 DEF RelayIInv
<1>8. ASSUME NEW c \in Client, HandleStarts(c)
      PROVE  RelayIInv'
  <2>1. RelayTypeOK'
    BY <1>0, <1>8
    DEF HandleStarts, Finish, RelayTypeOK, printerVars, watchVars
  <2>2. (\A d \in Client : HandlerOK(d))' /\ FailureIsHonest'
    BY <1>0, <1>8
    DEF HandleStarts, Finish, RelayTypeOK, HandlerOK, FailureIsHonest
  <2> QED BY <2>1, <2>2 DEF RelayIInv
<1>9. ASSUME NEW c \in Client, PrinterConnects(c)
      PROVE  RelayIInv'
  <2>1. RelayTypeOK'
    BY <1>0, <1>9
    DEF PrinterConnects, Finish, RelayTypeOK, printerVars, watchVars
  <2>2. (\A d \in Client : HandlerOK(d))' /\ FailureIsHonest'
    BY <1>0, <1>9
    DEF PrinterConnects, Finish, RelayTypeOK, HandlerOK, FailureIsHonest
  <2> QED BY <2>1, <2>2 DEF RelayIInv
<1>10. ASSUME NEW c \in Client, UpForwards(c)
       PROVE  RelayIInv'
  <2>1. RelayTypeOK'
    BY <1>0, <1>10
    DEF UpForwards, RelayTypeOK, printerVars, watchVars
  <2>2. stage[c] = "relaying" /\ answer[c] = "none"
    BY <1>0, <1>10 DEF UpForwards, HandlerOK, RelayTypeOK
  <2>3. (\A d \in Client : HandlerOK(d))' /\ FailureIsHonest'
    BY <1>0, <1>10, <2>2
    DEF UpForwards, RelayTypeOK, HandlerOK, FailureIsHonest
  <2> QED BY <2>1, <2>3 DEF RelayIInv
<1>11. ASSUME NEW c \in Client, UpEnds(c) \/ DownEnds(c)
       PROVE  RelayIInv'
  <2>1. RelayTypeOK'
    BY <1>0, <1>11
    DEF UpEnds, DownEnds, RelayTypeOK, printerVars, watchVars
  <2>2. (\A d \in Client : HandlerOK(d))' /\ FailureIsHonest'
    BY <1>0, <1>11
    DEF UpEnds, DownEnds, RelayTypeOK, HandlerOK, FailureIsHonest
  <2> QED BY <2>1, <2>2 DEF RelayIInv
<1>12. ASSUME NEW c \in Client, HandlerFinishes(c)
       PROVE  RelayIInv'
  <2>1. PICK how \in {"eof", "reset"} :
           Finish(c, how) /\ (how = "reset" => written[c] < Size[c])
    BY <1>12 DEF HandlerFinishes, CloseAnswers
  <2>2. /\ stage[c] = "relaying"
        /\ UNCHANGED <<printerVars, watchVars, server, sent, written, link, errors>>
    BY <1>12 DEF HandlerFinishes
  <2>3. RelayTypeOK'
    BY <1>0, <2>1, <2>2 DEF Finish, RelayTypeOK, printerVars, watchVars
  <2>4. (\A d \in Client : HandlerOK(d))' /\ FailureIsHonest'
    BY <1>0, <2>1, <2>2 DEF Finish, RelayTypeOK, HandlerOK, FailureIsHonest
  <2> QED BY <2>3, <2>4 DEF RelayIInv
<1>13. ASSUME NEW c \in Client, ClientSends(c)
       PROVE  RelayIInv'
  <2>4. /\ sent' \in [Client -> Nat]
        /\ \A d \in Client : sent[d] <= sent'[d] /\ sent'[d] <= Size[d]
    BY <1>0, <1>13 DEF ClientSends, RelayTypeOK
  <2>1. RelayTypeOK'
    BY <1>0, <1>13, <2>4
    DEF ClientSends, RelayTypeOK, printerVars, watchVars, pipeVars
  <2>2. (\A d \in Client : HandlerOK(d))' /\ FailureIsHonest'
    BY <1>0, <1>13
    DEF ClientSends, RelayTypeOK, HandlerOK, FailureIsHonest, pipeVars
  <2> QED BY <2>1, <2>2 DEF RelayIInv
<1>14. CASE KillAndRestart
  <2>3. /\ reachable' \in BOOLEAN /\ server' \in BOOLEAN
        /\ up' \in [Client -> BOOLEAN] /\ down' \in [Client -> BOOLEAN]
    BY <1>14, Zenon DEF KillAndRestart
  <2>4. /\ stage' \in [Client -> {"none", "accepted", "connecting", "relaying", "done"}]
        /\ answer' \in [Client -> {"none", "refused", "reset", "eof", "killed"}]
        /\ errors' \in 0 .. MaxErrors
    BY <1>0, <1>14 DEF KillAndRestart, RelayTypeOK
  <2>1. RelayTypeOK'
    BY <1>0, <1>14, <2>3, <2>4
    DEF KillAndRestart, RelayTypeOK, printerVars
  <2>2. (\A d \in Client : HandlerOK(d))' /\ FailureIsHonest'
    BY <1>0, <1>14
    DEF KillAndRestart, RelayTypeOK, HandlerOK, FailureIsHonest
  <2> QED BY <2>1, <2>2 DEF RelayIInv
<1>15. CASE ProbeEnds
  <2>1. RelayTypeOK'
    BY <1>0, <1>15 DEF ProbeEnds, RelayTypeOK, printerVars, pipeVars
  <2>2. UNCHANGED <<stage, sent, pipeVars, answer>>
    BY <1>15 DEF ProbeEnds, pipeVars
  <2>3. \A d \in Client : link'[d] = link[d] \/ (link[d] = "open" /\ link'[d] # "none")
    BY <1>15 DEF ProbeEnds
  <2>4. (\A d \in Client : HandlerOK(d))' /\ FailureIsHonest'
    BY <2>2, <2>3, WatcherKeeps
  <2> QED BY <2>1, <2>4 DEF RelayIInv
<1>16. CASE UNCHANGED vars
  BY <1>0, <1>16
  DEF vars, printerVars, watchVars, pipeVars, RelayIInv, RelayTypeOK,
      HandlerOK, FailureIsHonest
<1> QED
  BY <1>1, <1>2, <1>3, <1>4, <1>5, <1>6, <1>7, <1>8, <1>9, <1>10, <1>11, <1>12,
     <1>13, <1>14, <1>15, <1>16
  DEF Next, WatcherStep, HandlerStep

(* The inductive invariant holds in every reachable state, whether the     *)
(* kernel ends a client's connection with a reset or not (_handle).        *)
THEOREM RelayInvariant == Spec => []RelayIInv
BY RelayInitIInv, RelayNextIInv, PTL DEF Spec

(* The types of the relay's state, and bytes in order: what the printer    *)
(* took the relay wrote, and what it wrote the client sent.                *)
THEOREM RelayTypeCorrect == Spec => []RelayTypeOK
<1>1. RelayIInv => RelayTypeOK
  BY DEF RelayIInv
<1> QED
  BY <1>1, RelayInvariant, PTL

(* What the end of its connection tells a client: nothing of a refused job *)
(* was sent to the printer, a job that was reset was never sent on as a    *)
(* whole, and an ordinary end means that it was let in and connected       *)
(* (_handle).                                                              *)
THEOREM RelayFailureIsHonest == Spec => []FailureIsHonest
<1>1. RelayIInv => FailureIsHonest
  BY DEF RelayIInv
<1> QED
  BY <1>1, RelayInvariant, PTL
=============================================================================
