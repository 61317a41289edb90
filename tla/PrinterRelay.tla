---------------------------- MODULE PrinterRelay ----------------------------
(***************************************************************************)
(* The label-printer relay (roles/printer_relay/files/app/relay.py): one   *)
(* asyncio process that listens for label stations only while the printer  *)
(* accepts connections, and pipes each job to it.                          *)
(*                                                                         *)
(* Tasks interleave at awaits: the watcher, between a probe of the printer *)
(* and what it does about the answer; a handler for each client, with two  *)
(* pipes.  The clock is left out: a timeout may strike whenever what it    *)
(* waits for has not come.  stop() is called by the tests only and is left *)
(* out; the process ends by being killed.                                  *)
(***************************************************************************)
EXTENDS Naturals, FiniteSets

CONSTANTS Client,     \* connections, one job each
          Size,       \* chunks in the job; 0 is a check of the printer
          Allowed,    \* clients whose address is in ALLOWED_CLIENTS
          OneJob,     \* the printer takes one connection at a time
          Buffer,     \* chunks the sockets hold before drain() blocks
          MaxFlips,   \* bound: times the printer goes off
          MaxErrors   \* bound: failures to listen, and kills of the process

ASSUME RelayAssumption ==
    /\ Size \in [Client -> Nat]
    /\ Allowed \subseteq Client
    /\ OneJob \in BOOLEAN
    /\ Buffer \in Nat \ {0}
    /\ MaxFlips \in Nat /\ MaxErrors \in Nat

VARIABLES printer,   \* "on" or "off"
          watch,     \* the watcher: "probe", "probing", "act" or "open"
          reachable, \* what its last probe found
          server,    \* the relay is listening
          stage,     \* of a client's handler
          up, down,  \* the two pipes of a handler are running
          sent,      \* chunks the client sent
          written,   \* chunks the relay wrote to the printer's connection
          printed,   \* chunks the printer took
          link,      \* the connection to the printer
          answer,    \* what the client saw of the end of its connection
          flips, errors

watchVars == <<watch, reachable>>
pipeVars == <<up, down, written>>
printerVars == <<printer, printed, flips>>
vars == <<printerVars, watchVars, server, stage, sent, pipeVars, link,
          answer, errors>>

(* The printer is on and not taken by a job: external. *)
Available ==
    printer = "on" /\ (OneJob => \A c \in Client : link[c] # "open")

(* A connection to it is accepted; the watcher's own counts as well. *)
Reachable == Available /\ (OneJob => watch # "probing")
-----------------------------------------------------------------------------
Init ==
    /\ printer \in {"on", "off"}
    /\ watch = "probe" /\ reachable = FALSE /\ server = FALSE
    /\ stage = [c \in Client |-> "none"]
    /\ up = [c \in Client |-> FALSE] /\ down = [c \in Client |-> FALSE]
    /\ sent = [c \in Client |-> 0]
    /\ written = [c \in Client |-> 0] /\ printed = [c \in Client |-> 0]
    /\ link = [c \in Client |-> "none"]
    /\ answer = [c \in Client |-> "none"]
    /\ flips = 0 /\ errors = 0

(* printer_reachable(): a connection, which is closed again before the     *)
(* watcher resumes; by then the answer may be old.                         *)
Probe ==
    /\ watch = "probe"
    /\ reachable' = Reachable /\ watch' = IF Reachable THEN "probing" ELSE "act"
    /\ UNCHANGED <<printerVars, server, stage, sent, pipeVars, link,
                   answer, errors>>

ProbeEnds ==
    /\ watch = "probing" /\ watch' = "act"
    /\ UNCHANGED <<printerVars, reachable, server, stage, sent, pipeVars, link,
                   answer, errors>>

BadWatchActs ==  \* mutant: closing is left to the handlers
    /\ watch = "act"
    /\ watch' = IF reachable /\ ~server THEN "open" ELSE "probe"
    /\ UNCHANGED <<server, printerVars, reachable, stage, sent, pipeVars,
                   link, answer, errors>>

WatchActs ==
    /\ watch = "act"
    /\ watch' = IF reachable /\ ~server THEN "open" ELSE "probe"
    /\ server' = (server /\ reachable)
    /\ UNCHANGED <<printerVars, reachable, stage, sent, pipeVars, link,
                   answer, errors>>

(* _open_listener(): the address may not be there yet. *)
OpenListener ==
    /\ watch = "open" /\ watch' = "probe"
    /\ \/ server' = TRUE /\ UNCHANGED errors
       \/ server' = FALSE /\ errors < MaxErrors /\ errors' = errors + 1
    /\ UNCHANGED <<printerVars, reachable, stage, sent, pipeVars, link,
                   answer>>
-----------------------------------------------------------------------------
(* The handler of a client.                                                *)

Connect(c) ==
    /\ stage[c] = "none"
    /\ IF server
       THEN stage' = [stage EXCEPT ![c] = "accepted"] /\ UNCHANGED answer
       ELSE /\ stage' = [stage EXCEPT ![c] = "done"]
            /\ answer' = [answer EXCEPT ![c] = "refused"]
    /\ UNCHANGED <<printerVars, watchVars, server, sent, pipeVars, link,
                   errors>>

(* The connection ends with a reset or in the ordinary way. *)
Finish(c, how) ==
    /\ stage' = [stage EXCEPT ![c] = "done"]
    /\ answer' = [answer EXCEPT ![c] = how]
    /\ up' = [up EXCEPT ![c] = FALSE] /\ down' = [down EXCEPT ![c] = FALSE]

HandleStarts(c) ==
    /\ stage[c] = "accepted"
    /\ IF c \in Allowed
       THEN stage' = [stage EXCEPT ![c] = "connecting"]
            /\ UNCHANGED <<answer, up, down>>
       ELSE Finish(c, "reset")
    /\ UNCHANGED <<printerVars, watchVars, server, sent, written, link,
                   errors>>

BadPrinterConnects(c) ==  \* mutant: a failed connect ends like a job
    /\ stage[c] = "connecting"
    /\ IF Reachable
       THEN /\ link' = [link EXCEPT ![c] = "open"]
            /\ stage' = [stage EXCEPT ![c] = "relaying"]
            /\ up' = [up EXCEPT ![c] = TRUE] /\ down' = [down EXCEPT ![c] = TRUE]
            /\ UNCHANGED <<answer, server>>
       ELSE Finish(c, "eof") /\ server' = FALSE /\ UNCHANGED link
    /\ UNCHANGED <<printerVars, watchVars, sent, written, errors>>

(* open_connection(): a job that finds the printer gone closes the         *)
(* listener at once, whatever the watcher is about to do.                  *)
PrinterConnects(c) ==
    /\ stage[c] = "connecting"
    /\ IF Reachable
       THEN /\ link' = [link EXCEPT ![c] = "open"]
            /\ stage' = [stage EXCEPT ![c] = "relaying"]
            /\ up' = [up EXCEPT ![c] = TRUE] /\ down' = [down EXCEPT ![c] = TRUE]
            /\ UNCHANGED <<answer, server>>
       ELSE Finish(c, "reset") /\ server' = FALSE /\ UNCHANGED link
    /\ UNCHANGED <<printerVars, watchVars, sent, written, errors>>

BadUpForwards(c) ==  \* mutant: a chunk is written before the client sent it
    /\ up[c] /\ written[c] <= sent[c] /\ written[c] < printed[c] + Buffer
    /\ written' = [written EXCEPT ![c] = @ + 1]
    /\ UNCHANGED <<printerVars, watchVars, server, stage, sent, up, down,
                   link, answer, errors>>

(* _pipe() from the client to the printer: a chunk, or the end of the job. *)
UpForwards(c) ==
    /\ up[c] /\ written[c] < sent[c] /\ written[c] < printed[c] + Buffer
    /\ written' = [written EXCEPT ![c] = @ + 1]
    /\ UNCHANGED <<printerVars, watchVars, server, stage, sent, up, down,
                   link, answer, errors>>

(* It ends at the client's end of file, when the client is idle for too    *)
(* long, or by an error of the connection to the printer.                  *)
UpEnds(c) ==
    /\ up[c] /\ (written[c] = sent[c] \/ link[c] = "lost")
    /\ up' = [up EXCEPT ![c] = FALSE]
    /\ UNCHANGED <<printerVars, watchVars, server, stage, sent, written,
                   down, link, answer, errors>>

(* _pipe() from the printer to the client: replies are left out; it ends   *)
(* when there has been none for too long, at the printer's end of file, or *)
(* by an error.                                                            *)
DownEnds(c) ==
    /\ down[c]
    /\ down' = [down EXCEPT ![c] = FALSE]
    /\ UNCHANGED <<printerVars, watchVars, server, stage, sent, written,
                   up, link, answer, errors>>

(* close() of the client's connection: while there is more of the job than *)
(* was forwarded, bytes of the client are unread or still to come, and the *)
(* kernel may answer them with a reset.                                    *)
CloseAnswers(c) == {"eof"} \cup {how \in {"reset"} : written[c] < Size[c]}

BadHandlerFinishes(c) ==  \* mutant: waits for the client's pipe
    /\ stage[c] = "relaying" /\ ~up[c]
    /\ \E how \in CloseAnswers(c) : Finish(c, how)
    /\ UNCHANGED <<printerVars, watchVars, server, sent, written, link,
                   errors>>

(* One pipe ended, and the other within the grace or not: both connections *)
(* are closed, however much of the job is still to be forwarded.           *)
HandlerFinishes(c) ==
    /\ stage[c] = "relaying" /\ (~up[c] \/ ~down[c])
    /\ \E how \in CloseAnswers(c) : Finish(c, how)
    /\ UNCHANGED <<printerVars, watchVars, server, sent, written, link,
                   errors>>

(* What was written is flushed before the connection is gone, unless the   *)
(* process was killed: external.                                           *)
LinkCloses(c) ==
    /\ stage[c] = "done" /\ link[c] = "open"
    /\ printed[c] = written[c] \/ answer[c] = "killed"
    /\ link' = [link EXCEPT ![c] = "closed"]
    /\ UNCHANGED <<printerVars, watchVars, server, stage, sent, pipeVars,
                   answer, errors>>

HandlerStep(c) ==
    \/ HandleStarts(c) \/ PrinterConnects(c)
    \/ UpForwards(c) \/ UpEnds(c) \/ DownEnds(c) \/ HandlerFinishes(c)
-----------------------------------------------------------------------------
(* Clients and printer: external.                                          *)

ClientSends(c) ==
    /\ stage[c] \notin {"none", "done"} /\ sent[c] < Size[c]
    /\ sent' = [sent EXCEPT ![c] = @ + 1]
    /\ UNCHANGED <<printerVars, watchVars, server, stage, pipeVars, link, answer,
                   errors>>

PrinterTakes(c) ==
    /\ printer = "on" /\ link[c] = "open" /\ printed[c] < written[c]
    /\ printed' = [printed EXCEPT ![c] = @ + 1]
    /\ UNCHANGED <<printer, flips, watchVars, server, stage, sent, pipeVars,
                   link, answer, errors>>

PrinterOff ==
    /\ printer = "on" /\ flips < MaxFlips
    /\ printer' = "off" /\ flips' = flips + 1
    /\ link' = [c \in Client |-> IF link[c] = "open" THEN "lost" ELSE link[c]]
    /\ UNCHANGED <<printed, watchVars, server, stage, sent, pipeVars, answer,
                   errors>>

PrinterOn ==
    /\ printer = "off" /\ printer' = "on"
    /\ UNCHANGED <<printed, flips, watchVars, server, stage, sent, pipeVars,
                   link, answer, errors>>

(* The process is killed and restarted; its clients see their connection   *)
(* end, with or without a reset.                                           *)
KillAndRestart ==
    /\ errors < MaxErrors /\ errors' = errors + 1
    /\ watch' = "probe" /\ reachable' = FALSE /\ server' = FALSE
    /\ LET here == {c \in Client : stage[c] \notin {"none", "done"}}
       IN  /\ stage' = [c \in Client |-> IF c \in here THEN "done" ELSE stage[c]]
           /\ answer' = [c \in Client |-> IF c \in here THEN "killed" ELSE answer[c]]
    /\ up' = [c \in Client |-> FALSE] /\ down' = [c \in Client |-> FALSE]
    /\ UNCHANGED <<printerVars, sent, written, link>>

WatcherStep == Probe \/ ProbeEnds \/ WatchActs \/ OpenListener

Next ==
    \/ WatcherStep
    \/ \E c \in Client : Connect(c) \/ HandlerStep(c) \/ LinkCloses(c)
    \/ \E c \in Client : ClientSends(c) \/ PrinterTakes(c)
    \/ PrinterOff \/ PrinterOn \/ KillAndRestart

Spec == Init /\ [][Next]_vars

(* The event loop runs every task that can go on, and timeouts expire.     *)
(* Nothing is assumed of clients, of the printer or of kills.              *)
Fairness ==
    /\ WF_vars(WatcherStep)
    /\ \A c \in Client : WF_vars(HandlerStep(c))

FairSpec == Spec /\ Fairness
-----------------------------------------------------------------------------
(* Type invariant of the relay; what was printed was written, and what was *)
(* written was sent.                                                       *)
RelayTypeOK ==
    /\ printer \in {"on", "off"}
    /\ watch \in {"probe", "probing", "act", "open"}
    /\ reachable \in BOOLEAN /\ server \in BOOLEAN
    /\ stage \in [Client -> {"none", "accepted", "connecting", "relaying", "done"}]
    /\ up \in [Client -> BOOLEAN] /\ down \in [Client -> BOOLEAN]
    /\ sent \in [Client -> Nat] /\ written \in [Client -> Nat]
    /\ printed \in [Client -> Nat]
    /\ \A c \in Client :
           printed[c] <= written[c] /\ written[c] <= sent[c] /\ sent[c] <= Size[c]
    /\ link \in [Client -> {"none", "open", "lost", "closed"}]
    /\ answer \in [Client -> {"none", "refused", "reset", "eof", "killed"}]
    /\ flips \in 0 .. MaxFlips /\ errors \in 0 .. MaxErrors

(* What the end of its connection tells a client of its job.  Refused: the *)
(* printer saw nothing of it.  Reset, by _abort or because the relay closed*)
(* on bytes it had not read: part of it may be printed but never all of it *)
(* was sent on, so that a station that repeats what failed does not print  *)
(* a whole job twice.  An ordinary end: it was let in and had a connection *)
(* to the printer (which does not mean that everything was printed, see    *)
(* NoSilentLoss).  A killed relay is no answer: the kernel then ends the   *)
(* connection either way.                                                  *)
FailureIsHonest ==
    \A c \in Client :
        /\ answer[c] = "refused" => written[c] = 0
        /\ answer[c] = "reset" /\ Size[c] > 0 => written[c] < Size[c]
        /\ answer[c] = "eof" => c \in Allowed /\ link[c] # "none"

(* Every job comes to an end, whatever the client and the printer do: a    *)
(* client that never closes, a printer that never replies, hangs up or     *)
(* stops taking data (idle timeouts and grace of _handle).                 *)
JobsEnd == \A c \in Client : stage[c] = "accepted" ~> stage[c] = "done"

(* The port tells the truth in the end: open once the printer stays        *)
(* available, closed once it stays unavailable, in spite of stale probes,  *)
(* jobs that close it because they or the probe found the printer taken,   *)
(* and failures to listen (_watch).                                        *)
ListenerFollowsPrinter ==
    /\ <>[]Available => <>[]server
    /\ <>[]~Available => <>[]~server

(* relay.py:4 says "every byte is piped unchanged to the printer": then a  *)
(* client that sent its job and saw an ordinary end got it printed.  But a *)
(* pause of the client, or a printer that does not reply for idle_timeout  *)
(* while the job is still sent, ends the job in the ordinary way (_pipe).  *)
NoSilentLoss ==
    \A c \in Client :
        answer[c] = "eof" /\ sent[c] = Size[c] /\ link[c] = "closed" => printed[c] = sent[c]
=============================================================================
