---------------------------- MODULE HelperService ----------------------------
(* The elevated helper (device/helper/, device/elevation.rs): on Windows a  *)
(* service opens the security key for programs that may not, one request at *)
(* a time over one pipe.  Programs die, the service dies, is stopped and    *)
(* upgraded, an operation panics; the read of an answer has no timeout.     *)
EXTENDS FiniteSets, Naturals

CONSTANTS Callers,
          Asks, Lives, Services   \* bounds: requests a program makes, deaths, starts

NoCaller == "none"
ASSUME HelperAssumption == NoCaller \notin Callers /\ {Asks, Lives, Services} \subseteq Nat

VARIABLES caller,    \* each program: where it is, its access to the key
          pipe,      \* the one instance of the pipe
          service,   \* the service's loop, told to stop or not, its protocol
          applied,   \* how often each request was carried out on the key
          answers,   \* what the programs were told
          spent      \* deaths and starts so far

helperVars == <<caller, pipe, service, applied, answers, spent>>

NoRequest == <<NoCaller, 0>>
NoReply == "none"
NoPipe == [state |-> "gone", who |-> NoCaller, request |-> NoRequest, reply |-> NoReply]
Fresh == [at |-> "idle", access |-> "unknown", missing |-> FALSE, n |-> 0]
Resting == [at |-> "down", stopping |-> FALSE, current |-> TRUE, doing |-> NoRequest,
            outcome |-> NoReply]
Writes == {<<a, n>> : a \in Callers, n \in 1..Asks}

Requests == {NoRequest} \cup (Callers \X (0..Asks))
Outcomes == {NoReply, "pong", "other", "done", "refused"}
CallerStates == [at : {"idle", "asking", "busy", "sent"}, access : {"unknown", "none", "helper"},
             missing : BOOLEAN, n : 0..Asks]
Pipes == [state : {"gone", "listening", "open", "left", "dropped"}, who : Callers \cup {NoCaller},
          request : Requests, reply : Outcomes]
Loop == [at : {"down", "checking", "calling", "accepting", "reading", "performing", "answering",
               "hanging"},
         stopping : BOOLEAN, current : BOOLEAN, doing : Requests, outcome : Outcomes]

HelperInit ==
  /\ caller = [a \in Callers |-> Fresh] /\ pipe = NoPipe /\ service = Resting
  /\ applied = [w \in Writes |-> 0] /\ answers = {} /\ spent = [deaths |-> 0, starts |-> 0]

Moves(a, at) == caller' = [caller EXCEPT ![a].at = at]
Request(a) == IF caller[a].access = "unknown" THEN <<a, 0>> ELSE <<a, caller[a].n>>
Running == service.at # "down"
-----------------------------------------------------------------------------
(* The program's side.  access() pings once (request 0); what it decides    *)
(* stands.                                                                  *)
AskHelper(a) ==
  /\ caller[a].at = "idle" /\ caller[a].access # "none" /\ caller[a].n < Asks
  /\ caller' = [caller EXCEPT ![a].at = "asking",
                              ![a].n = IF caller[a].access = "helper" THEN @ + 1 ELSE @]
  /\ UNCHANGED <<pipe, service, applied, answers, spent>>

(* decide: every failure of the ping means that no helper is answering.     *)
Decided(reply) == IF reply = "pong" THEN "helper" ELSE "none"
Told(a, reply) ==
  IF caller[a].access = "unknown"
    THEN /\ caller' = [caller EXCEPT ![a].at = "idle", ![a].access = Decided(reply),
                                     ![a].missing = ~Running \/ ~service.current]
         /\ UNCHANGED answers
    ELSE Moves(a, "idle") /\ answers' = answers \cup {<<Request(a), reply>>}

(* connect: a pipe that serves another is waited for, once.                 *)
OpenPipe(a) ==
  /\ caller[a].at \in {"asking", "busy"} /\ UNCHANGED <<service, applied, spent>>
  /\ \/ /\ pipe.state = "listening"
        /\ pipe' = [pipe EXCEPT !.state = "open", !.who = a, !.request = Request(a)]
        /\ Moves(a, "sent") /\ UNCHANGED answers
     \/ /\ pipe.state = "gone" \/ (pipe.state # "listening" /\ caller[a].at = "busy")
        /\ Told(a, "failed") /\ UNCHANGED pipe
     \/ /\ pipe.state \notin {"gone", "listening"} /\ caller[a].at = "asking"
        /\ Moves(a, "busy") /\ UNCHANGED <<pipe, answers>>

Hears(a) == pipe.who = a /\ pipe.state = "open"
Abandoned(p) == [p EXCEPT !.state = "left"]

(* Mutant: a reply that stops part-way has the request sent again.          *)
Unheard_AsksAgain(a) == Moves(a, "asking") /\ UNCHANGED <<pipe, answers>>

Unheard(a) == Told(a, "failed") /\ UNCHANGED pipe
Receive(a) ==
  /\ caller[a].at = "sent" /\ UNCHANGED <<service, applied, spent>>
  /\ IF Hears(a) THEN /\ pipe.reply # NoReply /\ Told(a, pipe.reply)
                      /\ pipe' = [Abandoned(pipe) EXCEPT !.reply = NoReply]
     ELSE Unheard(a)

CallerDies(a) ==
  /\ caller[a].at # "idle" /\ spent.deaths < Lives /\ spent' = [spent EXCEPT !.deaths = @ + 1]
  /\ caller' = [caller EXCEPT ![a] = [Fresh EXCEPT !.n = caller[a].n]]
  /\ pipe' = IF pipe.who = a THEN Abandoned(pipe) ELSE pipe
  /\ UNCHANGED <<service, applied, answers>>

-----------------------------------------------------------------------------
(* The service: serve is one loop over one instance of the pipe.            *)
Loops(at) == service' = [service EXCEPT !.at = at]

StartService(current) ==
  /\ ~Running /\ spent.starts < Services /\ spent' = [spent EXCEPT !.starts = @ + 1]
  /\ service' = [Resting EXCEPT !.at = "checking", !.current = current]
  /\ pipe' = [NoPipe EXCEPT !.state = "listening"]
  /\ UNCHANGED <<caller, applied, answers>>

CheckStopping ==
  /\ service.at = "checking" /\ UNCHANGED <<caller, applied, answers, spent>>
  /\ IF service.stopping THEN Loops("down") /\ pipe' = NoPipe
     ELSE Loops("calling") /\ UNCHANGED pipe

(* ConnectNamedPipe: a dropped instance listens again.                      *)
Listen ==
  /\ service.at = "calling" /\ Loops("accepting")
  /\ pipe' = IF pipe.state = "dropped" THEN [pipe EXCEPT !.state = "listening"] ELSE pipe
  /\ UNCHANGED <<caller, applied, answers, spent>>

Accept ==
  /\ service.at = "accepting" /\ pipe.state \in {"open", "left"}
  /\ Loops(IF service.stopping \/ pipe.state = "left" THEN "hanging" ELSE "reading")
  /\ UNCHANGED <<caller, pipe, applied, answers, spent>>

(* A program that leaves after it has asked may have been heard.            *)
ReadRequest ==
  /\ service.at = "reading" /\ UNCHANGED <<caller, applied, answers, spent>>
  /\ \/ /\ pipe.request # NoRequest
        /\ service' = [service EXCEPT !.at = "performing", !.doing = pipe.request]
        /\ pipe' = [pipe EXCEPT !.request = NoRequest]
     \/ pipe.state = "left" /\ Loops("hanging") /\ UNCHANGED pipe

Asked == service.doing
AppliedOnce(w) == [applied EXCEPT ![w] = @ + 1]

(* Mutant: the loop goes on to the next caller with this one still there.   *)
AfterPanic_Goes == "checking"

AfterPanic == "hanging"
(* dispatch and perform: a ping says the protocol; an operation is done,    *)
(* refused, or panics before or after the key has it.                       *)
Pong == IF service.current THEN "pong" ELSE "other"
Answers(outcome) == service' = [service EXCEPT !.at = "answering", !.outcome = outcome]
Perform ==
  /\ service.at = "performing" /\ UNCHANGED <<caller, pipe, answers, spent>>
  /\ IF Asked \notin Writes THEN Answers(Pong) /\ UNCHANGED applied
     ELSE \/ Answers("done") /\ applied' = AppliedOnce(Asked)
          \/ Answers("refused") /\ UNCHANGED applied
          \/ Loops(AfterPanic) /\ applied' \in {applied, AppliedOnce(Asked)}

Answer ==
  /\ service.at = "answering" /\ Loops("hanging")
  /\ pipe' = IF pipe.state = "open" THEN [pipe EXCEPT !.reply = service.outcome] ELSE pipe
  /\ UNCHANGED <<caller, applied, answers, spent>>

(* Mutant: the instance keeps what the last caller did not read.            *)
Disconnected_Keeps(p) == [p EXCEPT !.state = "dropped", !.who = NoCaller]

Disconnected(p) == [NoPipe EXCEPT !.state = "dropped"]
(* FlushFileBuffers waits for the caller to read what was answered.         *)
HangUp ==
  /\ service.at = "hanging" /\ ~(pipe.state = "open" /\ pipe.reply # NoReply)
  /\ Loops("checking") /\ pipe' = Disconnected(pipe)
  /\ UNCHANGED <<caller, applied, answers, spent>>

(* control: told to stop, it wakes the loop by opening the pipe itself.     *)
StopService ==
  /\ Running /\ ~service.stopping /\ service' = [service EXCEPT !.stopping = TRUE]
  /\ pipe' = IF pipe.state = "listening" THEN Abandoned(pipe) ELSE pipe
  /\ UNCHANGED <<caller, applied, answers, spent>>

ServiceDies ==
  /\ Running /\ spent.deaths < Lives /\ spent' = [spent EXCEPT !.deaths = @ + 1]
  /\ service' = Resting /\ pipe' = NoPipe /\ UNCHANGED <<caller, applied, answers>>

Serve == \/ CheckStopping \/ Listen \/ Accept \/ ReadRequest
         \/ Perform \/ Answer \/ HangUp
HelperNext ==
  \/ \E a \in Callers : AskHelper(a) \/ OpenPipe(a) \/ Receive(a) \/ CallerDies(a)
  \/ \E current \in BOOLEAN : StartService(current)
  \/ Serve \/ StopService \/ ServiceDies

(* Both loops run on; the key gives up on a touch that does not come.       *)
HelperFair == WF_helperVars(Serve) /\ \A a \in Callers : WF_helperVars(OpenPipe(a) \/ Receive(a))

HelperSpec == HelperInit /\ [][HelperNext]_helperVars /\ HelperFair
-----------------------------------------------------------------------------
(* Programs, the pipe and the service's loop (device/helper/service.rs) are *)
(* in states they have a name for.                                          *)
HelperTypeOK ==
  /\ caller \in [Callers -> CallerStates] /\ pipe \in Pipes /\ service \in Loop
  /\ applied \in [Writes -> Nat]

(* What a program is told is of its own request: done was done, once, and   *)
(* refused was not, whoever died or left an answer unread; no request is    *)
(* carried out twice; and a program works through the helper only when one  *)
(* of its own protocol answered (device/helper/mod.rs).                     *)
HelperIsTrue ==
  /\ \A w \in Writes : applied[w] <= 1
  /\ \A w \in Writes : /\ <<w, "done">> \in answers => applied[w] = 1
                       /\ <<w, "refused">> \in answers => applied[w] = 0
                       /\ <<w, "pong">> \notin answers

(* The read has no timeout and needs none: who asks is told something.      *)
AskersAreAnswered == \A a \in Callers : (caller[a].at # "idle") ~> (caller[a].at = "idle")

(* An operation that failed was not carried out: the executor reads it so.  *)
FailedDidNothing == \A w \in Writes : <<w, "failed">> \in answers => applied[w] = 0

(* Only a missing helper leaves a program without one (serve, listen).      *)
RefusedIsMissing == \A a \in Callers : caller[a].access = "none" => caller[a].missing

(* A service told to stop stops (control).                                  *)
StopEnds == service.stopping ~> (~Running)
=============================================================================
