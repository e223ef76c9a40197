------------------------------- MODULE Preflight -------------------------------
(* The pre-flight (bootstrap/preflight.rs, device/applets.rs, template/     *)
(* applicability.rs): what a key says, read before a run, against what the  *)
(* steps of StepEffects then do to that key.                                *)
EXTENDS Naturals, Sequences, FiniteSets

CONSTANTS PfKeys,   \* states a key is found in
          PfPlans   \* sequences of kinds of steps

S == INSTANCE StepEffects WITH Reports <- TRUE, LostReplies <- FALSE, HalfWrites <- FALSE

ASSUME PreflightAssumption == PfKeys \subseteq S!KeyState /\ PfPlans \subseteq Seq(S!Kinds)

VARIABLES exam,     \* the key, what of it answered, what the register says of it, the plan
          looked,   \* the findings are on the screen
          card,     \* the key and what the executor holds, while it runs
          met       \* how each step ended that was performed

preflightVars == <<exam, looked, card, met>>

Applications == {"FIDO2", "OTP", "PIV"}
AppletOf(kind) ==
  CASE kind \in {"fidoPin", "minLength", "forceChange", "credential"} -> "FIDO2"
    [] kind \in {"otpCode", "otpSlot"} -> "OTP"
    [] kind = "verify" -> "none"
    [] OTHER -> "PIV"
StepsOf(e) == 1..Len(e.plan)
StepsOn(e, applet) == {i \in StepsOf(e) : AppletOf(e.plan[i]) = applet}

(* read: each applet answers or does not, one that is switched off cannot;  *)
(* the management applet says which are on.                                 *)
Answered(e, applet) == applet \in e.on /\ applet \notin e.silent
ApplicationOn(e, applet) == applet \in e.on

(* Mutant: a programmed OTP slot is no evidence of a procedure.             *)
Evidence_ButForOtp(e) ==
  \/ Answered(e, "PIV") /\ e.key.cert
  \/ Answered(e, "FIDO2") /\ e.key.fido # "none"

(* already_configured: evidence of a procedure, of the applets that answered.*)
Evidence(e) ==
  \/ Answered(e, "PIV") /\ e.key.cert
  \/ Answered(e, "FIDO2") /\ e.key.fido # "none"
  \/ Answered(e, "OTP") /\ e.key.slot

(* check_fido2_reachable, check_retry_counters, check_applicability.        *)
Unreachable(e) == ~e.elevated /\ StepsOn(e, "FIDO2") # {}
LeftOn(e, applet) == IF applet = "PIV" THEN e.key.tries ELSE e.fidoTries
LockedOut(e) == \E applet \in {"PIV", "FIDO2"} : Answered(e, applet) /\ LeftOn(e, applet) = 0
NearlyLocked(e) ==
  \E applet \in {"PIV", "FIDO2"} : Answered(e, applet) /\ LeftOn(e, applet) \in 1..2
WrongProcedure(e) == e.needs # {} /\ (IF e.managed THEN ~(e.needs \subseteq e.on)
                                      ELSE e.listed # {} /\ ~(e.needs \subseteq e.listed))
NotChecked(e) == e.needs # {} /\ ~e.managed /\ e.listed = {}

(* A step no program and no native operation performs.                      *)
Unperformable(kind) == FALSE
FirmwareSkips(e, i) == e.plan[i] = "minLength" /\ e.old
CannotEnforce(e, i) == e.plan[i] = "forceChange" /\ e.old
ApplicationSkips(e, i) ==
  LET applet == AppletOf(e.plan[i])
  IN applet # "none" /\ IF e.managed THEN ~ApplicationOn(e, applet)
                        ELSE e.listed # {} /\ applet \notin e.listed
NothingSaysItIsOn(e, i) ==
  LET applet == AppletOf(e.plan[i])
  IN applet # "none" /\ ~e.managed /\ e.listed = {} /\ ~Answered(e, applet)

(* Mutant: the PIV PIN is taken to be set where the management key is.      *)
AlreadyApplied_ByTheMgmKey(e, i) ==
  LET kind == e.plan[i] IN
    \/ kind = "fidoPin" /\ Answered(e, "FIDO2") /\ e.key.fido # "none"
    \/ kind = "pinPuk" /\ Answered(e, "PIV") /\ e.key.mgm # "default"

(* already_applied.                                                         *)
AlreadyApplied(e, i) ==
  LET kind == e.plan[i] IN
    \/ kind = "fidoPin" /\ Answered(e, "FIDO2") /\ e.key.fido # "none"
    \/ kind = "credential" /\ Answered(e, "FIDO2") /\ S!SaysHeld(e.key)
    \/ kind = "pinPuk" /\ Answered(e, "PIV") /\ e.key.pin # "default"
    \/ kind = "otpCode" /\ Answered(e, "OTP") /\ ~e.key.slot

WarnsOfStep(e, i) ==
  \/ Unperformable(e.plan[i]) \/ CannotEnforce(e, i) \/ NothingSaysItIsOn(e, i)
  \/ e.plan[i] = "keygen" /\ Answered(e, "PIV") /\ e.key.cert
  \/ e.plan[i] = "otpCode"
Skips(e, i) == FirmwareSkips(e, i) \/ ApplicationSkips(e, i) \/ AlreadyApplied(e, i)

Applying(e) == {i \in StepsOf(e) : e.plan[i] # "verify"}
NothingToApply(e) == Applying(e) # {} /\ \A i \in Applying(e) : Skips(e, i)

(* What refuses the run.  A key that is not on the register ends the        *)
(* examination.                                                             *)
Blocks(e) ==
  \/ Unreachable(e) \/ ~e.known
  \/ WrongProcedure(e) \/ LockedOut(e) \/ Evidence(e) \/ NothingToApply(e)

Findings(e) ==
  (IF Blocks(e) THEN {<<"blocking", 0>>} ELSE {})
    \cup {<<"skip", i>> : i \in {j \in StepsOf(e) : e.known /\ Skips(e, j)}}
    \cup {<<"warning", i>> : i \in {j \in StepsOf(e) : e.known /\ WarnsOfStep(e, j) /\ ~Skips(e, j)}}
    \cup (IF e.known /\ (NearlyLocked(e) \/ NotChecked(e)) THEN {<<"warning", 0>>} ELSE {})

-----------------------------------------------------------------------------
(* Firmware and applications are what the key's maker and its last owner    *)
(* left; the register's list may be of another day, or never read.  Tries   *)
(* at the FIDO2 PIN are spent where one was set.                            *)
Exams == [key : PfKeys, fidoTries : {8}, plan : PfPlans, on : {Applications} \cup {Applications \ {a} : a \in Applications},
          silent : {{}, {"FIDO2"}, {"PIV"}}, old : BOOLEAN, managed : BOOLEAN,
          listed : {{}, Applications, {"PIV"}}, needs : {{}, {"PIV"}}, known : {TRUE}, elevated : {TRUE}]
Usual == {e \in Exams : e.on = Applications /\ e.silent = {} /\ ~e.old /\ e.managed}
Guessed == {e \in Exams : e.key.fido # "none" /\ e.on = Applications /\ ~e.old /\ e.managed}
Exceptions == {[e EXCEPT !.known = FALSE] : e \in Usual}
              \cup {[e EXCEPT !.elevated = FALSE] : e \in Usual}
              \cup {[e EXCEPT !.fidoTries = 0] : e \in Guessed}
              \cup {[e EXCEPT !.fidoTries = 2] : e \in Guessed}

PreflightInit ==
  /\ exam \in Exams \cup Exceptions /\ looked = FALSE /\ met = <<>>
  /\ card = [key |-> exam.key, purse |-> S!NoSecrets]

Examine == ~looked /\ looked' = TRUE /\ UNCHANGED <<exam, card, met>>

(* What the executor meets: it reads the applet itself, and asks the        *)
(* findings nothing.  An applet that is off, and a command the firmware     *)
(* does not have, are errors.                                               *)
Meets(e, i) ==
  IF \/ AppletOf(e.plan[i]) \notin e.on \cup {"none"}
     \/ (FirmwareSkips(e, i) \/ CannotEnforce(e, i)) /\ card.purse.fido # "none"
  THEN {S!Outcome(card.key, card.purse, "refused")}
  ELSE S!Perform(e.plan[i], card.key, card.purse, "good")
Meet ==
  /\ looked /\ <<"blocking", 0>> \notin Findings(exam) /\ Len(met) < Len(exam.plan)
  /\ \E r \in Meets(exam, Len(met) + 1) :
       /\ card' = [key |-> r.key, purse |-> r.purse] /\ met' = Append(met, r.result)
  /\ UNCHANGED <<exam, looked>>

PreflightNext == Examine \/ Meet

PreflightSpec == PreflightInit /\ [][PreflightNext]_preflightVars
-----------------------------------------------------------------------------
Foretold(i) == <<"skip", i>> \in Findings(exam)
Passed(i) == met[i] \in {"already", "skip", "retryable", "fatal"}

(* Severity::Skip (preflight.rs): "the run can proceed and this step will   *)
(* be skipped".                                                             *)
SkipsComeTrue == \A i \in DOMAIN met : Foretold(i) => Passed(i)

(* It does, where the finding is of what the applet holds, and no step of   *)
(* the same run changes that first.                                         *)
SkipsOfStateComeTrue == \A i \in DOMAIN met :
  Foretold(i) /\ ~ApplicationSkips(exam, i) /\ ~FirmwareSkips(exam, i)
    /\ ~(exam.plan[i] = "otpCode" /\ \E j \in 1..(i - 1) : exam.plan[j] = "otpSlot") => Passed(i)

(* A key that has been through a procedure is not given another (preflight  *)
(* .rs, check_already_configured), as far as its applets answered.          *)
ConfiguredIsRefused ==
  met # <<>> /\ exam.silent = {} /\ exam.on = Applications => ~S!AlreadyConfigured(exam.key)
=============================================================================
