------------------------------- MODULE MCBench -------------------------------
(* What an operator does with a key in hand: the port and who lists it, the  *)
(* reset card, the pre-flight, the wizard.  The modules have no variable in  *)
(* common, so a run explores them side by side: a scene is chosen and the    *)
(* others stand.                                                             *)
EXTENDS FactoryReset, Preflight, Wizard, TLC

CONSTANTS k1, k2

VARIABLE scene

portVars == <<watchVars, resetVars>>
benchVars == <<portVars, preflightVars, wzVars, scene>>

-----------------------------------------------------------------------------
(* Keys as they are found, and plans for them.                              *)
Factory == S!FactoryKey
Found == {Factory, [Factory EXCEPT !.tries = 0], [Factory EXCEPT !.tries = 1],
          [Factory EXCEPT !.slot = TRUE], [Factory EXCEPT !.pin = "set", !.puk = "set"],
          [Factory EXCEPT !.mgm = "protected"],
          [Factory EXCEPT !.fido = "holder", !.credential = TRUE],
          [Factory EXCEPT !.pin = "holder", !.puk = "set", !.mgm = "protected",
                          !.pair = "a", !.cert = TRUE]}
Plans == {<<kind>> : kind \in S!Kinds}
           \cup {<<"otpSlot", "otpCode">>, <<"fidoPin", "credential">>,
                 <<"pinPuk", "keygen">>, <<"fidoPin", "minLength">>}
AnExam == CHOOSE e \in Exams : TRUE

(* Two versions of one length that differ in their order, and a third.      *)
WzStep(kind, required, on) == [kind |-> kind, required |-> required, on |-> on]
Procedures ==
  [none |-> <<>>,
   x1 |-> <<WzStep("force", FALSE, FALSE), WzStep("cred", FALSE, TRUE)>>,
   x2 |-> <<WzStep("cred", FALSE, TRUE), WzStep("force", FALSE, TRUE)>>,
   y |-> <<WzStep("pin", TRUE, TRUE)>>]
Offerings == <<<<"x1", "y">>, <<"y", "x1">>>>

Symmetry == Permutations(Keys)

-----------------------------------------------------------------------------
(* A reset is asked for on the inventory screen, the port in view.          *)
InView ==
  /\ port \in SUBSET Keys /\ port # {} /\ fresh = {} /\ tab = "inventory" /\ thread = "asleep"
  /\ view = [generation |-> 1, keys |-> port, unreadable |-> {}] /\ attached = view
  /\ seenGeneration = 1 /\ selected = NoKey /\ writing = "none"
  /\ moves = [port |-> 2, start |-> 0]

ExamInit ==
  IF scene = "preflight" THEN PreflightInit
  ELSE /\ exam = AnExam /\ looked = FALSE /\ met = <<>>
       /\ card = [key |-> exam.key, purse |-> S!NoSecrets]

BenchInit ==
  /\ scene \in {"watch", "reset", "preflight", "wizard"}
  /\ IF scene = "reset" THEN InView ELSE WatchInit /\ (scene # "watch" => port = {})
  /\ ResetInit /\ ExamInit /\ WzInit

(* OTP stays ticked on the reset card; the wizard's run leaves one entry and *)
(* one slip.                                                                 *)
ResetMoves == ResetNext /\ tab' # "bootstrap" /\ (panel'.ticked # {} => "otp" \in panel'.ticked)
WizardMoves == WzNext /\ Cardinality(shown') <= 1 /\ Cardinality(slips') <= 1

BenchNext ==
  /\ UNCHANGED scene
  /\ \/ scene = "watch" /\ WatchNext /\ UNCHANGED <<resetVars, preflightVars, wzVars>>
     \/ scene = "reset" /\ ResetMoves /\ UNCHANGED <<preflightVars, wzVars>>
     \/ scene = "preflight" /\ PreflightNext /\ UNCHANGED <<portVars, wzVars>>
     \/ scene = "wizard" /\ WizardMoves /\ UNCHANGED <<portVars, preflightVars>>

BenchSpec == BenchInit /\ [][BenchNext]_benchVars

-----------------------------------------------------------------------------
(* The plan an operator confirms can be carried out as it was shown: it has  *)
(* what its steps depend on (template/plan.rs), and what the pre-flight says *)
(* of the key's state is what the executor meets (bootstrap/preflight.rs).   *)
PlanComesTrue == PlanIsUsable /\ SkipsOfStateComeTrue /\ ConfiguredIsRefused
=============================================================================
