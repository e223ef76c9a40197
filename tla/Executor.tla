------------------------------ MODULE Executor ------------------------------
(***************************************************************************)
(* Bootstrap runs of one procedure against one key: the executor's loop,   *)
(* the run rows it persists, the copies of those rows each desk works      *)
(* from, and the key itself.  A run is started, interrupted, picked up     *)
(* off the register by the same desk or another, finished or abandoned.    *)
(*                                                                         *)
(* One action per call the executor makes on the recorder (a transaction   *)
(* or an audit entry, each of which can fail) or on the key.               *)
(***************************************************************************)
EXTENDS StepEffects, FiniteSets

CONSTANTS
  Desks,      \* the workstations
  Runs,       \* ids of run rows
  Procedure,  \* the planned steps, each [kind, required]
  Budget,     \* attempts a step is given (TemplateStep::attempts)
  Ops,        \* what operators do in this instance
  Faults,     \* which of "crash", "io", "unread" may happen
  None        \* no row, no run held

Steps == 1..Len(Procedure)
Kind(i) == Procedure[i].kind
Required(i) == Procedure[i].required

StepStatus == {"Pending", "Running", "Done", "Failed", "Skipped"}
RunStatus == {"Planned", "Running", "Completed", "Failed", "Aborted"}
RunRow == [status : RunStatus, steps : [Steps -> StepStatus]]

OpNames == {"run", "resume", "abandon", "dryrun", "holder", "reset"}

ASSUME ExecutorAssumption ==
  /\ Procedure \in Seq([kind : Kinds, required : BOOLEAN])
  /\ Budget \in 1..5
  /\ Ops \subseteq OpNames
  /\ Faults \subseteq {"crash", "io", "unread"}
  /\ Reports \in BOOLEAN /\ LostReplies \in BOOLEAN /\ HalfWrites \in BOOLEAN
  /\ None \notin Runs /\ None \notin RunRow

VARIABLES
  key,        \* what is on the key
  row,        \* bootstrap_runs with its steps
  request,    \* is the certificate request a run recorded one for the key pair in the slot?
  trail,      \* audit entries about runs, <<run, step, event>>, step 0 for the run itself
  listed,     \* the runs each desk last read
  held,       \* the run on each desk's wizard
  confirmed,  \* desks whose pre-flight passed and whose operator has yet to confirm
  exec,       \* what each desk's interface thread is doing
  wrote,      \* history: <<run, step>> of every step that changed the key
  wiped,      \* history: runs begun before a reset of the key
  unknown     \* history: secrets on the key that nobody has been shown

vars == <<key, row, request, trail, listed, held, confirmed, exec, wrote, wiped, unknown>>
register == <<row, trail>>
history == <<wrote, wiped, unknown>>

Row(status, steps) == [status |-> status, steps |-> steps]

Pending == [i \in Steps |-> "Pending"]
Idle == [at |-> "idle", id |-> None, steps |-> Pending, i |-> 0, attempt |-> 1,
         result |-> "skip", purse |-> NoSecrets, pem |-> "none", status |-> "Running", guesses |-> 0]

At(d, stage) == exec[d].at = stage
Free(d, op) == exec[d] = Idle /\ op \in Ops
GoTo(d, stage) == exec' = [exec EXCEPT ![d].at = stage]
Drives(d) == exec[d].at \notin {"idle", "abandon"}
PortFree == \A d \in Desks : ~Drives(d)

(* resumable: neither finished nor closed by hand, and something to do.    *)
Resumable(r) ==
  /\ r # None
  /\ r.status \notin {"Completed", "Aborted"}
  /\ \E i \in Steps : r.steps[i] # "Done"

(* What the wizard asks before it offers to finish a run: a certificate    *)
(* request on record and an import that has not happened.                  *)
AwaitsCertificate(r) ==
  /\ \E i \in Steps : Kind(i) = "csr" /\ r.steps[i] = "Done"
  /\ \E i \in Steps : Kind(i) = "import" /\ r.steps[i] # "Done"

Ahead_Everything(steps, i) == {j \in Steps : j > i}
Ahead_Same(steps, i) == {j \in Steps : j >= i /\ steps[j] # "Done"}

(* The step the loop comes to after step i: Done steps are passed over.    *)
Ahead(steps, i) == {j \in Steps : j > i /\ steps[j] # "Done"}
Advance(e, i) ==
  LET ahead == Ahead(e.steps, i)
  IN  IF ahead = {} THEN [e EXCEPT !.at = "settle"]
      ELSE [e EXCEPT !.at = "mark", !.attempt = 1, !.guesses = 0,
                     !.i = CHOOSE j \in ahead : \A k \in ahead : j <= k]

-----------------------------------------------------------------------------
Init ==
  /\ key = FactoryKey
  /\ row = [r \in Runs |-> None]
  /\ request = [r \in Runs |-> "none"]
  /\ trail = {}
  /\ listed = [d \in Desks |-> [r \in Runs |-> None]]
  /\ held = [d \in Desks |-> None]
  /\ confirmed = {}
  /\ exec = [d \in Desks |-> Idle]
  /\ wrote = {} /\ wiped = {} /\ unknown = {}

Reread(d) == listed' = [listed EXCEPT ![d] = row]

Refresh(d) ==
  /\ exec[d] = Idle
  /\ listed[d] # row
  /\ Reread(d)
  /\ UNCHANGED <<key, register, request, held, confirmed, exec, history>>

(* The pre-flight: nothing to refuse, or nothing could be read.            *)
Preflight(d) ==
  /\ Free(d, "run")
  /\ held[d] = None /\ d \notin confirmed
  /\ \/ ~AlreadyConfigured(key) /\ key.tries > 0
     \/ "unread" \in Faults
  /\ confirmed' = confirmed \cup {d}
  /\ UNCHANGED <<key, register, request, listed, held, exec, history>>

(* The confirmed plan is executed: bootstrap.started, under a fresh id.    *)
(* The certificate loaded last on this desk is still in its field: another *)
(* key's, or this one's when a request is out for it.                      *)
Start(d, r) ==
  /\ Free(d, "run")
  /\ d \in confirmed /\ PortFree
  /\ row[r] = None /\ \A e \in Desks : exec[e].id # r
  /\ <<r, 0, "started">> \notin trail
  /\ confirmed' = confirmed \ {d}
  /\ trail' = trail \cup {<<r, 0, "started">>}
  /\ \E pem \in {"none", "wrong", "right"} :
       /\ pem = "right" => \E q \in Runs : request[q] = "current"
       /\ exec' = [exec EXCEPT ![d] = [Idle EXCEPT !.at = "open", !.id = r, !.pem = pem]]
  /\ UNCHANGED <<key, row, request, listed, held, history>>

(* adopt_run: the wizard takes its copy from the list, not the register.   *)
PickUp(d, r) ==
  /\ Free(d, "resume")
  /\ held[d] = None
  /\ Resumable(listed[d][r])
  /\ held' = [held EXCEPT ![d] = [id |-> r, row |-> listed[d][r]]]
  /\ confirmed' = confirmed \ {d}
  /\ UNCHANGED <<key, register, request, listed, exec, history>>

StartAnother(d) ==
  /\ exec[d] = Idle
  /\ held[d] # None
  /\ held' = [held EXCEPT ![d] = None]
  /\ UNCHANGED <<key, register, request, listed, confirmed, exec, history>>

(* The operator brings the certificate and types the key's PIV PIN; either *)
(* may be the wrong one.                                                   *)
Resume(d) ==
  /\ Free(d, "resume")
  /\ held[d] # None /\ PortFree
  /\ AwaitsCertificate(held[d].row)
  /\ \E pin \in {"good", "bad"}, pem \in {"right", "wrong"} :
       /\ pin = "good" => key.pin # "default" /\ "pin" \notin unknown
       /\ pem = "right" => request[held[d].id] = "current"
       /\ exec' = [exec EXCEPT ![d] =
            [Idle EXCEPT !.at = "open", !.id = held[d].id, !.steps = held[d].row.steps,
                         !.purse.pin = pin, !.pem = pem]]
  /\ trail' = trail \cup {<<held[d].id, 0, "resumed">>}
  /\ UNCHANGED <<key, row, request, listed, held, confirmed, history>>

(* A dry run: the plan on the register as Planned, every step Skipped.     *)
DryRun(d, r) ==
  /\ Free(d, "dryrun")
  /\ row[r] = None /\ \A e \in Desks : exec[e].id # r
  /\ row' = [row EXCEPT ![r] = Row("Planned", [i \in Steps |-> "Skipped"])]
  /\ trail' \in {trail \cup {<<r, 0, "planned">>}} \cup (IF "io" \in Faults THEN {trail} ELSE {})
  /\ listed' = [listed EXCEPT ![d] = row']
  /\ UNCHANGED <<key, request, held, confirmed, exec, history>>

-----------------------------------------------------------------------------
(* The loop.                                                               *)

Persist(d, status, steps) == row' = [row EXCEPT ![exec[d].id] = Row(status, steps)]

Open(d) ==
  /\ At(d, "open")
  /\ Persist(d, "Running", exec[d].steps)
  /\ exec' = [exec EXCEPT ![d] = Advance(@, 0)]
  /\ UNCHANGED <<key, request, trail, listed, held, confirmed, history>>

Mark_InMemory(d) ==
  /\ At(d, "mark")
  /\ exec' = [exec EXCEPT ![d].at = "attempt", ![d].steps[exec[d].i] = "Running"]
  /\ UNCHANGED <<key, row, request, trail, listed, held, confirmed, history>>

(* Rule 2: Running is on the register before the key is touched.           *)
Mark(d) ==
  /\ At(d, "mark")
  /\ LET steps == [exec[d].steps EXCEPT ![exec[d].i] = "Running"]
     IN  /\ Persist(d, "Running", steps)
         /\ exec' = [exec EXCEPT ![d].at = "attempt", ![d].steps = steps]
  /\ UNCHANGED <<key, request, trail, listed, held, confirmed, history>>

TriesAgain_OneMore(e, result) == IsWorthRetrying(result) /\ e.attempt <= Budget

(* Rule 7: another attempt only at a failure worth it, within the budget.  *)
TriesAgain(e, result) == IsWorthRetrying(result) /\ e.attempt < Budget

(* A certificate request is good for the pair it was made from.            *)
Requests(d, i, o) ==
  [r \in Runs |-> IF Kind(i) = "csr" /\ r = exec[d].id /\ o.result = "applied" THEN "current"
                  ELSE IF o.key.pair # key.pair /\ request[r] = "current" THEN "stale"
                  ELSE request[r]]

(* The certificate at hand is of no use once its key pair is gone.         *)
Certificate(e) ==
  IF e.pem = "right" /\ \A r \in Runs : request[r] # "current" THEN "wrong" ELSE e.pem

Attempt(d) ==
  /\ At(d, "attempt")
  /\ LET e == exec[d]
         i == e.i
     IN  \E o \in Perform(Kind(i), key, e.purse, Certificate(e)) :
           /\ key' = o.key
           /\ request' = Requests(d, i, o)
           /\ wrote' = IF [o.key EXCEPT !.tries = key.tries] # key
                         THEN wrote \cup {<<e.id, i>>} ELSE wrote
           /\ unknown' = unknown \cup {s \in o.purse.made : o.key[s] # key[s]}
           /\ trail' = IF TriesAgain(e, o.result)
                         THEN trail \cup {<<e.id, i, "retried">>} ELSE trail
           /\ exec' = [exec EXCEPT ![d] =
                [e EXCEPT !.purse = o.purse,
                          !.guesses = IF o.key.tries < key.tries THEN @ + 1 ELSE @,
                          !.attempt = IF TriesAgain(e, o.result) THEN @ + 1 ELSE @,
                          !.at = IF TriesAgain(e, o.result) THEN "attempt" ELSE "judge",
                          !.result = o.result]]
  /\ UNCHANGED <<row, listed, held, confirmed, wiped>>

Verdict(result) == CASE result = "applied"             -> "Done"
                     [] result \in {"already", "skip"} -> "Skipped"
                     [] result \in Errors              -> "Failed"

Judge_Silent(d) ==
  /\ At(d, "judge")
  /\ exec' = [exec EXCEPT ![d].at = "record", ![d].steps[exec[d].i] = Verdict(exec[d].result)]
  /\ UNCHANGED <<key, row, request, trail, listed, held, confirmed, history>>

(* The outcome is audited, then recorded.                                  *)
Judge(d) ==
  /\ At(d, "judge")
  /\ LET verdict == Verdict(exec[d].result)
     IN  /\ trail' = trail \cup {<<exec[d].id, exec[d].i, verdict>>}
         /\ exec' = [exec EXCEPT ![d].at = "record", ![d].steps[exec[d].i] = verdict]
  /\ UNCHANGED <<key, row, request, listed, held, confirmed, history>>

(* Mutants: only the one reason, only the other.                           *)
Aborts_OnFatalOnly(e) == e.steps[e.i] = "Failed" /\ IsFatal(e.result)
Aborts_OnRequiredOnly(e) == e.steps[e.i] = "Failed" /\ Required(e.i)

(* Rule 3: a required step's failure ends the run, and so does any failure *)
(* that says the key is gone.                                              *)
Aborts(e) == e.steps[e.i] = "Failed" /\ (Required(e.i) \/ IsFatal(e.result))

Record(d) ==
  /\ At(d, "record")
  /\ Persist(d, "Running", exec[d].steps)
  /\ exec' = [exec EXCEPT ![d] =
                IF Aborts(@) THEN [@ EXCEPT !.at = "final", !.status = "Failed"]
                             ELSE Advance(@, @.i)]
  /\ UNCHANGED <<key, request, trail, listed, held, confirmed, history>>

Unmet_Failed(e) == {i \in Steps : Required(i) /\ e.steps[i] = "Failed"}

(* settle, and then the check that settle cannot make: a required step     *)
(* that was skipped is neither failed nor pending.                         *)
Settled(e) ==
  IF \E i \in Steps : e.steps[i] = "Failed" THEN "Failed"
  ELSE IF \E i \in Steps : e.steps[i] \in {"Pending", "Running"} THEN "Running"
  ELSE "Completed"
Unmet(e) == {i \in Steps : Required(i) /\ e.steps[i] # "Done"}

Settle(d) ==
  /\ At(d, "settle")
  /\ LET e == exec[d]
         incomplete == Settled(e) = "Completed" /\ Unmet(e) # {}
     IN  /\ trail' = IF incomplete THEN trail \cup {<<e.id, 0, "incomplete">>} ELSE trail
         /\ exec' = [exec EXCEPT ![d].at = "final",
                                 ![d].status = IF incomplete THEN "Failed" ELSE Settled(e)]
  /\ UNCHANGED <<key, row, request, listed, held, confirmed, history>>

Final(d) ==
  /\ At(d, "final")
  /\ Persist(d, exec[d].status, exec[d].steps)
  /\ GoTo(d, "sign")
  /\ UNCHANGED <<key, request, trail, listed, held, confirmed, history>>

ShowSecrets_Completed(d) ==
  unknown' = IF exec[d].status = "Completed" THEN unknown \ exec[d].purse.made ELSE unknown

(* The secrets go to the show-once panel however the run ended.            *)
ShowSecrets(d) == unknown' = unknown \ exec[d].purse.made

Sign(d) ==
  /\ At(d, "sign")
  /\ trail' = trail \cup {<<exec[d].id, 0, "finished">>}
  /\ held' = [held EXCEPT ![d] = [id |-> exec[d].id, row |-> Row(exec[d].status, exec[d].steps)]]
  /\ ShowSecrets(d)
  /\ exec' = [exec EXCEPT ![d] = Idle]
  /\ Reread(d)
  /\ UNCHANGED <<key, row, request, confirmed, wrote, wiped>>

(* A recorder call fails: NotRecordable.  The run stops there, and the     *)
(* wizard keeps the copy it had before.  A first attempt records nothing;  *)
(* every later one was preceded by an entry.                               *)
NotRecordable(d) ==
  /\ "io" \in Faults
  /\ Drives(d) /\ (At(d, "attempt") => exec[d].attempt > 1)
  /\ ShowSecrets(d)
  /\ exec' = [exec EXCEPT ![d] = Idle]
  /\ Reread(d)
  /\ UNCHANGED <<key, register, request, held, confirmed, wrote, wiped>>

-----------------------------------------------------------------------------
(* abandon_run: the listed copy, closed; the trail first, then the row.    *)
Abandon(d, r) ==
  /\ Free(d, "abandon")
  /\ Resumable(listed[d][r])
  /\ trail' = trail \cup {<<r, 0, "abandoned">>}
  /\ exec' = [exec EXCEPT ![d] =
                [Idle EXCEPT !.at = "abandon", !.id = r, !.steps = listed[d][r].steps]]
  /\ UNCHANGED <<key, row, request, listed, held, confirmed, history>>

AbandonWrite(d) ==
  /\ At(d, "abandon")
  /\ Persist(d, "Aborted", exec[d].steps)
  /\ listed' = [listed EXCEPT ![d] = row']
  /\ held' = IF held[d] # None /\ held[d].id = exec[d].id
               THEN [held EXCEPT ![d] = None] ELSE held
  /\ exec' = [exec EXCEPT ![d] = Idle]
  /\ UNCHANGED <<key, request, trail, confirmed, history>>

AbandonFails(d) ==
  /\ "io" \in Faults
  /\ At(d, "abandon")
  /\ exec' = [exec EXCEPT ![d] = Idle]
  /\ UNCHANGED <<key, register, request, listed, held, confirmed, history>>

Crash(d) ==
  /\ "crash" \in Faults
  /\ exec[d] # Idle
  /\ exec' = [exec EXCEPT ![d] = Idle]
  /\ held' = [held EXCEPT ![d] = None]
  /\ confirmed' = confirmed \ {d}
  /\ Reread(d)
  /\ UNCHANGED <<key, register, request, history>>

-----------------------------------------------------------------------------
(* What happens to the key away from the executor.                         *)

(* The holder, told to change the transport secrets, does.                 *)
HolderChanges ==
  /\ "holder" \in Ops /\ PortFree
  /\ \/ /\ key.pin = "set" /\ "pin" \notin unknown
        /\ key' = [key EXCEPT !.pin = "holder", !.tries = MaxTries]
     \/ /\ key.fido = "set" /\ "fido" \notin unknown
        /\ key' = [key EXCEPT !.fido = "holder", !.forced = FALSE]
  /\ UNCHANGED <<register, request, listed, held, confirmed, exec, history>>

Cleared(applet) ==
  CASE applet = "fido2" -> [key EXCEPT !.fido = "none", !.minLength = FALSE, !.forced = FALSE,
                                       !.credential = FALSE]
    [] applet = "otp"   -> [key EXCEPT !.slot = FALSE, !.code = FALSE]
    [] applet = "piv"   -> [key EXCEPT !.pin = "default", !.puk = "default", !.mgm = "default",
                                       !.pair = "none", !.cert = FALSE, !.tries = MaxTries]

SecretsOf(applet) == CASE applet = "fido2" -> {"fido"}
                       [] applet = "otp"   -> {"code"}
                       [] applet = "piv"   -> {"pin", "puk", "mgm"}

(* One applet is returned to factory default.                              *)
ResetApplet ==
  /\ "reset" \in Ops /\ PortFree
  /\ \E applet \in {"fido2", "otp", "piv"} :
       /\ key' = Cleared(applet)
       /\ key' # key
       /\ unknown' = unknown \ SecretsOf(applet)
       /\ request' = [r \in Runs |-> IF applet = "piv" /\ request[r] = "current"
                                       THEN "stale" ELSE request[r]]
  /\ wiped' = wiped \cup {r \in Runs : row[r] # None}
  /\ UNCHANGED <<register, listed, held, confirmed, exec, wrote>>

-----------------------------------------------------------------------------
Operator(d) ==
  \/ Refresh(d) \/ Preflight(d) \/ StartAnother(d) \/ Resume(d)
  \/ \E r \in Runs : Start(d, r) \/ PickUp(d, r) \/ DryRun(d, r) \/ Abandon(d, r)

Drive(d) ==
  \/ Open(d) \/ Mark(d) \/ Attempt(d) \/ Judge(d) \/ Record(d)
  \/ Settle(d) \/ Final(d) \/ Sign(d) \/ AbandonWrite(d)

Fault(d) == NotRecordable(d) \/ AbandonFails(d) \/ Crash(d)

Next ==
  \/ \E d \in Desks : Operator(d) \/ Drive(d) \/ Fault(d)
  \/ HolderChanges \/ ResetApplet

Spec == Init /\ [][Next]_vars

(* The executor runs to its end on the thread that entered it.             *)
FairSpec == Spec /\ \A d \in Desks : WF_vars(Drive(d))

-----------------------------------------------------------------------------
Stages == {"idle", "open", "mark", "attempt", "judge", "record", "settle", "final", "sign", "abandon"}

ExecState ==
  [at : Stages, id : Runs \cup {None}, steps : [Steps -> StepStatus], i : 0..Len(Procedure),
   attempt : 1..Budget, result : Results, purse : Purse, pem : {"none", "right", "wrong"},
   status : RunStatus, guesses : Nat]

(* Every row and every copy of a row is one the schema can hold, and the   *)
(* executor is always at a stage and a step it has.                        *)
TypeOK ==
  /\ key \in KeyState
  /\ row \in [Runs -> RunRow \cup {None}]
  /\ request \in [Runs -> {"none", "current", "stale"}]
  /\ trail \subseteq Runs \X (0..Len(Procedure)) \X
       (StepStatus \cup {"started", "resumed", "incomplete", "finished", "abandoned", "retried", "planned"})
  /\ listed \in [Desks -> [Runs -> RunRow \cup {None}]]
  /\ held \in [Desks -> [id : Runs, row : RunRow] \cup {None}]
  /\ confirmed \subseteq Desks
  /\ exec \in [Desks -> ExecState]
  /\ wrote \subseteq Runs \X Steps
  /\ wiped \subseteq Runs
  /\ unknown \subseteq SecretKinds

(* A forced change of the PIN is gone when the holder has made it.         *)
Delivered(i, k) == IsOn(Kind(i), k) \/ (Kind(i) = "forceChange" /\ k.fido = "holder")

(* A Completed run is a key that has everything the procedure requires:    *)
(* each required step is Done, and its effect is on the key unless the     *)
(* key was reset after the run began.                                      *)
CompletedIsApplied ==
  \A r \in Runs : row[r] # None /\ row[r].status = "Completed" =>
    \A i \in Steps : Required(i) =>
      row[r].steps[i] = "Done" /\ (Delivered(i, key) \/ r \in wiped)

(* Rule 2: whatever a step did to the key, the register shows that the     *)
(* step was reached, crashes between any two calls included.               *)
WriteIsAhead ==
  \A r \in Runs, i \in Steps : <<r, i>> \in wrote => row[r] # None /\ row[r].steps[i] # "Pending"

(* Rules 3 and 7 together: no step is attempted, and none again, once a    *)
(* required step of the same drive has failed, or any step, required or    *)
(* optional, has found the key gone.                                       *)
FailureStops ==
  \A d \in Desks : At(d, "attempt") =>
    /\ \A j \in Steps : j < exec[d].i /\ Required(j) => exec[d].steps[j] # "Failed"
    /\ ~IsFatal(exec[d].result)

(* Rule 7: a step gives the card at most one wrong PIN, whatever its       *)
(* budget of attempts: three lock the applet.                              *)
OneWrongGuess == \A d \in Desks : exec[d].guesses <= 1

(* A secret on the key that nobody has been shown is in the hands of an    *)
(* executor that is still running, and will be shown when it ends.         *)
SecretsAreShown == \A s \in unknown : \E d \in Desks : s \in exec[d].purse.made

(* The record follows the trail: a step is Done, and a run closed by hand, *)
(* only with the entry that says so already written.  (The executor's last *)
(* row is written before the entry that the run has finished.)             *)
RecordIsAudited ==
  \A r \in Runs : row[r] # None =>
    /\ \A i \in Steps : row[r].steps[i] = "Done" => <<r, i, "Done">> \in trail
    /\ row[r].status = "Aborted" => <<r, 0, "abandoned">> \in trail

(* Rule 4: a secret the holder chose is never replaced, by a second run    *)
(* whose pre-flight is stale, or by a resume that comes to a PIN step again.*)
HolderPinStands ==
  [][/\ key.pin = "holder" => key'.pin = "holder" \/ key' = Cleared("piv")
     /\ key.fido = "holder" => key'.fido = "holder" \/ key' = Cleared("fido2")]_vars

(* The key pair a certificate is awaited for is not generated over: a      *)
(* second run on the same key finds no PIN to generate with.               *)
RequestStands ==
  [][\A r \in Runs : row[r] # None /\ AwaitsCertificate(row[r]) /\ request[r] = "current"
       => request'[r] = "current" \/ key' = Cleared("piv")]_vars

(* A step that is Done stays Done, through every interruption and resume.  *)
DoneStands ==
  [][\A r \in Runs, i \in Steps : row[r] # None /\ row[r].steps[i] = "Done"
       => row'[r].steps[i] = "Done"]_vars

(* Every drive of a run, with the run rows it leaves, is one the register  *)
(* promises (RunRecord): forward only, Completed with everything required, *)
(* closed for good.                                                        *)
Promise == INSTANCE RunRecord WITH Needed <- {i \in Steps : Required(i)}
KeepsTheRecord == Promise!Spec

(* Every run that was entered ends: retries are bounded.                   *)
RunsEnd == \A d \in Desks : Drives(d) ~> ~Drives(d)

-----------------------------------------------------------------------------
(* What the repository says of a run and the code does not keep.           *)

(* A step is recorded as skipped only when nothing was written.            *)
SkippedWroteNothing ==
  \A r \in Runs, i \in Steps :
    row[r] # None /\ row[r].steps[i] = "Skipped" => <<r, i>> \notin wrote

(* A run that completed is never made into something else.                 *)
CompletedIsFinal ==
  [][\A r \in Runs : row[r] # None /\ row[r].status = "Completed" => row'[r].status = "Completed"]_vars

(* Closing a run by hand leaves its steps in the state they reached.       *)
AbandonKeepsSteps ==
  [][\A r \in Runs : row[r] # None /\ row[r].status # "Aborted" /\ row'[r].status = "Aborted"
       => row'[r].steps = row[r].steps]_vars

(* An unfinished run that was picked up can be finished from there.        *)
PickedUpCanFinish ==
  \A d \in Desks : exec[d] = Idle /\ held[d] # None /\ Resumable(held[d].row)
    => AwaitsCertificate(held[d].row)

(* Completed means every required step's effect is on the key.             *)
CompletedIsOnTheKey ==
  \A d \in Desks : At(d, "sign") /\ exec[d].status = "Completed" =>
    \A i \in Steps : Required(i) => IsOn(Kind(i), key)
=============================================================================
