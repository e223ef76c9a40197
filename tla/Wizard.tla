-------------------------------- MODULE Wizard --------------------------------
(* The bootstrap wizard of one workstation (app.rs, ui/bootstrap.rs): what  *)
(* is selected, the plan made of it, what the pre-flight found, the run on  *)
(* the screen and the secrets it left there.  The selection stays live in   *)
(* every stage; the lists it points into are read again behind it.          *)
EXTENDS FiniteSets, Naturals, Sequences, SequencesExt

CONSTANTS WzSerials, WzHolders,
          Versions,   \* a version of a procedure -> its steps: [kind, required, on]
          Offering,   \* the successive lists of versions on offer
          WzRuns, WzTries \* bounds: runs started, executions of one

VARIABLES wz,      \* the wizard: see NoWz
          people,  \* the holders as read, in order
          offer,   \* which of the successive offers was read
          ledger,  \* the runs: key, holder, version, steps, whether open, what was written for it where
          used,    \* keys that have been through a procedure
          slips,   \* sealed slips saved: the run they name, the run whose secrets they carry
          shown    \* secret.shown entries: whose secrets they say are gone

wzVars == <<wz, people, offer, ledger, used, slips, shown>>

NoPlan == [version |-> "none", kinds |-> <<>>, holder |-> "none"]
NoFindings == [of |-> "none", blocked |-> FALSE]
NothingShown == [run |-> 0, try |-> 0]   \* the secrets an execution made, while they are shown
NoWz == [serial |-> "none", holder |-> 1, template |-> 1, pinned |-> "none", ticks |-> <<>>,
         plan |-> NoPlan, findings |-> NoFindings, stage |-> "selecting", run |-> 0,
         secrets |-> NothingShown]

WzInit ==
  /\ wz = NoWz /\ offer = 1
  /\ people \in {s \in [1..(Cardinality(WzHolders) - 1) -> WzHolders] : IsInjective(s)}
  /\ ledger = {} /\ used = {} /\ slips = {} /\ shown = {}

Elsewhere == UNCHANGED <<people, offer, ledger, used, slips, shown>>
WzIs(w) == wz' = w

SelectedVersion == IF wz.pinned # "none" THEN wz.pinned ELSE Offering[offer][wz.template]
WzSteps == Versions[SelectedVersion]
WzHolder == people[wz.holder]
RunOf(n) == CHOOSE r \in ledger : r.n = n

(* What other workstations stored is read: a holder more, which may sort    *)
(* first, and a newer version in the list.                                  *)
HoldersRead(h) ==
  /\ h \notin ToSet(people)
  /\ people' \in {<<h>> \o people, Append(people, h)}
  /\ UNCHANGED <<wz, offer, ledger, used, slips, shown>>
OffersRead ==
  /\ offer < Len(Offering) /\ offer' = offer + 1
  /\ UNCHANGED <<wz, people, ledger, used, slips, shown>>

(* The selection card, drawn in every stage: typed, detected, or chosen of  *)
(* the attached ones.                                                       *)
SetSerial(k) == k # wz.serial /\ WzIs([wz EXCEPT !.serial = k]) /\ Elsewhere
SetHolder(i) == WzIs([wz EXCEPT !.holder = i]) /\ Elsewhere
SetTemplate(i) ==
  /\ i # wz.template
  /\ WzIs([wz EXCEPT !.template = i, !.ticks = <<>>, !.plan = NoPlan]) /\ Elsewhere

(* The ticks are seeded from the version when there are not as many as it   *)
(* has steps; a required step cannot be unticked.                           *)
Ticks == IF Len(wz.ticks) = Len(WzSteps) THEN wz.ticks ELSE [i \in DOMAIN WzSteps |-> WzSteps[i].on]
TickStep(i) ==
  /\ ~WzSteps[i].required
  /\ WzIs([wz EXCEPT !.ticks = [Ticks EXCEPT ![i] = ~@]]) /\ Elsewhere

(* Mutant: the order is what the editor checked when the version was saved. *)
Plannable_AsSaved(kinds) == kinds # <<>>

(* validate, over the steps that are on.                                    *)
NeedsPin(kind) == kind \in {"pin", "cred"}
KeepsPinUsable(kinds) == \A i, j \in DOMAIN kinds : i < j /\ kinds[i] = "force" => ~NeedsPin(kinds[j])
Plannable(kinds) == kinds # <<>> /\ KeepsPinUsable(kinds)

PlanOf(version, ticks) ==
  LET steps == Versions[version]
      on == SelectSeq([i \in DOMAIN steps |-> i], LAMBDA i : ticks[i])
  IN [version |-> version, kinds |-> [k \in DOMAIN on |-> steps[on[k]].kind], holder |-> WzHolder]
CanPlan == wz.serial # "none" /\ wz.holder \in DOMAIN people
BuildsPlan ==
  /\ LET plan == IF CanPlan THEN PlanOf(SelectedVersion, Ticks) ELSE NoPlan
     IN WzIs([wz EXCEPT !.ticks = Ticks, !.plan = IF Plannable(plan.kinds) THEN plan ELSE NoPlan])
  /\ Elsewhere

RecordRun(r) == ledger' = ledger \cup {r}
NewRun(left, wrote) ==
  [n |-> Cardinality(ledger) + 1, key |-> wz.serial, holder |-> WzHolder, version |-> SelectedVersion,
   kinds |-> wz.plan.kinds, left |-> left, aborted |-> FALSE, try |-> Cardinality(wrote), wrote |-> wrote]
Made(r) == {NothingShown, [run |-> r.n, try |-> r.try]}

(* record_dry_run: the plan is evidence of intent; the run is closed.       *)
WzDryRun ==
  /\ wz.plan # NoPlan /\ Cardinality(ledger) < WzRuns
  /\ RecordRun(NewRun(FALSE, {})) /\ UNCHANGED <<wz, people, offer, used, slips, shown>>

(* "Execute on key..." reads the key and opens the confirmation, whatever   *)
(* it finds.                                                                *)
WzPreflight ==
  /\ wz.plan # NoPlan
  /\ WzIs([wz EXCEPT !.findings = [of |-> wz.serial, blocked |-> wz.serial \in used],
                     !.stage = "confirming"])
  /\ Elsewhere
CancelConfirmation ==
  /\ wz.stage = "confirming"
  /\ WzIs([wz EXCEPT !.stage = "selecting", !.findings = NoFindings]) /\ Elsewhere

(* The confirmation names the serial and the number of steps there are when *)
(* it is drawn, and so does the request.  The run is finished, or left open *)
(* for its certificate; or the register refuses half-way, and the run stays *)
(* open in it with the one before still on the screen; or nothing of it     *)
(* could be recorded.                                                       *)
MayWrite == wz.stage = "confirming" /\ ~wz.findings.blocked /\ wz.plan # NoPlan
Write ==
  /\ MayWrite /\ Cardinality(ledger) < WzRuns
  /\ \E left \in BOOLEAN :
       LET r == NewRun(left, {<<wz.serial, wz.plan.holder>>})
       IN /\ RecordRun(r)
          /\ \E panel \in Made(r), n \in {r.n} \cup (IF left THEN {wz.run} ELSE {}) :
               WzIs([wz EXCEPT !.stage = "running", !.run = n, !.secrets = panel])
  /\ used' = used \cup {wz.serial}
  /\ UNCHANGED <<people, offer, slips, shown>>
WriteFails ==
  /\ MayWrite
  /\ WzIs([wz EXCEPT !.stage = "running", !.secrets = NothingShown]) /\ Elsewhere

(* adopt_run: its version is pinned, its steps are ticked, its holder is    *)
(* looked for; when the plan does not line up with the run, the selection   *)
(* stays and nothing is taken up.                                           *)
PlaceOf(h) == IF h \in ToSet(people) THEN CHOOSE i \in DOMAIN people : people[i] = h ELSE wz.holder
StepSelection(r) == [i \in DOMAIN Versions[r.version] |-> Versions[r.version][i].kind \in ToSet(r.kinds)]
Unfinished == {r \in ledger : r.left /\ ~r.aborted}
Adopts(r) ==
  LET plan == [PlanOf(r.version, StepSelection(r)) EXCEPT !.holder = people[PlaceOf(r.holder)]]
      built == [wz EXCEPT !.serial = r.key, !.holder = PlaceOf(r.holder), !.ticks = StepSelection(r),
                          !.plan = IF Plannable(plan.kinds) THEN plan ELSE NoPlan]
  IN /\ wz.stage = "selecting"
     /\ WzIs(IF Len(built.plan.kinds) = Len(r.kinds)
             THEN [built EXCEPT !.pinned = r.version, !.stage = "running", !.run = r.n]
             ELSE [built EXCEPT !.pinned = "none"])
     /\ Elsewhere

(* resume_run goes on with the run as it is on the screen: the same version *)
(* selected, as many steps, the key that is in the serial field.            *)
MayGoOn == wz.stage = "running" /\ wz.run # 0 /\ RunOf(wz.run).left /\ wz.serial # "none"
Resumes ==
  /\ MayGoOn
  /\ LET r == RunOf(wz.run) IN
       /\ SelectedVersion = r.version /\ Len(wz.plan.kinds) = Len(r.kinds)
       /\ r.try < WzTries
       /\ \E left \in BOOLEAN :
            LET now == [r EXCEPT !.left = left, !.try = @ + 1,
                                 !.wrote = @ \cup {<<wz.serial, wz.plan.holder>>}]
            IN /\ ledger' = (ledger \ {r}) \cup {now}
               /\ \E panel \in Made(now) : WzIs([wz EXCEPT !.secrets = panel])
  /\ used' = used \cup {wz.serial}
  /\ UNCHANGED <<people, offer, slips, shown>>

(* Mutants: an emptied panel is kept; a run that is closed stays on screen. *)
Dismissed_Kept(w) == w
Closed_StaysOnScreen(r) == wz

(* dismiss_secrets says whose they were by the serial field; what was shown *)
(* is gone.                                                                 *)
Dismissed(w) == [w EXCEPT !.secrets = NothingShown]
Says == IF wz.secrets = NothingShown THEN shown ELSE shown \cup {<<wz.secrets, wz.serial>>}
HasSecrets == wz.stage = "running" /\ wz.secrets # NothingShown
Dismiss ==
  /\ HasSecrets
  /\ WzIs(Dismissed(wz)) /\ shown' = Says
  /\ UNCHANGED <<people, offer, ledger, used, slips>>

AfterReset(w) == [Dismissed(w) EXCEPT !.stage = "selecting", !.findings = NoFindings, !.run = 0,
                                      !.plan = NoPlan, !.pinned = "none"]
StartsAnother ==
  /\ wz.stage = "running"
  /\ WzIs(AfterReset(wz)) /\ shown' = Says
  /\ UNCHANGED <<people, offer, ledger, used, slips>>

(* abandon_run: the run is closed, and leaves the screen if it was on it.   *)
Closed(r) == IF wz.run = r.n THEN AfterReset(wz) ELSE wz
Abandons(r) ==
  /\ wz.stage = "selecting"
  /\ ledger' = (ledger \ {r}) \cup {[r EXCEPT !.aborted = TRUE]}
  /\ WzIs(Closed(r)) /\ shown' = IF wz.run = r.n THEN Says ELSE shown
  /\ UNCHANGED <<people, offer, used, slips>>

(* write_transport_slip: from the run on the screen and the panel.          *)
SaveSlip ==
  /\ HasSecrets /\ wz.run # 0
  /\ slips' = slips \cup {[run |-> wz.run, carries |-> wz.secrets]}
  /\ UNCHANGED <<wz, people, offer, ledger, used, shown>>

WzNext ==
  \/ \E h \in WzHolders : HoldersRead(h)
  \/ OffersRead
  \/ \E k \in WzSerials : SetSerial(k)
  \/ \E i \in DOMAIN people : SetHolder(i)
  \/ \E i \in DOMAIN Offering[offer] : SetTemplate(i)
  \/ \E i \in DOMAIN WzSteps : TickStep(i)
  \/ BuildsPlan \/ WzDryRun \/ WzPreflight \/ CancelConfirmation
  \/ Write \/ WriteFails
  \/ \E r \in Unfinished : Adopts(r) \/ Abandons(r)
  \/ Resumes \/ Dismiss \/ StartsAnother \/ SaveSlip

WzSpec == WzInit /\ [][WzNext]_wzVars
-----------------------------------------------------------------------------
(* However the steps are ticked and whatever list they were ticked against, *)
(* no plan uses the FIDO2 PIN after the step that makes the key refuse it   *)
(* (validate, BootstrapTemplate).                                           *)
PlanIsUsable == KeepsPinUsable(wz.plan.kinds)

(* What the trail says is gone is on no slip saved after it, and a run that *)
(* was closed is not written for again (abandon_run).                       *)
ShownIsGone == \A s \in slips' \ slips : \A said \in shown : said[1] # s.carries
ClosedIsClosed == \A r \in ledger : r.aborted => r \in ledger'
WizardKeepsItsWord == [][ShownIsGone /\ ClosedIsClosed]_wzVars

(* A run is the record of what was applied to that key (features/secrets-   *)
(* custody.md), and so is the slip that travels with it.                    *)
RunStaysOnItsKey == \A r \in ledger : \A w \in r.wrote : w[1] = r.key
SlipIsOfItsRun == \A s \in slips : s.carries.run = s.run

(* What is written was planned for the holder the run names, with every     *)
(* required step of the version it names (ui/bootstrap.rs: "the operator    *)
(* cannot deselect it"); entries name the key whose secrets were shown.     *)
PlannedForItsHolder == \A r \in ledger : \A w \in r.wrote : w[2] = r.holder
RequiredArePlanned == \A i \in DOMAIN Versions[wz.plan.version] :
  Versions[wz.plan.version][i].required => Versions[wz.plan.version][i].kind \in ToSet(wz.plan.kinds)
ShownNamesItsKey == \A said \in shown : said[2] = RunOf(said[1].run).key

(* A configured key is refused a fresh run (docs/operations.md).            *)
CheckedIsWritten == [][\A r \in ledger' \ ledger : r.n > Cardinality(ledger) /\ r.wrote # {}
                         => r.key \notin used]_wzVars
=============================================================================
