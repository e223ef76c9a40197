------------------------------- MODULE Templates -------------------------------
(* The versioned procedures (store/mod.rs, template/, app.rs): written,     *)
(* shared as files, signed by whoever a workstation trusts, and run from    *)
(* the wizard, which keeps the plan it built until it is built again.       *)
EXTENDS FiniteSets, FiniteSetsExt, Integers

CONSTANTS TplDesks, Procs,
          Standard,   \* the procedure this build ships
          Reshaped,   \* procedures with steps of their own; the others share theirs
          Files,      \* what other units export: [id, body, sig]
          LastVersion, Applied   \* bounds: versions of an id, runs

ASSUME TemplatesAssumption == /\ Standard \in Procs \ Reshaped /\ Reshaped \subseteq Procs
                              /\ {LastVersion, Applied} \subseteq Nat

VARIABLES catalogue, \* the rows of templates
          applied,   \* the runs on record: the version each names, what it did
          known,     \* the catalogue as each workstation read it
          job,       \* the statement a handler still has to execute
          trusts,    \* settings: the key material under the one key id, and
          strict,    \*   whether only verified procedures run
          wizard     \* what is selected, what it is pinned to, the plan, the run

tplVars == <<catalogue, applied, known, job, trusts, strict, wizard>>

Ids == {1, 2}        \* in the order of their names
Builtin == 2
Nobody == "nobody"
NoSig == [by |-> Nobody, over |-> Nobody]
NoRow == [id |-> 0, version |-> 0, body |-> Nobody, sig |-> NoSig, retired |-> FALSE]
NoJob == [kind |-> "none", row |-> NoRow]
NoWizard == [index |-> 1, pinned |-> NoRow, plan |-> Nobody, run |-> 0]
Seeded == [NoRow EXCEPT !.id = Builtin, !.version = 1, !.body = Standard]

Is(row, of) == row.id = of.id /\ row.version = of.version
Holds(rows, of) == \E row \in rows : Is(row, of)
TheRow(rows, of) == CHOOSE row \in rows : Is(row, of)
IsBuiltin(row) == Is(row, Seeded)
Runs(row) == {r \in applied : Is(r, row)}
Alike(a, b) == a = b \/ {a, b} \cap Reshaped = {}

TplInit ==
  /\ catalogue = {Seeded} /\ applied = {}
  /\ known = [d \in TplDesks |-> catalogue]
  /\ job = [d \in TplDesks |-> NoJob]
  /\ trusts = [d \in TplDesks |-> Nobody] /\ strict = [d \in TplDesks |-> FALSE]
  /\ wizard = [d \in TplDesks |-> NoWizard]

Sits(d) == job[d] = NoJob
Reread(d, rows) == known' = [known EXCEPT ![d] = rows]
Keeps == UNCHANGED <<trusts, strict, applied>>

(* verify: signed, by the material trusted under that id, over these bytes. *)
Covers(t) == t.sig.over = t.body
Verified(d, t) == t.sig # NoSig /\ t.sig.by = trusts[d] /\ Covers(t)
Permitted(d, t) == Verified(d, t) \/ ~strict[d]

(* What the wizard offers: the newest version of each that is not retired,  *)
(* in the order of their names.                                             *)
Live(d) == {r \in known[d] : ~r.retired}
Offers(d) == {r \in Live(d) : \A other \in Live(d) : other.id = r.id => other.version <= r.version}
Place(d, row) == Cardinality({r.id : r \in {o \in Offers(d) : o.id <= row.id}})
SelectedTemplate(d) ==
  IF wizard[d].pinned # NoRow THEN wizard[d].pinned
  ELSE IF \E row \in Offers(d) : Place(d, row) = wizard[d].index
       THEN CHOOSE row \in Offers(d) : Place(d, row) = wizard[d].index ELSE NoRow

(* What the editor can hold when it is saved: a version of the list and     *)
(* what was made of it, a copy under an id of its own, or a blank one typed *)
(* in.  The signature is that of the version it came from.                  *)
Loaded(d) == {[id |-> row.id, body |-> b, sig |-> row.sig] : row \in known[d], b \in Procs}
Duplicates(d) == {[id |-> id, body |-> b, sig |-> row.sig] :
                    row \in known[d], b \in Procs, id \in Ids \ {r.id : r \in known[d]}}
Blanks == {[id |-> id, body |-> b, sig |-> NoSig] : id \in Ids, b \in Procs}
Drafts(d) == Loaded(d) \cup Duplicates(d) \cup Blanks

(* Mutants: the signature of what was loaded stays on what is saved; the    *)
(* next version is counted, not read off the highest.                       *)
ToTemplate_KeepsSignature(dr) == dr
NextVersion_Counts(id) == 1 + Cardinality({r \in catalogue : r.id = id})

(* A draft is a new procedure: no signature covers it.                      *)
ToTemplate(dr) == [dr EXCEPT !.sig = NoSig]

(* next_version, over every version of the id, retired ones too.            *)
NextVersion(id) == 1 + Max({0} \cup {r.version : r \in {c \in catalogue : c.id = id}})
AsNext(t) == [id |-> t.id, version |-> NextVersion(t.id), body |-> t.body, sig |-> t.sig,
              retired |-> FALSE]
Numbers(d, t) == /\ NextVersion(t.id) <= LastVersion
                 /\ job' = [job EXCEPT ![d] = [kind |-> "put", row |-> AsNext(t)]]

(* save_template_version reads the versions, then writes the row.           *)
SaveTemplate(d) == \E dr \in Drafts(d) :
  /\ Sits(d) /\ Numbers(d, ToTemplate(dr))
  /\ UNCHANGED <<catalogue, known, wizard>> /\ Keeps

(* A file is read and shown; stored, it gets a version of this register,    *)
(* unless the same procedure with the same signature is here already.       *)
FileOf(row) == [id |-> row.id, body |-> row.body, sig |-> row.sig]
AlreadyPresent(f) == f \in {FileOf(row) : row \in catalogue}
ImportTemplate(d) == \E f \in Files :
  /\ Sits(d)
  /\ \/ ~AlreadyPresent(f) /\ Numbers(d, f) /\ UNCHANGED known
     \/ AlreadyPresent(f) /\ Reread(d, catalogue) /\ UNCHANGED job
  /\ UNCHANGED <<catalogue, wizard>> /\ Keeps

(* upsert_template: a row of that version is overwritten, but stays retired.*)
PutTemplate(d) ==
  /\ job[d].kind = "put"
  /\ LET row == job[d].row
         old == {r \in catalogue : Is(r, row)}
         rows == (catalogue \ old) \cup {[row EXCEPT !.retired = \E r \in old : r.retired]}
     IN /\ catalogue' = rows /\ Reread(d, rows)
  /\ job' = [job EXCEPT ![d] = NoJob]
  /\ UNCHANGED wizard /\ Keeps

Withdrawable(d) == {listed \in known[d] : ~listed.retired}
SetRetired(d, retired) == \E listed \in known[d] :
  /\ Sits(d) /\ Holds(catalogue, listed) /\ (listed \in Withdrawable(d)) = retired
  /\ LET rows == {IF Is(r, listed) THEN [r EXCEPT !.retired = retired] ELSE r : r \in catalogue}
     IN catalogue' = rows /\ Reread(d, rows)
  /\ UNCHANGED <<job, wizard>> /\ Keeps
RetireTemplate(d) == SetRetired(d, TRUE)
ReinstateTemplate(d) == SetRetired(d, FALSE)

(* Mutants: what the runs say is not asked; what the build ships is not.    *)
Removable_Unasked(row) == ~IsBuiltin(row)
Removable_Shipped(row) == Runs(row) = {}

(* removal_refusal, then the DELETE.                                        *)
Removable(row) == Runs(row) = {} /\ ~IsBuiltin(row)
AsksRemoval(d) == known[d]
DeleteTemplate(d) == \E listed \in AsksRemoval(d) :
  /\ Sits(d) /\ Holds(catalogue, listed) /\ Removable(listed)
  /\ job' = [job EXCEPT ![d] = [kind |-> "delete", row |-> listed]]
  /\ UNCHANGED <<catalogue, known, wizard>> /\ Keeps
DeleteRow(d) ==
  /\ job[d].kind = "delete"
  /\ LET rows == {r \in catalogue : ~Is(r, job[d].row)}
     IN catalogue' = rows /\ Reread(d, rows)
  /\ job' = [job EXCEPT ![d] = NoJob]
  /\ UNCHANGED wizard /\ Keeps

(* The statement fails, or the program ends: opened again, it seeds what it *)
(* ships where that version is absent, and has nothing of the old screens.  *)
StatementFails(d) ==
  /\ ~Sits(d)
  /\ job' = [job EXCEPT ![d] = NoJob]
  /\ UNCHANGED <<catalogue, known, wizard>> /\ Keeps

Reopen(d) ==
  /\ LET rows == IF Holds(catalogue, Seeded) THEN catalogue ELSE catalogue \cup {Seeded}
     IN catalogue' = rows /\ Reread(d, rows)
  /\ job' = [job EXCEPT ![d] = NoJob] /\ wizard' = [wizard EXCEPT ![d] = NoWizard]
  /\ Keeps

RefreshTemplates(d) ==
  /\ Sits(d) /\ known[d] # catalogue /\ Reread(d, catalogue)
  /\ UNCHANGED <<catalogue, job, wizard>> /\ Keeps

(* Settings of one workstation.                                             *)
AddTemplateKey(d, material) ==
  /\ Sits(d) /\ trusts' = [trusts EXCEPT ![d] = material]
  /\ UNCHANGED <<catalogue, applied, known, job, strict, wizard>>
RequireSigned(d) ==
  /\ Sits(d) /\ strict' = [strict EXCEPT ![d] = ~@]
  /\ UNCHANGED <<catalogue, applied, known, job, trusts, wizard>>

-----------------------------------------------------------------------------
(* The wizard.  Another choice clears the plan; a list read again does not. *)
Bench(d, w) == /\ Sits(d) /\ wizard' = [wizard EXCEPT ![d] = w]
                /\ UNCHANGED <<catalogue, job, trusts, strict>>

SelectTemplate(d) == \E row \in Offers(d) :
  /\ wizard[d].run = 0 /\ Place(d, row) # wizard[d].index
  /\ Bench(d, [wizard[d] EXCEPT !.index = Place(d, row), !.plan = Nobody])
  /\ UNCHANGED <<known, applied>>

BuildPlan(d) ==
  /\ wizard[d].run = 0 /\ SelectedTemplate(d) # NoRow
  /\ wizard[d].plan # SelectedTemplate(d).body
  /\ Bench(d, [wizard[d] EXCEPT !.plan = SelectedTemplate(d).body])
  /\ UNCHANGED <<known, applied>>

(* drive_run: the selection of now, the plan of then.  A step the selected  *)
(* version does not have ends the run before it is performed.               *)
ExecuteRun(d) ==
  /\ wizard[d].run = 0 /\ wizard[d].plan # Nobody /\ Cardinality(applied) < Applied
  /\ LET t == SelectedTemplate(d)  n == 1 + Cardinality(applied) IN
       /\ t # NoRow /\ Permitted(d, t)
       /\ \E open \in BOOLEAN :
            applied' = applied \cup {[n |-> n, id |-> t.id, version |-> t.version, open |-> open,
                        strict |-> strict[d],
                        did |-> IF Alike(wizard[d].plan, t.body) THEN {wizard[d].plan} ELSE {}]}
       /\ Bench(d, [wizard[d] EXCEPT !.run = n])
  /\ Reread(d, catalogue)

(* The version a run records is pinned, and the plan built from it.         *)
AdoptRun(d) == \E r \in applied, row \in known[d] :
  /\ r.open /\ Is(row, r) /\ r.did # {} /\ \A b \in r.did : Alike(b, row.body)
  /\ Bench(d, [wizard[d] EXCEPT !.pinned = row, !.plan = row.body, !.run = r.n])
  /\ UNCHANGED <<known, applied>>

ResumeRun(d) == \E r \in applied :
  /\ r.n = wizard[d].run /\ r.open /\ Is(SelectedTemplate(d), r)
  /\ \A b \in r.did : Alike(b, wizard[d].plan)
  /\ Permitted(d, SelectedTemplate(d))
  /\ \E open \in BOOLEAN :
       applied' = (applied \ {r}) \cup
                  {[r EXCEPT !.open = open, !.did = @ \cup {wizard[d].plan}]}
  /\ Bench(d, wizard[d]) /\ Reread(d, catalogue)

ResetWizard(d) ==
  /\ wizard[d].run # 0
  /\ Bench(d, [NoWizard EXCEPT !.index = wizard[d].index])
  /\ UNCHANGED <<known, applied>>

TplNext == \E d \in TplDesks :
  \/ SaveTemplate(d) \/ ImportTemplate(d) \/ PutTemplate(d)
  \/ RetireTemplate(d) \/ ReinstateTemplate(d) \/ DeleteTemplate(d) \/ DeleteRow(d)
  \/ StatementFails(d) \/ Reopen(d) \/ RefreshTemplates(d)
  \/ \E material \in {f.sig.by : f \in Files} \cup {Nobody} : AddTemplateKey(d, material)
  \/ RequireSigned(d)
  \/ SelectTemplate(d) \/ BuildPlan(d) \/ ExecuteRun(d) \/ AdoptRun(d) \/ ResumeRun(d)
  \/ ResetWizard(d)

TplSpec == TplInit /\ [][TplNext]_tplVars
-----------------------------------------------------------------------------
(* What a run says it applied is on record (delete_template), however often *)
(* versions were retired, deleted and numbered again.                       *)
RunHasItsVersion == \A r \in applied : Holds(catalogue, r)

(* A version some run names is what it was when the run named it:           *)
(* save_template_version numbers, it never rewrites.                        *)
RunsKeepTheirText == [][\A r \in applied : \A tpl \in catalogue :
    Is(tpl, r) => \E now \in catalogue' : Is(now, r) /\ now.body = tpl.body
                                                     /\ now.sig = tpl.sig]_tplVars

(* Editing, duplicating and importing never put a signature on bytes it     *)
(* does not cover: nothing here makes a procedure look tampered with.       *)
SignaturesCover == \A row \in catalogue : row.sig # NoSig => Covers(row)

(* Where signatures are required, a run's version on record is signed, and  *)
(* the signature covers what is on record.                                  *)
StrictRunsAreSigned == \A r \in applied : r.strict => \A row \in catalogue :
  Is(row, r) => row.sig # NoSig /\ Covers(row)

(* What this build ships stays on record under its version, so that opening *)
(* the register never puts back, live, what an operator withdrew.           *)
ShippedStays == Holds(catalogue, Seeded) /\ TheRow(catalogue, Seeded).body = Standard

(* A run's procedure stays on record and the signatures on record cover what *)
(* they stand on, however versions are edited, imported, withdrawn, deleted  *)
(* and numbered again (store/mod.rs, template/signing.rs).                   *)
ProceduresAreOnRecord ==
  /\ RunHasItsVersion /\ SignaturesCover /\ StrictRunsAreSigned /\ ShippedStays

(* What Confirmation's comment says (bootstrap/mod.rs): a confirmation from *)
(* before the template changed does not authorise the new one.  So the run  *)
(* that is recorded did what its version says.                              *)
RecordedIsRun == \A r \in applied : \A row \in catalogue : Is(row, r) => r.did \subseteq {row.body}
=============================================================================
