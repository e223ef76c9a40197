------------------------------ MODULE MCOffice -------------------------------
(* What the work leaves on paper: procedures and their versions, terms and   *)
(* receipts, a box of keys worked through, a key's row and its cases.  The   *)
(* modules have no variable in common, so a run explores them side by side:  *)
(* a scene is chosen and the others stand.                                   *)
EXTENDS Templates, Paperwork, Batch, Casework

VARIABLE scene

officeVars == <<tplVars, paperVars, batchVars, caseVars, scene>>

(* A signed file of another unit; a list of a holder without a key and a    *)
(* key with a holder.                                                       *)
Imported == {[id |-> 1, body |-> "a", sig |-> [by |-> "m", over |-> "a"]]}
Pairs == {<<[serial |-> "none", holder |-> "a"], [serial |-> "k1", holder |-> "b"]>>}
FailedWrites == [stock |-> 0, assigned |-> 1]
FailedAppends == [stock |-> 1, assigned |-> 0]

OfficeInit ==
  /\ scene \in {"templates", "papers", "batch", "rows", "panel"}
  /\ TplInit /\ PaperInit /\ BatchInit /\ CaseInit

(* The procedure the build ships has one version; the other is not retired. *)
ProcedureMoves ==
  /\ scene = "templates" /\ TplNext
  /\ \A r \in catalogue' : IF r.id = Builtin THEN r.version = 1 ELSE ~r.retired

(* On the lifecycle panel one of the two keys, and one row saved.           *)
CaseMoves ==
  \/ scene = "rows" /\ (RowsNext \/ MovesNext)
  \/ /\ scene = "panel" /\ (PanelNext \/ RunsNext \/ MovesNext)
     /\ \A d \in CwDesks : clerk'[d].panel.key # "k2"
     /\ edits' <= 1

OfficeNext ==
  /\ UNCHANGED scene
  /\ \/ ProcedureMoves /\ UNCHANGED <<paperVars, batchVars, caseVars>>
     \/ scene = "papers" /\ PaperNext /\ UNCHANGED <<tplVars, batchVars, caseVars>>
     \/ scene = "batch" /\ BatchNext /\ UNCHANGED <<tplVars, paperVars, caseVars>>
     \/ CaseMoves /\ UNCHANGED <<tplVars, paperVars, batchVars>>

OfficeSpec == OfficeInit /\ [][OfficeNext]_officeVars

-----------------------------------------------------------------------------
(* What is said of papers and of a box of keys is so: one alarm for an       *)
(* overdue term, an entry of a term generated only for what was written, a   *)
(* key in one position, terms for keys that were done (receipt.rs, batch/).  *)
PapersAreTrue == OverdueOnce /\ EntriesAreTrue /\ BoxIsTrue

(* What is written down is not unwritten: the text of a version a run names, *)
(* what was handed over for signature, a position's outcome, a note nobody   *)
(* had read, a case that is answered (store/mod.rs).                         *)
RecordsStand == RunsKeepTheirText /\ PapersStand /\ BoxStands /\ CasesStand
=============================================================================
