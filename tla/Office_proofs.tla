----------------------------- MODULE Office_proofs -----------------------------
(* What the work leaves on paper: procedures, terms and receipts, a box of  *)
(* keys, rows and cases.  Proved for each module by itself, and then of all *)
(* four at once.                                                            *)
EXTENDS MCOffice, FiniteSetTheorems, WellFoundedInduction, TLAPS

(***************************************************************************)
(* Procedures (Templates).  What retires a version leaves the rest of its   *)
(* row; so rows are compared without that.                                  *)
(***************************************************************************)

Text(tpl) == [id |-> tpl.id, version |-> tpl.version, body |-> tpl.body, sig |-> tpl.sig]
IsRow(x) ==
  /\ {"id", "version", "body", "sig"} \subseteq DOMAIN x
  /\ x.id \in Ids /\ x.version \in 1..(LastVersion + 1)
Signed(x) == x.sig # NoSig => x.sig.over = x.body

(* What other units export is signed over what it says; a file that is not  *)
(* is stored as it came.                                                    *)
Genuine == \A f \in Files : f.id \in Ids /\ Signed(f)

(* For any number of workstations: what is on record and what is about to   *)
(* be, signatures cover; and what the build ships is never in the way.      *)
RowsOK == \A x \in catalogue : IsRow(x) /\ Signed(x) /\ (IsBuiltin(x) => x.body = Standard)
JobsOK ==
  \A d \in TplDesks :
    /\ job[d].kind = "put" => /\ IsRow(job[d].row) /\ Signed(job[d].row)
                              /\ ~IsBuiltin(job[d].row)
    /\ job[d].kind = "delete" => ~IsBuiltin(job[d].row)
ListsOK == \A d \in TplDesks : \A x \in known[d] : x.id \in Ids
Desktops == job = [d \in TplDesks |-> job[d]] /\ known = [d \in TplDesks |-> known[d]]
ShelfInv == Desktops /\ RowsOK /\ JobsOK /\ ListsOK /\ Holds(catalogue, Seeded)

(* For one workstation: it knows the catalogue, and what it is about to     *)
(* write is new, to delete named by no run.                                 *)
OneTplDesk == \A d, e \in TplDesks : d = e
Knows == \A d \in TplDesks : known[d] = catalogue
Fresh == \A d \in TplDesks :
  /\ job[d].kind = "put" => ~Holds(catalogue, job[d].row)
  /\ job[d].kind = "delete" => Runs(job[d].row) = {}
Unique == \A x, y \in catalogue : Is(x, y) => Text(x) = Text(y)
RunsOK ==
  /\ IsFiniteSet(applied)
  /\ \A r \in applied : /\ {"n", "id", "version", "strict"} \subseteq DOMAIN r
                        /\ r.n \in Nat \ {0}
WizardsOK ==
  /\ wizard = [d \in TplDesks |-> wizard[d]]
  /\ \A d \in TplDesks : /\ {"pinned", "run"} \subseteq DOMAIN wizard[d]
                         /\ wizard[d].pinned # NoRow => wizard[d].run # 0
ProcInv == ShelfInv /\ Knows /\ Fresh /\ Unique /\ RunsOK /\ WizardsOK
           /\ RunHasItsVersion /\ StrictRunsAreSigned

(***************************************************************************)
(* Lemmas.                                                                  *)
(***************************************************************************)

LEMMA TplBounds == LastVersion \in Nat /\ Ids \subseteq Nat /\ Builtin \in Ids
  BY TemplatesAssumption DEF Ids, Builtin

LEMMA LargestNumber ==
  ASSUME NEW n \in Nat, NEW S, S \subseteq 0..n, S # {}
  PROVE  Max(S) \in S /\ \A x \in S : x <= Max(S)
<1> DEFINE T == {n - x : x \in S}
<1>1. T \subseteq Nat /\ T # {}
  <2>1. \A x \in S : n - x \in Nat
    OBVIOUS
  <2> QED BY <2>1
<1>2. \E x \in T : \A y \in T : <<y, x>> \notin OpToRel(<, Nat)
  BY <1>1, NatLessThanWellFounded, WFMin
<1>3. PICK m \in S : \A y \in S : y <= m
  <2>1. PICK u \in T : \A y \in T : <<y, u>> \notin OpToRel(<, Nat)
    BY <1>2
  <2>2. \A y \in T : ~(y < u)
    BY <1>1, <2>1 DEF OpToRel
  <2>3. PICK m \in S : u = n - m
    OBVIOUS
  <2>4. \A y \in S : ~(n - y < n - m)
    BY <2>2, <2>3
  <2>5. \A y \in S : y \in 0..n
    OBVIOUS
  <2> QED BY <2>4, <2>5
<1>4. \E x \in S : \A y \in S : x >= y
  BY <1>3
<1> QED BY <1>4 DEF Max

LEMMA SeededIs == /\ Seeded.id = Builtin /\ Seeded.version = 1 /\ Seeded.body = Standard
                  /\ Seeded.sig = NoSig /\ IsRow(Seeded)
<1>1. /\ Seeded.id = Builtin /\ Seeded.version = 1 /\ Seeded.body = Standard
      /\ Seeded.sig = NoSig
  BY DEF Seeded, NoRow
<1>2. {"id", "version", "body", "sig"} \subseteq DOMAIN Seeded
  BY DEF Seeded, NoRow
<1>3. Seeded.id \in Ids /\ Seeded.version \in 1..(LastVersion + 1)
  BY <1>1, TplBounds
<1>4. IsRow(Seeded)
  BY <1>2, <1>3, Zenon DEF IsRow
<1> QED BY <1>1, <1>4

(* next_version is past every version of the id.                            *)
LEMMA NextIsNew ==
  ASSUME RowsOK, NEW id
  PROVE /\ NextVersion(id) \in Nat \ {0}
        /\ \A x \in catalogue : x.id = id => x.version < NextVersion(id)
<1> DEFINE S == {0} \cup {r.version : r \in {c \in catalogue : c.id = id}}
<1>1. S \subseteq 0..(LastVersion + 1) /\ S # {}
  BY TplBounds DEF RowsOK, IsRow
<1>2. Max(S) \in S /\ \A x \in S : x <= Max(S)
  <2>1. LastVersion + 1 \in Nat
    BY TplBounds
  <2> HIDE DEF S
  <2> QED BY <1>1, <2>1, LargestNumber
<1>3. NextVersion(id) = 1 + Max(S)
  BY DEF NextVersion
<1>4. Max(S) \in Nat
  BY <1>1, <1>2
<1>5. \A x \in catalogue : x.id = id => x.version \in S
  OBVIOUS
<1> HIDE DEF S
<1>6. \A v \in S : v \in Nat
  BY <1>1
<1> QED BY <1>2, <1>3, <1>4, <1>5, <1>6

LEMMA NextIsARow ==
  ASSUME RowsOK, Holds(catalogue, Seeded), NEW t, t.id \in Ids, Signed(t),
         NextVersion(t.id) <= LastVersion
  PROVE /\ IsRow(AsNext(t)) /\ Signed(AsNext(t)) /\ ~IsBuiltin(AsNext(t))
        /\ ~Holds(catalogue, AsNext(t))
<1>1. /\ AsNext(t).id = t.id /\ AsNext(t).version = NextVersion(t.id)
      /\ AsNext(t).body = t.body /\ AsNext(t).sig = t.sig
  BY DEF AsNext
<1>2. IsRow(AsNext(t)) /\ Signed(AsNext(t))
  BY <1>1, NextIsNew, TplBounds DEF AsNext, IsRow, Signed
<1>3. ~Holds(catalogue, AsNext(t))
  BY <1>1, NextIsNew DEF Holds, Is, RowsOK, IsRow
<1>4. ~IsBuiltin(AsNext(t))
  BY <1>3 DEF IsBuiltin, Is, Holds
<1> QED BY <1>2, <1>3, <1>4

(***************************************************************************)
(* What a step does to the catalogue.                                       *)
(***************************************************************************)

(* Row by row the same but for what is retired.                             *)
SameRows(new, old) == /\ \A x \in new : \E y \in old : Text(x) = Text(y) /\ (IsRow(y) => IsRow(x))
                      /\ \A y \in old : \E x \in new : Text(x) = Text(y)

(* A step leaves the catalogue, takes up a statement, or executes one.      *)
JobIs(d, kind, tpl) == job' = [job EXCEPT ![d] = [kind |-> kind, row |-> tpl]]
NoneIsLeft(d) == job' = [job EXCEPT ![d] = NoJob]
NowKnows(d) == known' = [known EXCEPT ![d] = catalogue']
Rests(d) == /\ catalogue' = catalogue /\ (known' = known \/ NowKnows(d))
            /\ job' = job \/ NoneIsLeft(d)
Plans(d) == /\ UNCHANGED <<catalogue, known, applied, wizard>> /\ Sits(d)
            /\ \/ \E tpl : /\ JobIs(d, "put", tpl)
                           /\ IsRow(tpl) /\ Signed(tpl) /\ ~IsBuiltin(tpl) /\ ~Holds(catalogue, tpl)
               \/ \E tpl : JobIs(d, "delete", tpl) /\ ~IsBuiltin(tpl) /\ Runs(tpl) = {}
Retires(d) == /\ SameRows(catalogue', catalogue) /\ NowKnows(d)
              /\ UNCHANGED <<job, applied, wizard>>
Without(tpl) == {r \in catalogue : ~Is(r, tpl)}
Stacks(d) == /\ job[d].kind = "put" /\ NowKnows(d) /\ NoneIsLeft(d)
             /\ \E new : /\ Text(new) = Text(job[d].row) /\ IsRow(new)
                         /\ catalogue' = Without(job[d].row) \cup {new}
             /\ UNCHANGED <<applied, wizard>>
Deletes(d) == /\ job[d].kind = "delete" /\ NowKnows(d) /\ NoneIsLeft(d)
              /\ catalogue' = Without(job[d].row) /\ UNCHANGED <<applied, wizard>>

LEMMA TextTells ==
  ASSUME NEW x, NEW y
  PROVE Text(x) = Text(y) <=> /\ x.id = y.id /\ x.version = y.version
                              /\ x.body = y.body /\ x.sig = y.sig
<1>1. Text(x) = Text(y) => /\ Text(x).id = Text(y).id /\ Text(x).version = Text(y).version
                           /\ Text(x).body = Text(y).body /\ Text(x).sig = Text(y).sig
  OBVIOUS
<1> QED BY <1>1 DEF Text

LEMMA SaveShape ==
  ASSUME ShelfInv, Genuine, NEW d \in TplDesks, SaveTemplate(d) \/ ImportTemplate(d)
  PROVE Rests(d) \/ Plans(d)
<1> USE DEF ShelfInv
<1>1. ASSUME NEW t, t.id \in Ids, Signed(t), Numbers(d, t), Sits(d),
             UNCHANGED <<catalogue, known, applied, wizard>>
      PROVE Plans(d)
  <2>1. JobIs(d, "put", AsNext(t)) /\ NextVersion(t.id) <= LastVersion
    BY <1>1 DEF Numbers, JobIs
  <2> QED BY <1>1, <2>1, NextIsARow DEF Plans
<1>2. ASSUME SaveTemplate(d) PROVE Plans(d)
  <2>1. PICK dr \in Drafts(d) : Sits(d) /\ Numbers(d, ToTemplate(dr))
    BY <1>2 DEF SaveTemplate
  <2>2. dr.id \in Ids /\ {"id", "sig"} \subseteq DOMAIN dr
    BY <2>1 DEF Drafts, Loaded, Duplicates, Blanks, ListsOK
  <2>3. ToTemplate(dr).id \in Ids /\ Signed(ToTemplate(dr))
    BY <2>2 DEF ToTemplate, Signed
  <2> QED BY <1>1, <1>2, <2>1, <2>3 DEF SaveTemplate, Keeps
<1>3. ASSUME ImportTemplate(d) PROVE Rests(d) \/ Plans(d)
  <2>1. PICK f \in Files : \/ Numbers(d, f) /\ UNCHANGED known
                           \/ Reread(d, catalogue) /\ UNCHANGED job
    BY <1>3 DEF ImportTemplate
  <2>2. Sits(d) /\ UNCHANGED <<catalogue, applied, wizard>>
    BY <1>3 DEF ImportTemplate, Keeps
  <2>3. CASE Numbers(d, f) /\ UNCHANGED known
    BY <1>1, <2>2, <2>3 DEF Genuine
  <2>4. CASE Reread(d, catalogue) /\ UNCHANGED job
    BY <2>2, <2>4 DEF Rests, Reread, NowKnows
  <2> QED BY <2>1, <2>3, <2>4
<1> QED BY <1>2, <1>3

LEMMA PutShape ==
  ASSUME ShelfInv, NEW d \in TplDesks, PutTemplate(d)
  PROVE Stacks(d)
<1> DEFINE tpl == job[d].row
           old == {r \in catalogue : Is(r, tpl)}
           gone == \E r \in old : r.retired
           new == [tpl EXCEPT !.retired = gone]
<1>1. /\ job[d].kind = "put" /\ catalogue' = (catalogue \ old) \cup {new}
      /\ known' = [known EXCEPT ![d] = catalogue'] /\ NoneIsLeft(d) /\ UNCHANGED <<applied, wizard>>
  BY Zenon DEF PutTemplate, Keeps, Reread, NoneIsLeft
<1>2. catalogue \ old = Without(tpl)
  BY DEF Without
<1>3. IsRow(tpl)
  BY <1>1 DEF ShelfInv, JobsOK
<1> HIDE DEF gone
<1>4. /\ new.id = tpl.id /\ new.version = tpl.version /\ new.body = tpl.body /\ new.sig = tpl.sig
      /\ DOMAIN new = DOMAIN tpl
  BY <1>3 DEF IsRow
<1>5. Text(new) = Text(tpl) /\ IsRow(new)
  BY <1>3, <1>4, TextTells DEF IsRow
<1> HIDE DEF new, tpl
<1>6. tpl = job[d].row
  BY DEF tpl
<1> QED BY <1>1, <1>2, <1>5, <1>6 DEF Stacks, NowKnows

LEMMA RetireShape ==
  ASSUME ShelfInv, NEW d \in TplDesks, RetireTemplate(d) \/ ReinstateTemplate(d)
  PROVE Retires(d)
<1>1. ASSUME NEW out, SetRetired(d, out) PROVE Retires(d)
  <2>1. PICK picked \in known[d] :
          /\ catalogue' = {IF Is(r, picked) THEN [r EXCEPT !.retired = out] ELSE r : r \in catalogue}
          /\ known' = [known EXCEPT ![d] = catalogue']
          /\ UNCHANGED <<job, applied, wizard>>
    BY <1>1, Zenon DEF SetRetired, Reread, Keeps
  <2> DEFINE Now(r) == IF Is(r, picked) THEN [r EXCEPT !.retired = out] ELSE r
  <2>2. ASSUME NEW r \in catalogue PROVE Text(Now(r)) = Text(r) /\ IsRow(Now(r))
    <3>1. IsRow(r)
      BY DEF ShelfInv, RowsOK
    <3>2. /\ Now(r).id = r.id /\ Now(r).version = r.version /\ Now(r).body = r.body
          /\ Now(r).sig = r.sig /\ DOMAIN Now(r) = DOMAIN r
      BY <3>1 DEF IsRow
    <3> QED BY <3>1, <3>2, TextTells DEF IsRow
  <2>3. SameRows(catalogue', catalogue)
    BY <2>1, <2>2, Zenon DEF SameRows
  <2> QED BY <2>1, <2>3 DEF Retires, NowKnows
<1> QED BY <1>1 DEF RetireTemplate, ReinstateTemplate

LEMMA DeleteShape ==
  ASSUME ShelfInv, NEW d \in TplDesks, DeleteTemplate(d) \/ DeleteRow(d)
  PROVE Plans(d) \/ Deletes(d)
<1>1. ASSUME DeleteTemplate(d) PROVE Plans(d)
  BY <1>1 DEF DeleteTemplate, Plans, JobIs, Removable, Keeps
<1>2. ASSUME DeleteRow(d) PROVE Deletes(d)
  BY <1>2 DEF DeleteRow, Deletes, NowKnows, NoneIsLeft, Reread, Keeps, Without
<1> QED BY <1>1, <1>2

LEMMA RestShape ==
  ASSUME ShelfInv, NEW d \in TplDesks,
         \/ StatementFails(d) \/ Reopen(d) \/ RefreshTemplates(d) \/ RequireSigned(d)
         \/ \E material : AddTemplateKey(d, material)
         \/ SelectTemplate(d) \/ BuildPlan(d) \/ ExecuteRun(d) \/ AdoptRun(d) \/ ResumeRun(d)
         \/ ResetWizard(d)
  PROVE Rests(d)
<1>1. CASE StatementFails(d) \/ Reopen(d) \/ RefreshTemplates(d)
  BY <1>1 DEF ShelfInv, StatementFails, Reopen, RefreshTemplates, Rests, Reread, NowKnows,
      NoneIsLeft
<1>2. CASE RequireSigned(d) \/ \E material : AddTemplateKey(d, material)
  BY <1>2 DEF RequireSigned, AddTemplateKey, Rests
<1>3. CASE \/ SelectTemplate(d) \/ BuildPlan(d) \/ ExecuteRun(d) \/ AdoptRun(d) \/ ResumeRun(d)
           \/ ResetWizard(d)
  <2>1. UNCHANGED <<catalogue, job>> /\ (known' = known \/ Reread(d, catalogue))
    BY <1>3 DEF SelectTemplate, BuildPlan, ExecuteRun, AdoptRun, ResumeRun, ResetWizard, Bench
  <2> QED BY <2>1 DEF Rests, Reread, NowKnows
<1> QED BY <1>1, <1>2, <1>3

LEMMA TplShape ==
  ASSUME ShelfInv, Genuine, TplNext
  PROVE \E d \in TplDesks : Rests(d) \/ Plans(d) \/ Retires(d) \/ Stacks(d) \/ Deletes(d)
BY SaveShape, PutShape, RetireShape, DeleteShape, RestShape, Zenon DEF TplNext

(* What a shape leaves in the jobs and lists of the others.                 *)
LEMMA OthersStand ==
  ASSUME Desktops, NEW d \in TplDesks,
         Rests(d) \/ Plans(d) \/ Retires(d) \/ Stacks(d) \/ Deletes(d)
  PROVE /\ Desktops'
        /\ \A e \in TplDesks : /\ job'[e] = job[e] \/ job'[e] = NoJob \/ (e = d /\ Plans(d))
                               /\ known'[e] = known[e] \/ known'[e] = catalogue'
        /\ known'[d] = catalogue' \/ (known' = known /\ catalogue' = catalogue)
<1>1. /\ \/ job' = job \/ NoneIsLeft(d)
         \/ Plans(d) /\ \E tpl : JobIs(d, "put", tpl) \/ JobIs(d, "delete", tpl)
      /\ known' = known \/ NowKnows(d)
  BY DEF Rests, Plans, Retires, Stacks, Deletes
<1>2. known' = known => catalogue' = catalogue \/ NowKnows(d)
  BY DEF Rests, Plans, Retires, Stacks, Deletes
<1>3. Desktops' /\ (NowKnows(d) => known'[d] = catalogue')
  BY <1>1 DEF Desktops, NoneIsLeft, JobIs, NowKnows
<1>4. \A e \in TplDesks : job'[e] = job[e] \/ job'[e] = NoJob \/ (e = d /\ Plans(d))
  BY <1>1 DEF Desktops, NoneIsLeft, JobIs
<1>5. \A e \in TplDesks : known'[e] = known[e] \/ known'[e] = catalogue'
  BY <1>1 DEF Desktops, NowKnows
<1> QED BY <1>1, <1>2, <1>3, <1>4, <1>5

LEMMA PlannedJob ==
  ASSUME Desktops, NEW d \in TplDesks, Plans(d)
  PROVE /\ job'[d].kind \in {"put", "delete"} /\ ~IsBuiltin(job'[d].row)
        /\ job'[d].kind = "put" => /\ IsRow(job'[d].row) /\ Signed(job'[d].row)
                                   /\ ~Holds(catalogue, job'[d].row)
        /\ job'[d].kind = "delete" => Runs(job'[d].row) = {}
<1>1. ASSUME NEW kind, NEW tpl, JobIs(d, kind, tpl)
      PROVE job'[d].kind = kind /\ job'[d].row = tpl
  BY <1>1 DEF JobIs, Desktops
<1> QED BY <1>1 DEF Plans

LEMMA ShelfKeeps ==
  ASSUME ShelfInv, Genuine, [TplNext]_tplVars
  PROVE ShelfInv'
<1>1. CASE UNCHANGED tplVars
  BY <1>1 DEF tplVars, ShelfInv, Desktops, RowsOK, JobsOK, ListsOK, Holds
<1>2. ASSUME NEW d \in TplDesks,
             Rests(d) \/ Plans(d) \/ Retires(d) \/ Stacks(d) \/ Deletes(d)
      PROVE ShelfInv'
  <2> USE DEF ShelfInv
  <2>1. RowsOK' /\ Holds(catalogue', Seeded)
    <3>1. CASE catalogue' = catalogue
      BY <3>1 DEF RowsOK
    <3>2. CASE Retires(d)
      <4>1. SameRows(catalogue', catalogue)
        BY <3>2 DEF Retires
      <4>2. ASSUME NEW x \in catalogue'
            PROVE IsRow(x) /\ Signed(x) /\ (IsBuiltin(x) => x.body = Standard)
        <5>1. PICK y \in catalogue : Text(x) = Text(y) /\ (IsRow(y) => IsRow(x))
          BY <4>1 DEF SameRows
        <5> QED BY <5>1, TextTells DEF RowsOK, Signed, IsBuiltin, Is
      <4>3. Holds(catalogue', Seeded)
        BY <4>1, TextTells DEF SameRows, Holds, Is
      <4> QED BY <4>2, <4>3 DEF RowsOK
    <3>3. CASE Stacks(d)
      <4>1. PICK new : /\ Text(new) = Text(job[d].row) /\ IsRow(new)
                       /\ catalogue' = Without(job[d].row) \cup {new}
        BY <3>3 DEF Stacks
      <4>2. IsRow(job[d].row) /\ Signed(job[d].row) /\ ~IsBuiltin(job[d].row)
        BY <3>3 DEF JobsOK, Stacks
      <4>3. Signed(new) /\ ~IsBuiltin(new)
        BY <4>1, <4>2, TextTells DEF Signed, IsBuiltin, Is
      <4>4. Holds(catalogue', Seeded)
        BY <4>1, <4>2 DEF Holds, Without, IsBuiltin, Is
      <4> QED BY <4>1, <4>3, <4>4 DEF RowsOK, Without
    <3>4. CASE Deletes(d)
      <4>1. catalogue' = Without(job[d].row) /\ ~IsBuiltin(job[d].row)
        BY <3>4 DEF JobsOK, Deletes
      <4> QED BY <4>1 DEF RowsOK, Without, Holds, IsBuiltin, Is
    <3> QED BY <1>2, <3>1, <3>2, <3>3, <3>4 DEF Rests, Plans
  <2>2. Desktops'
    BY <1>2, OthersStand
  <2>3. JobsOK'
    <3> SUFFICES ASSUME NEW e \in TplDesks
                 PROVE /\ job'[e].kind = "put" => /\ IsRow(job'[e].row) /\ Signed(job'[e].row)
                                                  /\ ~IsBuiltin(job'[e].row)
                       /\ job'[e].kind = "delete" => ~IsBuiltin(job'[e].row)
      BY DEF JobsOK
    <3>1. job'[e] = job[e] \/ job'[e] = NoJob \/ (e = d /\ Plans(d))
      BY <1>2, OthersStand
    <3>2. CASE job'[e] = job[e]
      BY <3>2 DEF JobsOK
    <3>3. CASE job'[e] = NoJob
      BY <3>3 DEF NoJob
    <3>4. CASE e = d /\ Plans(d)
      BY <3>4, PlannedJob
    <3> QED BY <3>1, <3>2, <3>3, <3>4
  <2>4. ListsOK'
    BY <1>2, <2>1, OthersStand DEF ListsOK, RowsOK, IsRow
  <2> QED BY <2>1, <2>2, <2>3, <2>4
<1> QED BY <1>1, <1>2, TplShape

LEMMA ShelfBegins == ASSUME TplInit PROVE ShelfInv
<1>1. catalogue = {Seeded} /\ \A d \in TplDesks : known[d] = catalogue /\ job[d] = NoJob
  BY DEF TplInit
<1>2. RowsOK
  BY <1>1, SeededIs DEF RowsOK, Signed
<1>3. Holds(catalogue, Seeded)
  BY <1>1 DEF Holds, Is
<1>4. JobsOK /\ ListsOK
  BY <1>1, <1>2 DEF JobsOK, ListsOK, NoJob, RowsOK, IsRow
<1> QED BY <1>2, <1>3, <1>4 DEF ShelfInv, Desktops, TplInit

(* Whatever a workstation does to the catalogue another is at work on, a    *)
(* signature on record covers what it stands on, if what was imported did,  *)
(* and what the build ships is on record under its version (store/mod.rs,   *)
(* template/signing.rs).                                                    *)
THEOREM ShelfStands ==
  ASSUME Genuine
  PROVE  TplSpec => [](SignaturesCover /\ ShippedStays)
<1>1. TplInit => ShelfInv
  BY ShelfBegins
<1>2. ShelfInv /\ [TplNext]_tplVars => ShelfInv'
  BY ShelfKeeps
<1>3. ShelfInv => SignaturesCover /\ ShippedStays
  BY DEF ShelfInv, RowsOK, Signed, SignaturesCover, Covers, ShippedStays, Holds, TheRow, IsBuiltin
<1> QED BY <1>1, <1>2, <1>3, PTL DEF TplSpec

(***************************************************************************)
(* One workstation.                                                         *)
(***************************************************************************)

(* A run that is begun names a version on record, one that is gone on with  *)
(* the version it named; the wizard has nothing pinned without a run.       *)
Same(r, old) == r.id = old.id /\ r.version = old.version /\ r.strict = old.strict
Begins(d, t) ==
  /\ t \in known[d] /\ Permitted(d, t)
  /\ \E r : /\ r.id = t.id /\ r.version = t.version /\ r.strict = strict[d]
            /\ applied' = applied \cup {r}
GoesOn == \A r \in applied' : \E old \in applied : Same(r, old)

LEMMA Selected ==
  ASSUME NEW d \in TplDesks, wizard[d].pinned = NoRow, SelectedTemplate(d) # NoRow
  PROVE SelectedTemplate(d) \in known[d]
<1>1. \E tpl \in Offers(d) : Place(d, tpl) = wizard[d].index
  BY DEF SelectedTemplate
<1>2. SelectedTemplate(d) = CHOOSE tpl \in Offers(d) : Place(d, tpl) = wizard[d].index
  BY <1>1 DEF SelectedTemplate
<1>3. SelectedTemplate(d) \in Offers(d)
  BY <1>1, <1>2
<1> QED BY <1>3 DEF Offers, Live

LEMMA ExecuteShape ==
  ASSUME RunsOK, WizardsOK, NEW d \in TplDesks, ExecuteRun(d)
  PROVE RunsOK' /\ WizardsOK' /\ \E t : Begins(d, t)
<1> DEFINE t == SelectedTemplate(d)
           n == 1 + Cardinality(applied)
           did == IF Alike(wizard[d].plan, t.body) THEN {wizard[d].plan} ELSE {}
           Run(open) == [n |-> n, id |-> t.id, version |-> t.version, open |-> open,
                         strict |-> strict[d], did |-> did]
<1>1. /\ wizard[d].run = 0 /\ t # NoRow /\ Permitted(d, t)
      /\ wizard' = [wizard EXCEPT ![d] = [wizard[d] EXCEPT !.run = n]]
      /\ \E open \in BOOLEAN : applied' = applied \cup {Run(open)}
  BY Zenon DEF ExecuteRun, Bench
<1> HIDE DEF did
<1>2. n \in Nat \ {0}
  BY FS_CardinalityType DEF RunsOK
<1>3. PICK open \in BOOLEAN : applied' = applied \cup {Run(open)}
  BY <1>1
<1>4. /\ {"n", "id", "version", "strict"} \subseteq DOMAIN Run(open) /\ Run(open).n = n
      /\ Run(open).id = t.id /\ Run(open).version = t.version /\ Run(open).strict = strict[d]
  OBVIOUS
<1>5. t \in known[d]
  BY <1>1, Selected DEF WizardsOK
<1> HIDE DEF Run, n, t
<1>6. RunsOK'
  <2>1. IsFiniteSet(applied')
    BY <1>3, FS_AddElement DEF RunsOK
  <2> QED BY <1>2, <1>3, <1>4, <2>1 DEF RunsOK
<1>7. WizardsOK'
  BY <1>1, <1>2 DEF WizardsOK
<1> QED BY <1>1, <1>3, <1>4, <1>5, <1>6, <1>7 DEF Begins

LEMMA WizardShape ==
  ASSUME RunsOK, WizardsOK, NEW d \in TplDesks,
         SelectTemplate(d) \/ BuildPlan(d) \/ AdoptRun(d) \/ ResumeRun(d) \/ ResetWizard(d) \/ Reopen(d)
  PROVE RunsOK' /\ WizardsOK' /\ GoesOn
<1>1. CASE SelectTemplate(d) \/ BuildPlan(d) \/ ResetWizard(d) \/ Reopen(d)
  <2>1. applied' = applied
    BY <1>1 DEF SelectTemplate, BuildPlan, ResetWizard, Reopen, Keeps
  <2>2. WizardsOK'
    <3>1. CASE SelectTemplate(d) \/ BuildPlan(d)
      BY <3>1 DEF SelectTemplate, BuildPlan, Bench, WizardsOK
    <3>2. CASE ResetWizard(d) \/ Reopen(d)
      BY <3>2 DEF ResetWizard, Reopen, Bench, WizardsOK, NoWizard
    <3> QED BY <1>1, <3>1, <3>2
  <2> QED BY <2>1, <2>2 DEF RunsOK, GoesOn, Same
<1>2. CASE AdoptRun(d)
  <2>1. PICK r \in applied, tpl \in known[d] :
          wizard' = [wizard EXCEPT ![d] = [wizard[d] EXCEPT !.pinned = tpl, !.plan = tpl.body,
                                                            !.run = r.n]]
    BY <1>2 DEF AdoptRun, Bench
  <2>2. r.n # 0 /\ applied' = applied
    BY <1>2 DEF RunsOK, AdoptRun
  <2>3. WizardsOK'
    BY <2>1, <2>2 DEF WizardsOK
  <2> QED BY <2>2, <2>3 DEF RunsOK, GoesOn, Same
<1>3. CASE ResumeRun(d)
  <2>1. PICK r \in applied : \E open \in BOOLEAN :
          applied' = (applied \ {r}) \cup {[r EXCEPT !.open = open, !.did = @ \cup {wizard[d].plan}]}
    BY <1>3, Zenon DEF ResumeRun
  <2>2. PICK open \in BOOLEAN :
          applied' = (applied \ {r}) \cup {[r EXCEPT !.open = open, !.did = @ \cup {wizard[d].plan}]}
    BY <2>1
  <2> DEFINE now == [r EXCEPT !.open = open, !.did = @ \cup {wizard[d].plan}]
  <2>3. /\ Same(now, r) /\ now.n = r.n /\ {"n", "id", "version", "strict"} \subseteq DOMAIN now
    <3>1. \A o, e : /\ Same([r EXCEPT !.open = o, !.did = e], r)
                    /\ [r EXCEPT !.open = o, !.did = e].n = r.n
                    /\ {"n", "id", "version", "strict"} \subseteq DOMAIN [r EXCEPT !.open = o, !.did = e]
      BY DEF RunsOK, Same
    <3> QED BY <3>1
  <2> HIDE DEF now
  <2>4. applied' = (applied \ {r}) \cup {now}
    BY <2>2 DEF now
  <2>5. IsFiniteSet(applied')
    BY <2>4, FS_AddElement, FS_RemoveElement DEF RunsOK
  <2>6. RunsOK'
    BY <2>3, <2>4, <2>5 DEF RunsOK
  <2>7. GoesOn
    BY <2>3, <2>4 DEF GoesOn, Same
  <2>8. WizardsOK'
    BY <1>3 DEF ResumeRun, Bench, WizardsOK
  <2> QED BY <2>6, <2>7, <2>8
<1> QED BY <1>1, <1>2, <1>3

LEMMA StepShape ==
  ASSUME ShelfInv, Genuine, RunsOK, WizardsOK, TplNext
  PROVE \E d \in TplDesks :
          /\ RunsOK' /\ WizardsOK'
          /\ \/ GoesOn /\ (Rests(d) \/ Plans(d) \/ Retires(d) \/ Stacks(d) \/ Deletes(d))
             \/ Rests(d) /\ Sits(d) /\ \E t : Begins(d, t)
<1>1. PICK d \in TplDesks :
        \/ SaveTemplate(d) \/ ImportTemplate(d) \/ PutTemplate(d)
        \/ RetireTemplate(d) \/ ReinstateTemplate(d) \/ DeleteTemplate(d) \/ DeleteRow(d)
        \/ StatementFails(d) \/ RefreshTemplates(d)
        \/ (\E material : AddTemplateKey(d, material)) \/ RequireSigned(d)
        \/ SelectTemplate(d) \/ BuildPlan(d) \/ AdoptRun(d) \/ ResumeRun(d) \/ ResetWizard(d)
        \/ Reopen(d) \/ ExecuteRun(d)
  BY DEF TplNext
<1>2. CASE UNCHANGED <<applied, wizard>>
           /\ (Rests(d) \/ Plans(d) \/ Retires(d) \/ Stacks(d) \/ Deletes(d))
  BY <1>2 DEF RunsOK, WizardsOK, GoesOn, Same
<1>3. CASE SaveTemplate(d) \/ ImportTemplate(d) \/ PutTemplate(d)
  <2>1. UNCHANGED <<applied, wizard>>
    BY <1>3 DEF SaveTemplate, ImportTemplate, PutTemplate, Keeps
  <2> QED BY <1>2, <1>3, <2>1, SaveShape, PutShape
<1>4. CASE RetireTemplate(d) \/ ReinstateTemplate(d) \/ DeleteTemplate(d) \/ DeleteRow(d)
  <2>1. UNCHANGED <<applied, wizard>>
    BY <1>4, Zenon DEF RetireTemplate, ReinstateTemplate, SetRetired, DeleteTemplate, DeleteRow,
        Keeps
  <2> QED BY <1>2, <1>4, <2>1, RetireShape, DeleteShape
<1>5. CASE \/ StatementFails(d) \/ RefreshTemplates(d) \/ RequireSigned(d)
           \/ \E material : AddTemplateKey(d, material)
  <2>1. UNCHANGED <<applied, wizard>>
    BY <1>5 DEF StatementFails, RefreshTemplates, AddTemplateKey, RequireSigned, Keeps
  <2> QED BY <1>2, <1>5, <2>1, RestShape
<1>6. CASE \/ SelectTemplate(d) \/ BuildPlan(d) \/ AdoptRun(d) \/ ResumeRun(d) \/ ResetWizard(d)
           \/ Reopen(d)
  BY <1>6, WizardShape, RestShape
<1>7. CASE ExecuteRun(d)
  <2>1. Sits(d)
    BY <1>7 DEF ExecuteRun, Bench
  <2> QED BY <1>7, <2>1, ExecuteShape, RestShape
<1> QED BY <1>1, <1>3, <1>4, <1>5, <1>6, <1>7

(* The catalogue then: one row of a version, a row that was not there is of *)
(* a version that was not, and what some run names keeps its text.          *)
LEMMA RowsMove ==
  ASSUME ShelfInv, Fresh, Unique, NEW d \in TplDesks,
         Rests(d) \/ Plans(d) \/ Retires(d) \/ Stacks(d) \/ Deletes(d)
  PROVE /\ Unique'
        /\ \A x \in catalogue' : (\E y \in catalogue : Text(x) = Text(y)) \/ ~Holds(catalogue, x)
        /\ \A y \in catalogue : Runs(y) # {} => \E x \in catalogue' : Text(x) = Text(y)
<1>1. CASE catalogue' = catalogue
  BY <1>1 DEF Unique
<1>2. CASE Retires(d)
  BY <1>2, TextTells DEF Retires, SameRows, Unique, Is
<1>3. CASE Stacks(d)
  <2>1. PICK new : /\ Text(new) = Text(job[d].row)
                   /\ catalogue' = Without(job[d].row) \cup {new}
    BY <1>3 DEF Stacks
  <2>2. ~Holds(catalogue, job[d].row)
    BY <1>3 DEF Fresh, Stacks
  <2>3. catalogue' = catalogue \cup {new}
    BY <2>1, <2>2 DEF Without, Holds
  <2>4. ~Holds(catalogue, new)
    BY <2>1, <2>2, TextTells DEF Holds, Is
  <2> QED BY <2>3, <2>4 DEF Unique, Holds, Is
<1>4. CASE Deletes(d)
  <2>1. catalogue' = Without(job[d].row) /\ Runs(job[d].row) = {}
    BY <1>4 DEF Fresh, Deletes
  <2>2. ASSUME NEW y \in catalogue, Runs(y) # {} PROVE y \in catalogue'
    BY <2>1, <2>2 DEF Without, Runs, Is
  <2> QED BY <2>1, <2>2 DEF Without, Unique
<1> QED BY <1>1, <1>2, <1>3, <1>4 DEF Rests, Plans

RunsKeep == \A r \in applied : \A tpl \in catalogue :
  Is(tpl, r) => \E now \in catalogue' : Is(now, r) /\ now.body = tpl.body /\ now.sig = tpl.sig

LEMMA ProcKeeps ==
  ASSUME ProcInv, Genuine, OneTplDesk, [TplNext]_tplVars
  PROVE ProcInv' /\ RunsKeep
<1> USE DEF ProcInv
<1>1. CASE UNCHANGED tplVars
  <2>1. ShelfInv'
    BY ShelfKeeps
  <2>2. Knows' /\ Fresh' /\ Unique' /\ RunsOK' /\ WizardsOK'
    BY <1>1 DEF tplVars, Knows, Fresh, Holds, Runs, Unique, RunsOK, WizardsOK
  <2>3. RunHasItsVersion' /\ StrictRunsAreSigned' /\ RunsKeep
    BY <1>1 DEF tplVars, RunHasItsVersion, StrictRunsAreSigned, RunsKeep
  <2> QED BY <2>1, <2>2, <2>3
<1>2. CASE TplNext
  <2>1. PICK d \in TplDesks :
          /\ RunsOK' /\ WizardsOK'
          /\ \/ GoesOn /\ (Rests(d) \/ Plans(d) \/ Retires(d) \/ Stacks(d) \/ Deletes(d))
             \/ Rests(d) /\ Sits(d) /\ \E t : Begins(d, t)
    BY <1>2, StepShape
  <2>2. ShelfInv'
    BY ShelfKeeps
  <2>3. /\ Unique'
        /\ \A x \in catalogue' : (\E y \in catalogue : Text(x) = Text(y)) \/ ~Holds(catalogue, x)
        /\ \A y \in catalogue : Runs(y) # {} => \E x \in catalogue' : Text(x) = Text(y)
    BY <2>1, RowsMove
  <2>4. TplDesks = {d}
    BY DEF OneTplDesk
  <2>5. Knows'
    BY <2>1, <2>4, OthersStand DEF Knows, ShelfInv
  <2>6. RunsKeep
    <3> SUFFICES ASSUME NEW r \in applied, NEW tpl \in catalogue, Is(tpl, r)
                 PROVE \E now \in catalogue' : Is(now, r) /\ now.body = tpl.body /\ now.sig = tpl.sig
      BY DEF RunsKeep
    <3>1. r \in Runs(tpl)
      BY DEF Runs, Is
    <3>2. PICK now \in catalogue' : Text(now) = Text(tpl)
      BY <2>3, <3>1
    <3> QED BY <3>2, TextTells DEF Is
  <2>7. CASE GoesOn /\ (Rests(d) \/ Plans(d) \/ Retires(d) \/ Stacks(d) \/ Deletes(d))
    <3>1. RunHasItsVersion'
      <4> SUFFICES ASSUME NEW r \in applied' PROVE Holds(catalogue', r)
        BY DEF RunHasItsVersion
      <4>1. PICK old \in applied : Same(r, old)
        BY <2>7 DEF GoesOn
      <4>2. PICK tpl \in catalogue : Is(tpl, old)
        BY DEF RunHasItsVersion, Holds
      <4> QED BY <2>6, <4>1, <4>2 DEF RunsKeep, Holds, Is, Same
    <3>2. StrictRunsAreSigned'
      <4> SUFFICES ASSUME NEW r \in applied', r.strict, NEW tpl \in catalogue', Is(tpl, r)
                   PROVE tpl.sig # NoSig /\ Covers(tpl)
        BY DEF StrictRunsAreSigned
      <4>1. PICK old \in applied : Same(r, old)
        BY <2>7 DEF GoesOn
      <4>2. old.strict
        BY <4>1, Zenon DEF Same
      <4>3. Holds(catalogue, tpl)
        BY <4>1 DEF RunHasItsVersion, Holds, Is, Same
      <4>4. PICK y \in catalogue : Text(tpl) = Text(y)
        BY <2>3, <4>3
      <4>5. tpl.sig = y.sig /\ Is(y, old)
        BY <4>1, <4>4, TextTells DEF Is, Same
      <4>6. y.sig # NoSig
        BY <4>2, <4>5, Zenon DEF StrictRunsAreSigned
      <4> QED BY <2>2, <4>5, <4>6 DEF ShelfInv, RowsOK, Signed, Covers
    <3>3. Fresh'
      <4>1. CASE Plans(d)
        <5>1. catalogue' = catalogue /\ applied' = applied
          BY <4>1 DEF Plans
        <5> QED BY <2>4, <4>1, <5>1, PlannedJob DEF Fresh, Holds, Runs, ShelfInv
      <4>2. CASE Retires(d)
        <5>1. \A tpl : ~Holds(catalogue, tpl) => ~Holds(catalogue', tpl)
          BY <4>2, TextTells DEF Retires, SameRows, Holds, Is
        <5>2. job' = job /\ applied' = applied
          BY <4>2 DEF Retires
        <5> QED BY <5>1, <5>2 DEF Fresh, Runs
      <4>3. CASE Rests(d) /\ job' = job
        <5>1. \A tpl : Runs(tpl) = {} => \A r \in applied' : ~Is(r, tpl)
          BY <2>7 DEF Runs, Is, GoesOn, Same
        <5>2. \A tpl : Runs(tpl) = {} => Runs(tpl)' = {}
          BY <5>1 DEF Runs
        <5> QED BY <4>3, <5>2 DEF Rests, Fresh, Holds
      <4>4. CASE NoneIsLeft(d)
        BY <2>4, <4>4 DEF NoneIsLeft, Fresh, NoJob, ShelfInv, Desktops
      <4> QED BY <2>7, <4>1, <4>2, <4>3, <4>4 DEF Rests, Stacks, Deletes
    <3> QED BY <2>1, <2>2, <2>3, <2>5, <2>6, <3>1, <3>2, <3>3
  <2>8. CASE Rests(d) /\ Sits(d) /\ \E t : Begins(d, t)
    <3>1. PICK t : Begins(d, t)
      BY <2>8
    <3>2. PICK r : /\ r.id = t.id /\ r.version = t.version /\ r.strict = strict[d]
                   /\ applied' = applied \cup {r}
      BY <3>1, Zenon DEF Begins
    <3>3. t \in catalogue /\ catalogue' = catalogue
      BY <2>8, <3>1 DEF Begins, Knows, Rests
    <3>4. RunHasItsVersion'
      BY <3>2, <3>3 DEF RunHasItsVersion, Holds, Is
    <3>5. StrictRunsAreSigned'
      <4> SUFFICES ASSUME NEW a \in applied', a.strict, NEW tpl \in catalogue', Is(tpl, a)
                   PROVE tpl.sig # NoSig
        BY <2>2 DEF StrictRunsAreSigned, ShelfInv, RowsOK, Signed, Covers
      <4>1. CASE a \in applied
        BY <3>3, <4>1, Zenon DEF StrictRunsAreSigned
      <4>2. CASE a = r
        <5>1. strict[d]
          BY <3>2, <4>2, Zenon
        <5>2. t.sig # NoSig
          BY <3>1, <5>1, Zenon DEF Begins, Permitted, Verified
        <5>3. tpl.id = t.id /\ tpl.version = t.version
          BY <3>2, <4>2 DEF Is
        <5>4. Text(tpl) = Text(t)
          BY <3>3, <5>3 DEF Unique, Is
        <5> QED BY <5>2, <5>4, TextTells
      <4> QED BY <3>2, <4>1, <4>2, Zenon
    <3>6. Fresh'
      <4>1. job'[d] = NoJob
        BY <2>8 DEF Rests, Sits, NoneIsLeft, ShelfInv, Desktops
      <4> QED BY <2>4, <4>1 DEF Fresh, NoJob
    <3> QED BY <2>1, <2>2, <2>3, <2>5, <2>6, <3>4, <3>5, <3>6
  <2> QED BY <2>1, <2>7, <2>8
<1> QED BY <1>1, <1>2

LEMMA ProcBegins == ASSUME TplInit PROVE ProcInv
<1>1. /\ catalogue = {Seeded} /\ applied = {}
      /\ \A d \in TplDesks : known[d] = catalogue /\ job[d] = NoJob
  BY DEF TplInit
<1>2. ShelfInv
  BY ShelfBegins
<1>3. Knows /\ Fresh /\ Unique
  BY <1>1 DEF Knows, Fresh, NoJob, Unique
<1>4. RunsOK /\ RunHasItsVersion /\ StrictRunsAreSigned
  BY <1>1, FS_EmptySet DEF RunsOK, RunHasItsVersion, StrictRunsAreSigned
<1>5. WizardsOK
  BY DEF TplInit, WizardsOK, NoWizard
<1> QED BY <1>2, <1>3, <1>4, <1>5 DEF ProcInv

(* On one workstation what a run says it applied is on record, its          *)
(* signature covers it where signatures were required, and what the build   *)
(* ships is not away to be put back (store/mod.rs: delete_template,         *)
(* save_template_version).                                                  *)
THEOREM ProceduresAreOnRecordAtOneDesk ==
  ASSUME Genuine, OneTplDesk
  PROVE  TplSpec => []ProceduresAreOnRecord
<1>1. TplInit => ProcInv
  BY ProcBegins
<1>2. ProcInv /\ [TplNext]_tplVars => ProcInv'
  BY ProcKeeps
<1>3. ProcInv => ProceduresAreOnRecord
  <2>1. ProcInv => SignaturesCover /\ ShippedStays
    BY DEF ProcInv, ShelfInv, RowsOK, Signed, SignaturesCover, Covers, ShippedStays, Holds, TheRow,
           IsBuiltin
  <2> QED BY <2>1, Zenon DEF ProcInv, ProceduresAreOnRecord
<1> QED BY <1>1, <1>2, <1>3, PTL DEF TplSpec

(* No step of a workstation that works alone changes what a version says    *)
(* that a run already named, nor takes it away.                             *)
THEOREM RunsKeepTheirTextAtOneDesk ==
  ASSUME Genuine, OneTplDesk
  PROVE  TplSpec => RunsKeepTheirText
<1>1. TplInit => ProcInv
  BY ProcBegins
<1>2. ProcInv /\ [TplNext]_tplVars => ProcInv'
  BY ProcKeeps
<1>3. ProcInv /\ [TplNext]_tplVars => RunsKeep
  BY ProcKeeps
<1>4. TplSpec => [][RunsKeep]_tplVars
  BY <1>1, <1>2, <1>3, PTL DEF TplSpec
<1> QED BY <1>4 DEF RunsKeep, RunsKeepTheirText
-----------------------------------------------------------------------------
(***************************************************************************)
(* Papers (Paperwork).  What a panel shows is what the trail says was       *)
(* generated last; so what is handed out is.                                *)
(***************************************************************************)

IsHandover(x) == {"days", "returned", "reference"} \subseteq DOMAIN x
FilesOK == /\ handover = [h \in Handovers |-> handover[h]]
           /\ papers = [h \in Handovers |-> papers[h]]
           /\ \A h \in Handovers : IsHandover(handover[h])
PanelsOK ==
  /\ termPanel = [d \in PaperDesks |-> termPanel[d]]
  /\ generated = [d \in PaperDesks |-> generated[d]]
  /\ handed = [d \in PaperDesks |-> handed[d]]
  /\ \A d \in PaperDesks : termPanel[d].shows # NoTerm =>
       generated[d] = <<termPanel[d].h, termPanel[d].shows>>
FilesInv == FilesOK /\ PanelsOK

(* Nothing is unfiled and no reference blanked.                             *)
Refers == /\ handover' = [h \in Handovers |-> handover'[h]]
          /\ \A h \in Handovers : IsHandover(handover'[h])
          /\ \A h \in Handovers : handover'[h].reference \in {handover[h].reference, TRUE}
Pages == /\ papers' = [h \in Handovers |-> papers'[h]]
         /\ \A h \in Handovers : papers[h] \subseteq papers'[h]

LEMMA FilesKeep ==
  ASSUME FilesOK, [PaperNext]_paperVars
  PROVE FilesOK' /\ SignedStands
<1>1. ASSUME papers' = papers \/ \E h, k : papers' = [papers EXCEPT ![h] = @ \cup {k}]
      PROVE Pages
  BY <1>1 DEF FilesOK, Pages
<1>2. ASSUME DayPasses PROVE Refers /\ Pages
  <2>1. papers' = papers
    BY <1>2 DEF DayPasses
  <2> DEFINE Aged(h) == [handover[h] EXCEPT !.days = @ + 1]
  <2>2. \A h \in Handovers : IsHandover(Aged(h)) /\ Aged(h).reference = handover[h].reference
    BY DEF FilesOK, IsHandover
  <2>3. /\ handover' = [h \in Handovers |-> handover'[h]]
        /\ \A h \in Handovers : handover'[h] \in {handover[h], Aged(h)}
    BY <1>2, Zenon DEF DayPasses
  <2> HIDE DEF Aged
  <2>4. Refers
    BY <2>2, <2>3 DEF FilesOK, Refers
  <2> QED BY <1>1, <2>1, <2>4
<1>3. ASSUME \E d \in PaperDesks : RecordReference(d) PROVE Refers /\ Pages
  <2>1. PICK d \in PaperDesks :
          /\ handover' = [handover EXCEPT ![termPanel[d].h].reference = TRUE] /\ papers' = papers
    BY <1>3 DEF RecordReference, ReceiptRef
  <2> DEFINE new == [handover[termPanel[d].h] EXCEPT !.reference = TRUE]
  <2>2. handover' = [handover EXCEPT ![termPanel[d].h] = new]
    BY <2>1
  <2>3. termPanel[d].h \in Handovers => IsHandover(new) /\ new.reference = TRUE
    BY DEF FilesOK, IsHandover
  <2> HIDE DEF new
  <2>4. Refers
    BY <2>2, <2>3 DEF FilesOK, Refers
  <2> QED BY <1>1, <2>1, <2>4
<1>4. ASSUME \E d \in PaperDesks, h \in Handovers : ReturnKey(d, h) PROVE Refers /\ Pages
  <2>1. PICK h \in Handovers : handover' = [handover EXCEPT ![h].returned = TRUE] /\ papers' = papers
    BY <1>4 DEF ReturnKey
  <2> DEFINE new == [handover[h] EXCEPT !.returned = TRUE]
  <2>2. handover' = [handover EXCEPT ![h] = new]
    BY <2>1
  <2>3. IsHandover(new) /\ new.reference = handover[h].reference
    BY DEF FilesOK, IsHandover
  <2> HIDE DEF new
  <2>4. Refers
    BY <2>2, <2>3 DEF FilesOK, Refers
  <2> QED BY <1>1, <2>1, <2>4
<1>5. ASSUME UNCHANGED handover PROVE Refers
  BY <1>5 DEF FilesOK, Refers
<1>6. ASSUME \E d \in PaperDesks, h \in Handovers, kind \in {"signed term", "return receipt"} :
               AttachDocument(d, h, kind)
      PROVE Refers /\ Pages
  BY <1>1, <1>5, <1>6 DEF AttachDocument
<1>7. ASSUME UNCHANGED <<handover, papers>> PROVE Refers /\ Pages
  BY <1>1, <1>5, <1>7
<1>8. Refers /\ Pages
  BY <1>2, <1>3, <1>4, <1>6, <1>7
     DEF PaperNext, paperVars, Generate, SaveTerm, OpenRegister, ChangePolicy, CheckOverdue,
         RaiseAlarm,
         SaveWording, PutWording, PaperFails, PaperRefresh
<1>9. FilesOK'
  BY <1>8 DEF Refers, Pages, FilesOK
<1>10. SignedStands
  <2> SUFFICES ASSUME NEW h \in Handovers, IsSigned(Copies, h) PROVE IsSigned(Copies', h)
    BY DEF SignedStands
  <2>1. "signed term" \in papers[h] \/ handover[h].reference
    BY Zenon DEF IsSigned, Copies
  <2>2. "signed term" \in papers[h] => "signed term" \in papers'[h]
    BY <1>8 DEF Pages
  <2>3. handover[h].reference => handover'[h].reference
    BY <1>8, Zenon DEF Refers
  <2>4. "signed term" \in papers'[h] \/ handover'[h].reference
    BY <2>1, <2>2, <2>3, Zenon
  <2> QED BY <2>4, Zenon DEF IsSigned, Copies
<1> QED BY <1>9, <1>10

LEMMA PanelsKeep ==
  ASSUME PanelsOK, [PaperNext]_paperVars
  PROVE PanelsOK' /\ HandedIsGenerated
<1>1. CASE UNCHANGED <<termPanel, generated, handed>>
  BY <1>1 DEF PanelsOK, HandedIsGenerated
<1>2. ASSUME NEW d \in PaperDesks, NEW h \in Handovers, NEW doc, NEW language, Generate(d, h, doc, language)
      PROVE PanelsOK' /\ HandedIsGenerated
  <2>1. PICK t : /\ generated' = [generated EXCEPT ![d] = <<h, t>>]
                 /\ termPanel' = [termPanel EXCEPT ![d] = [h |-> h, doc |-> doc, language |-> language,
                                                           shows |-> t]]
    BY <1>2 DEF Generate
  <2>2. handed' = handed
    BY <1>2 DEF Generate
  <2> QED BY <2>1, <2>2 DEF PanelsOK, HandedIsGenerated
<1>3. ASSUME NEW d \in PaperDesks, SaveTerm(d) PROVE PanelsOK' /\ HandedIsGenerated
  BY <1>3 DEF SaveTerm, Rendered, PanelsOK, HandedIsGenerated
<1>4. ASSUME NEW d \in PaperDesks, OpenRegister(d) PROVE PanelsOK' /\ HandedIsGenerated
  <2>1. termPanel' = [termPanel EXCEPT ![d] = Shut] /\ UNCHANGED <<generated, handed>>
    BY <1>4 DEF OpenRegister
  <2>2. Shut.shows = NoTerm
    BY DEF Shut
  <2> HIDE DEF Shut
  <2> QED BY <2>1, <2>2 DEF PanelsOK, HandedIsGenerated
<1>5. \/ UNCHANGED <<termPanel, generated, handed>>
      \/ \E d \in PaperDesks : \/ SaveTerm(d) \/ OpenRegister(d)
                               \/ \E h \in Handovers, doc \in TermDocs, language \in Languages :
                                    Generate(d, h, doc, language)
  BY ZenonT(60) DEF PaperNext, paperVars, DayPasses, AttachDocument, RecordReference, ReturnKey, ChangePolicy,
         CheckOverdue, RaiseAlarm, SaveWording, PutWording, PaperFails, PaperRefresh
<1> QED BY <1>1, <1>2, <1>3, <1>4, <1>5

(* What a holder is given to sign is what the trail says was generated, and *)
(* what was signed for stays so, on however many workstations (receipt.rs,  *)
(* domain/document.rs).                                                     *)
THEOREM PapersAlwaysStand == PaperSpec => PapersStand
<1>1. PaperInit => FilesInv
  <2> SUFFICES ASSUME PaperInit PROVE FilesInv
    OBVIOUS
  <2>1. FilesOK
    BY DEF PaperInit, FilesOK, IsHandover
  <2>2. PanelsOK
    BY DEF PaperInit, PanelsOK, Shut
  <2> QED BY <2>1, <2>2 DEF FilesInv
<1>2. FilesInv /\ [PaperNext]_paperVars => FilesInv'
  BY FilesKeep, PanelsKeep DEF FilesInv
<1>3. FilesInv /\ [PaperNext]_paperVars => [HandedIsGenerated /\ SignedStands]_paperVars
  BY FilesKeep, PanelsKeep DEF FilesInv
<1> QED BY <1>1, <1>2, <1>3, PTL DEF PaperSpec, PapersStand

(***************************************************************************)
(* One workstation.  What it holds of who signed or returned is so; whom it *)
(* is about to name has not been named; the wording it is about to write is *)
(* of a version there is none of.                                           *)
(***************************************************************************)

OnePaperDesk == \A d, e \in PaperDesks : d = e
Cleared(copy) == {h \in Handovers : IsSigned(copy, h) \/ copy.handover[h].returned}
IsWording(x) == {"doc", "language", "version"} \subseteq DOMAIN x /\ x.version \in Nat
IsCall(c) == {"op", "row", "late"} \subseteq DOMAIN c
Unnamed(h) == h \in Handovers /\ alarms[h] = 0 /\ h \notin Cleared(Copies)
CallsOK ==
  /\ call = [d \in PaperDesks |-> call[d]]
  /\ \A d \in PaperDesks :
       /\ IsCall(call[d])
       /\ call[d].op = "put" => IsWording(call[d].row) /\ call[d].row \notin terms
       /\ call[d].op = "alarm" => \A h \in call[d].late : Unnamed(h)
CopiesOK == /\ listed = [d \in PaperDesks |-> listed[d]]
            /\ \A d \in PaperDesks : Cleared(listed[d]) = Cleared(Copies)
AlarmsOK == alarms = [h \in Handovers |-> alarms[h]] /\ \A h \in Handovers : alarms[h] \in {0, 1}
TermsOK == /\ \A r \in terms : IsWording(r)
           /\ \E n \in Nat : \A r \in terms : r.version <= n
DeskInv == CallsOK /\ CopiesOK /\ AlarmsOK /\ TermsOK /\ untrue = {}

Steady == UNCHANGED <<alarms, untrue, terms>>
Reads(d) == \/ listed' = [listed EXCEPT ![d] = Copies']
            \/ listed' = listed /\ Cleared(Copies') = Cleared(Copies)
AtEase(d) == \/ AtRest(d) /\ call' = call
             \/ \E c : Calls(d, c) /\ IsCall(c) /\ c.op \in {"none", "check"}
Waits == Steady /\ call' = call /\ listed' = listed /\ Cleared(Copies') = Cleared(Copies)

LEMMA NoCalls == /\ IsCall(NoCall) /\ NoCall.op = "none" /\ IsCall(CheckNext) /\ CheckNext.op = "check"
  BY DEF NoCall, CheckNext, IsCall

LEMMA DaysSettleNothing == ASSUME FilesOK, DayPasses PROVE Cleared(Copies') = Cleared(Copies)
<1> DEFINE Aged(h) == [handover[h] EXCEPT !.days = @ + 1]
<1>1. \A h \in Handovers : Aged(h).reference = handover[h].reference /\ Aged(h).returned = handover[h].returned
  BY DEF FilesOK, IsHandover
<1>2. /\ papers' = papers
      /\ \A h \in Handovers : handover'[h] = handover[h] \/ handover'[h] = Aged(h)
  BY Zenon DEF DayPasses
<1> HIDE DEF Aged
<1>3. \A h \in Handovers : /\ handover'[h].reference = handover[h].reference
                           /\ handover'[h].returned = handover[h].returned
  BY <1>1, <1>2, Zenon
<1>4. /\ Copies.papers = papers /\ Copies'.papers = papers'
      /\ Copies.handover = handover /\ Copies'.handover = handover'
  BY DEF Copies
<1>5. \A h \in Handovers :
        (IsSigned(Copies', h) \/ Copies'.handover[h].returned) <=> (IsSigned(Copies, h) \/ Copies.handover[h].returned)
  BY <1>2, <1>3, <1>4, Zenon DEF IsSigned
<1> HIDE DEF Copies
<1> QED BY <1>5, Zenon DEF Cleared

LEMMA DeskShape ==
  ASSUME FilesOK, DeskInv, NEW d \in PaperDesks,
         \/ \E h \in Handovers : \/ \E doc \in TermDocs, language \in Languages : Generate(d, h, doc, language)
                                 \/ \E kind \in {"signed term", "return receipt"} : AttachDocument(d, h, kind)
                                 \/ ReturnKey(d, h)
         \/ SaveTerm(d) \/ RecordReference(d) \/ OpenRegister(d)
         \/ \E required \in BOOLEAN, after \in {1, 2} : ChangePolicy(d, required, after)
         \/ PaperFails(d) \/ PaperRefresh(d)
  PROVE Steady /\ Reads(d) /\ AtEase(d)
<1>1. ASSUME UNCHANGED <<handover, papers, terms>> PROVE Cleared(Copies') = Cleared(Copies)
  <2>1. Copies' = Copies
    BY <1>1 DEF Copies
  <2> QED BY <2>1
<1>2. CASE \E h \in Handovers, doc \in TermDocs, language \in Languages : Generate(d, h, doc, language)
  BY <1>1, <1>2 DEF Generate, Steady, Reads, AtEase
<1>3. CASE SaveTerm(d) \/ PaperFails(d)
  BY <1>1, <1>3, NoCalls DEF SaveTerm, PaperFails, Steady, Reads, AtEase
<1>4. CASE \E required \in BOOLEAN, after \in {1, 2} : ChangePolicy(d, required, after)
  <2>1. UNCHANGED <<handover, papers, terms, alarms, untrue, listed>> /\ Calls(d, CheckNext)
    BY <1>4, Zenon DEF ChangePolicy
  <2> QED BY <1>1, <2>1, NoCalls DEF Steady, Reads, AtEase
<1>5. CASE \E h \in Handovers, kind \in {"signed term", "return receipt"} : AttachDocument(d, h, kind)
  BY <1>5 DEF AttachDocument, Relists, Steady, Reads, AtEase
<1>6. CASE (\E h \in Handovers : ReturnKey(d, h)) \/ OpenRegister(d)
  <2>1. UNCHANGED <<terms, alarms, untrue>> /\ Calls(d, CheckNext) /\ Relists(d)
    BY <1>6, Zenon DEF ReturnKey, OpenRegister
  <2> QED BY <2>1, NoCalls DEF Relists, Steady, Reads, AtEase
<1>7. CASE RecordReference(d) \/ PaperRefresh(d)
  <2>1. UNCHANGED <<terms, alarms, untrue, call>> /\ AtRest(d) /\ Relists(d)
    BY <1>7, Zenon DEF RecordReference, PaperRefresh
  <2> QED BY <2>1 DEF Relists, Steady, Reads, AtEase
<1> QED BY <1>2, <1>3, <1>4, <1>5, <1>6, <1>7

(* next version of a wording: past every one of its document and language.  *)
LEMMA WordingIsNew ==
  ASSUME TermsOK, NEW doc, NEW language
  PROVE /\ NextWording(doc, language) \in Nat
        /\ \A r \in terms : r.doc = doc /\ r.language = language => r.version < NextWording(doc, language)
<1>1. PICK n \in Nat : \A r \in terms : r.version <= n
  BY DEF TermsOK
<1> DEFINE S == {0} \cup {r.version : r \in {t \in terms : t.doc = doc /\ t.language = language}}
<1>2. S \subseteq 0..n /\ S # {}
  BY <1>1 DEF TermsOK, IsWording
<1>3. NextWording(doc, language) = 1 + Max(S)
  BY DEF NextWording
<1>4. \A r \in terms : r.doc = doc /\ r.language = language => r.version \in S
  OBVIOUS
<1> HIDE DEF S
<1>5. Max(S) \in S /\ \A x \in S : x <= Max(S)
  BY <1>2, LargestNumber
<1>6. \A x \in S : x \in Nat
  BY <1>2
<1> QED BY <1>3, <1>4, <1>5, <1>6

LEMMA DeskKeeps ==
  ASSUME FilesOK, DeskInv, OnePaperDesk, [PaperNext]_paperVars
  PROVE DeskInv'
<1> USE DEF DeskInv
<1>1. ASSUME Waits PROVE DeskInv'
  BY <1>1 DEF Waits, Steady, CallsOK, CopiesOK, AlarmsOK, TermsOK, Unnamed
<1>2. ASSUME NEW d \in PaperDesks PROVE PaperDesks = {d}
  BY DEF OnePaperDesk
<1>3. ASSUME NEW d \in PaperDesks, Reads(d) PROVE CopiesOK'
  BY <1>2, <1>3 DEF Reads, CopiesOK
<1>4. ASSUME NEW d \in PaperDesks, Steady, Reads(d), AtEase(d) PROVE DeskInv'
  <2>1. AlarmsOK' /\ TermsOK' /\ untrue' = {}
    BY <1>4 DEF Steady, AlarmsOK, TermsOK
  <2>2. CallsOK'
    <3>1. CASE AtRest(d) /\ call' = call
      <4>1. call[d].op = "none"
        BY <3>1, NoCalls DEF AtRest
      <4> QED BY <1>2, <3>1, <4>1 DEF CallsOK
    <3>2. CASE \E c : Calls(d, c) /\ IsCall(c) /\ c.op \in {"none", "check"}
      <4>1. PICK c : Calls(d, c) /\ IsCall(c) /\ c.op \in {"none", "check"}
        BY <3>2
      <4>2. call' = [e \in PaperDesks |-> call'[e]] /\ call'[d] = c
        BY <4>1 DEF Calls, CallsOK
      <4> QED BY <1>2, <4>1, <4>2 DEF CallsOK
    <3> QED BY <1>4, <3>1, <3>2 DEF AtEase
  <2> QED BY <1>3, <1>4, <2>1, <2>2
<1>5. ASSUME NEW d \in PaperDesks, CheckOverdue(d) PROVE DeskInv'
  <2>1. Steady /\ UNCHANGED <<handover, papers, listed>>
    BY <1>5 DEF CheckOverdue, Steady
  <2>2. Copies' = Copies
    BY <2>1 DEF Copies, Steady
  <2>3. CASE Newly(d) = {}
    <3>1. Calls(d, NoCall)
      BY <1>5, <2>3 DEF CheckOverdue
    <3> QED BY <1>4, <2>1, <2>2, <3>1, NoCalls DEF Reads, AtEase
  <2>4. CASE Newly(d) # {}
    <3> DEFINE c == [CheckNext EXCEPT !.op = "alarm", !.late = Newly(d)]
    <3>1. Calls(d, c)
      BY <1>5, <2>4 DEF CheckOverdue
    <3>2. IsCall(c) /\ c.op = "alarm" /\ c.late = Newly(d)
      BY DEF CheckNext, NoCall, IsCall
    <3> HIDE DEF c
    <3>3. \A h \in Newly(d) : Unnamed(h)
      <4>1. \A h \in Newly(d) : /\ h \in Handovers /\ alarms[h] = 0
                                /\ ~IsSigned(listed[d], h) /\ ~listed[d].handover[h].returned
        BY Zenon DEF Newly, IsOverdue
      <4>2. \A h \in Newly(d) : h \notin Cleared(listed[d])
        BY <4>1, Zenon DEF Cleared
      <4> QED BY <4>1, <4>2 DEF Unnamed, CopiesOK
    <3>4. call' = [e \in PaperDesks |-> call'[e]] /\ call'[d] = c
      BY <3>1 DEF Calls, CallsOK
    <3>5. \A h : Unnamed(h) => Unnamed(h)'
      BY <2>1, <2>2 DEF Unnamed, Steady
    <3>6. CallsOK'
      BY <1>2, <3>2, <3>3, <3>4, <3>5 DEF CallsOK
    <3> QED BY <2>1, <2>2, <3>6 DEF Steady, AlarmsOK, TermsOK, CopiesOK
  <2> QED BY <2>3, <2>4
<1>6. ASSUME NEW d \in PaperDesks, RaiseAlarm(d) PROVE DeskInv'
  <2> DEFINE Left(h) == IF call[d].late = {h} THEN NoCall ELSE [call[d] EXCEPT !.late = @ \ {h}]
  <2>1. PICK h \in call[d].late :
          /\ call[d].op = "alarm" /\ alarms' = [alarms EXCEPT ![h] = @ + 1]
          /\ untrue' = IF IsSigned(Copies, h) \/ handover[h].returned THEN untrue \cup {h} ELSE untrue
          /\ Calls(d, Left(h)) /\ UNCHANGED <<handover, papers, listed, terms>>
    BY <1>6, Zenon DEF RaiseAlarm
  <2>2. Unnamed(h)
    BY <2>1 DEF CallsOK
  <2>3. ~(IsSigned(Copies, h) \/ handover[h].returned)
    <3>1. h \in Handovers /\ h \notin Cleared(Copies)
      BY <2>2 DEF Unnamed
    <3>2. Copies.handover = handover
      BY DEF Copies
    <3> QED BY <3>1, <3>2, Zenon DEF Cleared
  <2>4. untrue' = {}
    BY <2>1, <2>3, Zenon
  <2>5. Copies' = Copies
    BY <2>1 DEF Copies
  <2>6. AlarmsOK' /\ \A g \in Handovers : g # h => alarms'[g] = alarms[g]
    BY <2>1, <2>2 DEF Unnamed, AlarmsOK
  <2>7. IsCall(Left(h)) /\ (Left(h).op = "alarm" => Left(h).late = call[d].late \ {h}) /\ Left(h).op # "put"
    <3>1. CASE call[d].late = {h}
      BY <3>1, NoCalls
    <3>2. CASE call[d].late # {h}
      BY <2>1, <3>2 DEF CallsOK, IsCall
    <3> QED BY <3>1, <3>2
  <2> HIDE DEF Left
  <2>8. call' = [e \in PaperDesks |-> call'[e]] /\ call'[d] = Left(h)
    BY <2>1 DEF Calls, CallsOK
  <2>9. \A g \in call[d].late \ {h} : Unnamed(g)'
    BY <2>1, <2>5, <2>6 DEF CallsOK, Unnamed
  <2>10. CallsOK'
    BY <1>2, <2>7, <2>8, <2>9 DEF CallsOK
  <2> QED BY <2>1, <2>4, <2>5, <2>6, <2>10 DEF CopiesOK, TermsOK
<1>7. ASSUME NEW d \in PaperDesks, NEW doc \in TermDocs, NEW language \in Languages,
             SaveWording(d, doc, language)
      PROVE DeskInv'
  <2> DEFINE new == [doc |-> doc, language |-> language, version |-> NextWording(doc, language)]
             c == [NoCall EXCEPT !.op = "put", !.row = new]
  <2>1. Steady /\ UNCHANGED <<handover, papers, listed>> /\ Calls(d, c)
    BY <1>7 DEF SaveWording, Steady
  <2>2. Copies' = Copies
    BY <2>1 DEF Copies, Steady
  <2>3. IsWording(new) /\ new \notin terms
    <3>1. /\ new.doc = doc /\ new.language = language /\ new.version = NextWording(doc, language)
          /\ {"doc", "language", "version"} \subseteq DOMAIN new
      OBVIOUS
    <3> HIDE DEF new
    <3>2. \A r \in terms : r.doc = doc /\ r.language = language => r.version < NextWording(doc, language)
      BY WordingIsNew
    <3>3. NextWording(doc, language) \in Nat
      BY WordingIsNew
    <3>4. ~(NextWording(doc, language) < NextWording(doc, language))
      BY <3>3
    <3> QED BY <3>1, <3>2, <3>3, <3>4 DEF IsWording
  <2>4. IsCall(c) /\ c.op = "put" /\ c.row = new
    BY DEF NoCall, IsCall
  <2> HIDE DEF c, new
  <2>5. call' = [e \in PaperDesks |-> call'[e]] /\ call'[d] = c
    BY <2>1 DEF Calls, CallsOK
  <2>6. CallsOK'
    BY <1>2, <2>1, <2>3, <2>4, <2>5 DEF CallsOK, Steady
  <2> QED BY <2>1, <2>2, <2>6 DEF Steady, AlarmsOK, TermsOK, CopiesOK
<1>8. ASSUME NEW d \in PaperDesks, PutWording(d) PROVE DeskInv'
  <2>1. /\ call[d].op = "put" /\ terms' = terms \cup {call[d].row}
        /\ untrue' = untrue \cup ({call[d].row} \cap terms)
        /\ Calls(d, NoCall) /\ Relists(d) /\ alarms' = alarms
    BY <1>8 DEF PutWording
  <2>2. IsWording(call[d].row) /\ call[d].row \notin terms
    BY <2>1 DEF CallsOK
  <2>3. untrue' = {}
    BY <2>1, <2>2
  <2>4. TermsOK'
    <3>1. PICK n \in Nat : \A r \in terms : r.version <= n
      BY DEF TermsOK
    <3>2. PICK m \in Nat : n <= m /\ call[d].row.version <= m
      BY <2>2 DEF IsWording
    <3>3. \A r \in terms' : IsWording(r) /\ r.version <= m
      BY <2>1, <2>2, <3>1, <3>2 DEF TermsOK, IsWording
    <3> QED BY <3>3 DEF TermsOK
  <2>5. CopiesOK'
    BY <1>3, <2>1 DEF Reads, Relists
  <2>6. call' = [e \in PaperDesks |-> call'[e]] /\ call'[d] = NoCall
    BY <2>1 DEF Calls, CallsOK
  <2>7. CallsOK'
    BY <1>2, <2>6, NoCalls DEF CallsOK
  <2> QED BY <2>1, <2>3, <2>4, <2>5, <2>7 DEF AlarmsOK
<1>9. CASE UNCHANGED paperVars
  <2>1. Copies' = Copies
    BY <1>9 DEF paperVars, Copies
  <2> QED BY <1>1, <1>9, <2>1 DEF paperVars, Waits, Steady
<1>10. CASE DayPasses
  <2>1. Cleared(Copies') = Cleared(Copies)
    BY <1>10, DaysSettleNothing
  <2> QED BY <1>1, <1>10, <2>1 DEF DayPasses, Waits, Steady
<1> QED BY <1>4, <1>5, <1>6, <1>7, <1>8, <1>9, <1>10, DeskShape, Zenon DEF PaperNext

(* One alarm for a hand-over, ever, and what an entry says is so when it is *)
(* written (app.rs: check_overdue_signatures, save_term_template_version).  *)
THEOREM PapersAreTrueAtOneDesk ==
  ASSUME OnePaperDesk
  PROVE  PaperSpec => [](OverdueOnce /\ EntriesAreTrue)
<1> DEFINE Both == FilesOK /\ DeskInv
<1>1. PaperInit => Both
  <2> SUFFICES ASSUME PaperInit PROVE Both
    OBVIOUS
  <2>1. FilesOK
    BY DEF PaperInit, FilesOK, IsHandover
  <2>2. TermsOK
    <3>1. \A r \in terms : IsWording(r) /\ r.version <= 1
      BY DEF PaperInit, Builtins, IsWording
    <3> QED BY <3>1 DEF TermsOK
  <2>3. CopiesOK /\ AlarmsOK
    BY DEF PaperInit, CopiesOK, AlarmsOK
  <2>4. CallsOK
    BY NoCalls DEF PaperInit, CallsOK
  <2> QED BY <2>1, <2>2, <2>3, <2>4 DEF DeskInv, PaperInit
<1>2. Both /\ [PaperNext]_paperVars => Both'
  BY FilesKeep, DeskKeeps
<1>3. Both => OverdueOnce /\ EntriesAreTrue
  BY DEF DeskInv, AlarmsOK, OverdueOnce, EntriesAreTrue
<1> QED BY <1>1, <1>2, <1>3, PTL DEF PaperSpec
-----------------------------------------------------------------------------
(***************************************************************************)
(* A box of keys (Batch), on one workstation.  What is stored is a list     *)
(* with its positions in order; the list in hand is that list, or ahead of  *)
(* it where a write was refused.                                            *)
(***************************************************************************)

OneBtDesk == \A d, e \in BtDesks : d = e

(* A pairing list has no serial twice (batch/pairing.rs refuses the file),  *)
(* and the database refuses no row of a stock box: a refused one would      *)
(* leave a hole, and the next key resumed be stored over another.           *)
SoundLists == \A list \in Lists :
  /\ \E n \in Nat : DOMAIN list = 1..n
  /\ \A i, j \in DOMAIN list : list[i].serial = list[j].serial /\ list[i].serial # NoSerial => i = j
StockIsWritten == NoSerial \notin Boxed /\ BtFaults["stock"] = 0

IsEntry(x) == {"at", "serial", "holder", "state", "run"} \subseteq DOMAIN x
IsHand(h) ==
  {"current", "list", "position", "serial", "version", "run", "over"} \subseteq DOMAIN h
IsBox(b) == {"shape", "version", "rows", "finished"} \subseteq DOMAIN b
InPlace(f, m) ==
  m \in Nat /\ f = [i \in 1..m |-> f[i]] /\ \A i \in 1..m : IsEntry(f[i]) /\ f[i].at = i
Apart(f, m) == \A i, j \in 1..m : f[i].serial = f[j].serial /\ f[i].serial # NoSerial => i = j
Told(x, entries) == x.state = "done" => <<"done", x.serial, x.holder>> \in entries
Behind(x, y) == x = y \/ (x.state = "pending" /\ x.serial \in {NoSerial, y.serial})

Stored(f, m) == /\ InPlace(f, m) /\ box.rows = RowsOf(f)
                /\ Apart(f, m) /\ \A i \in 1..m : Told(f[i], said)
AtPending(d, m) ==
  LET p == hand[d].position IN p # 0 => p \in 1..m /\ hand[d].list[p].state = "pending"
Worked(d, f, m) ==
  LET list == hand[d].list
  IN /\ hand[d].current.shape = box.shape
     /\ InPlace(list, m) /\ Apart(list, m)
     /\ \A i \in 1..m : Told(list[i], said) /\ Behind(f[i], list[i])
     /\ AtPending(d, m)
PutDown(d) ==
  /\ hand[d].position = 0
  /\ resumable[d] # NoBox => resumable[d].rows = box.rows /\ resumable[d].shape = box.shape
DeskOK(d, f, m) == IF hand[d].current = NoBox THEN PutDown(d) ELSE Worked(d, f, m)
Handy ==
  /\ hand = [d \in BtDesks |-> hand[d]] /\ resumable = [d \in BtDesks |-> resumable[d]]
  /\ \A d \in BtDesks : IsHand(hand[d])
  /\ IsBox(box) /\ faults \in Nat
SaidOK == TermsAreOfDone
BoxInv == Handy /\ SaidOK /\ \E m, f : Stored(f, m) /\ \A d \in BtDesks : DeskOK(d, f, m)

(* The rows in the order of their positions are the list they came from.    *)
LEMMA PrefixCount ==
  ASSUME NEW m, NEW f, InPlace(f, m), NEW n \in Nat, n <= m
  PROVE  Cardinality({f[i] : i \in 1..n}) = n
<1> DEFINE S == {f[i] : i \in 1..n}
           g == [i \in 1..n |-> f[i]]
<1>1. \A i \in 1..n : i \in 1..m
  BY DEF InPlace
<1>2. g \in [1..n -> S] /\ \A i \in 1..n : g[i] = f[i] /\ g[i].at = i
  BY <1>1 DEF InPlace
<1>3. g \in Bijection(1..n, S)
  <2>1. \A i, j \in 1..n : g[i] = g[j] => i = j
    BY <1>2
  <2>2. \A x \in S : \E i \in 1..n : g[i] = x
    BY <1>2
  <2> HIDE DEF g, S
  <2> QED BY <1>2, <2>1, <2>2 DEF Bijection, Injection, Surjection, IsInjective
<1> HIDE DEF g, S
<1>4. ExistsBijection(1..n, S)
  BY <1>3 DEF ExistsBijection
<1>5. Cardinality(S) = n
  BY <1>4, FS_CountingElements
<1> QED BY <1>5 DEF S

LEMMA InOrderIs ==
  ASSUME NEW m, NEW f, InPlace(f, m)
  PROVE  InOrder(RowsOf(f)) = f
<1> DEFINE rows == RowsOf(f)
           Below(x) == {r \in rows : r.at < x.at}
<1>1. m \in Nat /\ DOMAIN f = 1..m
  BY DEF InPlace
<1>2. rows = {f[i] : i \in 1..m}
  BY <1>1 DEF RowsOf
<1>3. Cardinality(rows) = m
  BY <1>1, <1>2, PrefixCount
<1>4. ASSUME NEW i \in 1..m PROVE Cardinality(Below(f[i])) = i - 1
  <2>1. Below(f[i]) = {f[j] : j \in 1..(i - 1)}
    <3>1. \A j \in 1..m : f[j].at = j
      BY DEF InPlace
    <3> HIDE DEF rows
    <3> QED BY <1>1, <1>2, <3>1
  <2>2. i - 1 \in Nat /\ i - 1 <= m
    BY <1>1
  <2> QED BY <2>1, <2>2, PrefixCount
<1> HIDE DEF Below, rows
<1>5. ASSUME NEW n \in 1..m
      PROVE (CHOOSE x \in rows : Cardinality(Below(x)) = n - 1) = f[n]
  <2>1. f[n] \in rows /\ Cardinality(Below(f[n])) = n - 1
    BY <1>2, <1>4
  <2>2. \A x \in rows : Cardinality(Below(x)) = n - 1 => x = f[n]
    BY <1>2, <1>4
  <2> QED BY <2>1, <2>2
<1>6. InOrder(rows) = [n \in 1..m |-> f[n]]
  <2>1. InOrder(rows) = [n \in 1..m |-> CHOOSE x \in rows : Cardinality(Below(x)) = n - 1]
    BY <1>3 DEF InOrder, Below
  <2> QED BY <1>5, <2>1
<1>7. f = [n \in 1..m |-> f[n]]
  BY DEF InPlace
<1> QED BY <1>6, <1>7 DEF rows

LEMMA LeastNumber ==
  ASSUME NEW S, S \subseteq Nat, S # {}
  PROVE  Min(S) \in S
<1>1. \E x \in S : \A y \in S : <<y, x>> \notin OpToRel(<, Nat)
  BY NatLessThanWellFounded, WFMin
<1>2. PICK x \in S : \A y \in S : ~(y < x)
  BY <1>1 DEF OpToRel
<1>3. \A y \in S : x <= y
  BY <1>2
<1> QED BY <1>3 DEF Min

LEMMA Longer ==
  ASSUME NEW m \in Nat, NEW list, list = [i \in 1..m |-> list[i]], NEW x
  PROVE /\ Len(list) = m
        /\ Append(list, x) = [i \in 1..(m + 1) |-> IF i = m + 1 THEN x ELSE list[i]]
<1> DEFINE S == {list[i] : i \in 1..m} \cup {x}
<1>1. list \in [1..m -> S]
  OBVIOUS
<1>2. list \in Seq(S) /\ x \in S
  BY <1>1
<1> HIDE DEF S
<1>3. Len(list) = m
  BY <1>1, <1>2
<1> QED BY <1>1, <1>2, <1>3

(***************************************************************************)
(* What a step does to the box and to what is in hand.                      *)
(***************************************************************************)

SameHand(d) == /\ hand'[d].current = hand[d].current /\ hand'[d].list = hand[d].list
               /\ hand'[d].position = hand[d].position
Idles(d) == /\ box'.rows = box.rows /\ box'.shape = box.shape /\ SameHand(d)
            /\ resumable'[d] \in {resumable[d], NoBox, box} /\ said \subseteq said'
PutsDown(d) == /\ box' = box /\ said' = said
               /\ hand'[d].current = NoBox /\ hand'[d].position = 0
               /\ resumable'[d] \in {NoBox, box}
Takes(d) == /\ hand'[d].current # NoBox /\ hand'[d].current.shape = box'.shape
            /\ hand'[d].list = InOrder(box'.rows) /\ hand'[d].position = 0 /\ said' = said
            /\ \/ box' = box
               \/ \E m, f : /\ InPlace(f, m) /\ Apart(f, m) /\ box'.rows = RowsOf(f) /\ box = NoBox
                            /\ \A i \in 1..m : f[i].state = "pending"
Stores(x) == box' = Written(box, x) \/ (box' = box /\ box.shape # "stock")
Presents(d) ==
  LET list == hand[d].list
  IN /\ said' = said /\ hand'[d].current = hand[d].current /\ hand[d].current # NoBox
     /\ \E k \in Boxed : \E i \in Places(list, hand[d].current.shape, k) :
          /\ Stores(Given(list, i, k)[i]) /\ hand'[d].list = Given(list, i, k)
          /\ hand'[d].position \in {i, hand[d].position}
Settles(d) ==
  LET i == hand[d].position
      old == hand[d].list[i]
  IN /\ i # 0 /\ hand[d].current # NoBox /\ hand'[d].current = hand[d].current
     /\ hand'[d].position = 0 /\ said \subseteq said'
     /\ \E x : /\ IsEntry(x) /\ x.at = i /\ x.serial = old.serial /\ x.holder = old.holder
               /\ x.state # "pending" /\ Told(x, said')
               /\ hand'[d].list = [hand[d].list EXCEPT ![i] = x] /\ Stores(x)
Shapes(d) == Idles(d) \/ PutsDown(d) \/ Takes(d) \/ Presents(d) \/ Settles(d)

LEMMA UnfinishedIs == ASSUME NEW b PROVE UnfinishedBatch(b) \in {NoBox, b}
  BY DEF UnfinishedBatch

LEMMA NoHandIs == IsHand(NoHand) /\ NoHand.current = NoBox /\ NoHand.position = 0
  BY DEF NoHand, IsHand

LEMMA WritingIs ==
  ASSUME StockIsWritten, IsBox(box), faults \in Nat, NEW x, Writing(box, x)
  PROVE  Stores(x) /\ faults' \in Nat /\ IsBox(box')
<1>1. ASSUME box' = box /\ faults < BtFaults[box.shape] PROVE box.shape # "stock"
  BY <1>1 DEF StockIsWritten
<1>2. Stores(x)
  BY <1>1 DEF Writing, Stores
<1>3. IsBox(Written(box, x))
  BY DEF Written, IsBox
<1> QED BY <1>2, <1>3 DEF Writing

(* Nothing but the wizard's own selection, or what is said of it.           *)
LEMMA IdleShape ==
  ASSUME Handy, NEW d \in BtDesks,
         \/ \E k \in Boxed : TypeAnother(d, k)
         \/ \E version \in BtVersions : SelectAnother(d, version)
         \/ StartsOver(d) \/ FinishBatch(d) \/ GenerateTerms(d) \/ RefreshBatches(d)
         \/ (FoldIn(d) /\ hand[d].position = 0)
  PROVE Handy' /\ Idles(d)
<1> USE DEF Handy
<1>1. IsHand(hand[d])
  OBVIOUS
<1>2. ASSUME NEW h, Hands(d, h), IsHand(h), h.current = hand[d].current, h.list = hand[d].list,
             h.position = hand[d].position, UNCHANGED <<box, faults>>, said \subseteq said',
             resumable' = resumable \/ Reloads(d, box)
      PROVE Handy' /\ Idles(d)
  <2>1. hand' = [e \in BtDesks |-> hand'[e]] /\ hand'[d] = h /\ \A e \in BtDesks : IsHand(hand'[e])
    BY <1>2 DEF Hands
  <2>2. /\ resumable' = [e \in BtDesks |-> resumable'[e]]
        /\ resumable'[d] \in {resumable[d], NoBox, box}
    BY <1>2, UnfinishedIs DEF Reloads
  <2> QED BY <1>2, <2>1, <2>2 DEF Idles, SameHand
<1>3. CASE \/ \E k \in Boxed : TypeAnother(d, k)
           \/ \E version \in BtVersions : SelectAnother(d, version)
           \/ StartsOver(d)
  <2>1. UNCHANGED <<box, faults, said, resumable>>
    BY <1>3 DEF TypeAnother, SelectAnother, StartsOver
  <2>2. \E v : \/ Hands(d, [hand[d] EXCEPT !.serial = v])
               \/ Hands(d, [hand[d] EXCEPT !.version = v])
               \/ Hands(d, [hand[d] EXCEPT !.run = v])
    BY <1>3, Zenon DEF TypeAnother, SelectAnother, StartsOver
  <2>3. \E h : /\ Hands(d, h) /\ IsHand(h) /\ h.current = hand[d].current /\ h.list = hand[d].list
               /\ h.position = hand[d].position
    BY <1>1, <2>2 DEF IsHand
  <2> QED BY <1>2, <2>1, <2>3
<1>4. CASE FinishBatch(d)
  <2> DEFINE h == [hand[d] EXCEPT !.over = FALSE]
             b == [box EXCEPT !.finished = TRUE]
  <2>1. /\ Hands(d, h) /\ box' = b /\ UNCHANGED faults /\ said \subseteq said'
        /\ Reloads(d, box) \/ UNCHANGED resumable
    BY <1>4 DEF FinishBatch
  <2>2. /\ IsHand(h) /\ h.current = hand[d].current /\ h.list = hand[d].list
        /\ h.position = hand[d].position
    BY <1>1 DEF IsHand
  <2>3. IsBox(b) /\ b.rows = box.rows /\ b.shape = box.shape
    BY DEF IsBox
  <2> HIDE DEF h, b
  <2>4. hand' = [e \in BtDesks |-> hand'[e]] /\ hand'[d] = h /\ \A e \in BtDesks : IsHand(hand'[e])
    BY <2>1, <2>2 DEF Hands
  <2>5. /\ resumable' = [e \in BtDesks |-> resumable'[e]]
        /\ resumable'[d] \in {resumable[d], NoBox, box}
    BY <2>1, UnfinishedIs DEF Reloads
  <2> QED BY <2>1, <2>2, <2>3, <2>4, <2>5 DEF Idles, SameHand
<1>5. CASE GenerateTerms(d) \/ RefreshBatches(d)
  <2>1. /\ UNCHANGED <<box, faults, hand>> /\ said \subseteq said'
        /\ resumable' = resumable \/ Reloads(d, box)
    BY <1>5 DEF GenerateTerms, RefreshBatches
  <2>2. Hands(d, hand[d])
    BY <2>1 DEF Hands
  <2> QED BY <1>1, <1>2, <2>1, <2>2
<1>6. CASE FoldIn(d) /\ hand[d].position = 0
  <2>1. PICK r : /\ Hands(d, [hand[d] EXCEPT !.run = r]) /\ Reloads(d, box)
                 /\ UNCHANGED <<box, said, faults>>
    BY <1>6, Zenon DEF FoldIn
  <2>2. LET h == [hand[d] EXCEPT !.run = r] IN
          /\ IsHand(h) /\ h.current = hand[d].current /\ h.list = hand[d].list
          /\ h.position = hand[d].position
    BY <1>1 DEF IsHand
  <2> QED BY <1>2, <2>1, <2>2
<1> QED BY <1>3, <1>4, <1>5, <1>6

LEMMA PutDownShape ==
  ASSUME Handy, NEW d \in BtDesks, CloseBatch(d) \/ BatchProgramEnds(d)
  PROVE Handy' /\ PutsDown(d)
<1> USE DEF Handy
<1>1. PICK h : /\ Hands(d, h) /\ IsHand(h) /\ h.current = NoBox /\ h.position = 0
  <2>1. CASE CloseBatch(d)
    <3> DEFINE h == [hand[d] EXCEPT !.current = NoBox, !.list = <<>>, !.position = 0]
    <3>1. Hands(d, h)
      BY <2>1 DEF CloseBatch
    <3>2. IsHand(h) /\ h.current = NoBox /\ h.position = 0
      BY DEF IsHand
    <3> QED BY <3>1, <3>2
  <2>2. CASE BatchProgramEnds(d)
    BY <2>2, NoHandIs DEF BatchProgramEnds
  <2> QED BY <2>1, <2>2
<1>2. Reloads(d, box) /\ UNCHANGED <<box, said, faults>>
  BY DEF CloseBatch, BatchProgramEnds, ReadAgain
<1>3. hand' = [e \in BtDesks |-> hand'[e]] /\ hand'[d] = h /\ \A e \in BtDesks : IsHand(hand'[e])
  BY <1>1 DEF Hands
<1>4. resumable' = [e \in BtDesks |-> resumable'[e]] /\ resumable'[d] \in {NoBox, box}
  BY <1>2, UnfinishedIs DEF Reloads
<1> QED BY <1>1, <1>2, <1>3, <1>4 DEF PutsDown

LEMMA StartShape ==
  ASSUME Handy, SoundLists, NEW d \in BtDesks, NEW given \in Lists \cup {<<>>}, NEW version,
         StartBatch(d, given, version)
  PROVE Handy' /\ Takes(d)
<1> USE DEF Handy
<1> DEFINE f == IF given = <<>> THEN Stocked ELSE Paired(given)
           b == [shape |-> IF given = <<>> THEN "stock" ELSE "assigned", version |-> version,
                 rows |-> RowsOf(f), finished |-> FALSE]
           h == [hand[d] EXCEPT !.current = b, !.list = InOrder(b.rows), !.position = 0,
                                !.version = version]
<1>1. box = NoBox /\ box' = b /\ Hands(d, h) /\ UNCHANGED <<resumable, said, faults>>
  BY DEF StartBatch
<1>2. \E m : InPlace(f, m) /\ Apart(f, m) /\ \A i \in 1..m : f[i].state = "pending"
  <2>1. \A i : /\ IsEntry(WaitingRow(i)) /\ WaitingRow(i).at = i /\ WaitingRow(i).serial = NoSerial
               /\ WaitingRow(i).state = "pending"
    BY DEF WaitingRow, IsEntry
  <2>2. CASE given = <<>>
    <3>1. f = [i \in 1..Expected |-> WaitingRow(i)] /\ Expected \in Nat
      BY <2>2, BatchAssumption DEF Stocked
    <3> HIDE DEF f
    <3>2. InPlace(f, Expected) /\ Apart(f, Expected) /\ \A i \in 1..Expected : f[i].state = "pending"
      BY <2>1, <3>1 DEF InPlace, Apart
    <3> QED BY <3>2
  <2>3. CASE given # <<>>
    <3>1. PICK m \in Nat : DOMAIN given = 1..m
      BY <2>3 DEF SoundLists
    <3> DEFINE Pair(i) == [WaitingRow(i) EXCEPT !.serial = given[i].serial, !.holder = given[i].holder]
    <3>2. \A i : /\ IsEntry(Pair(i)) /\ Pair(i).at = i /\ Pair(i).serial = given[i].serial
                 /\ Pair(i).state = "pending"
      BY <2>1 DEF IsEntry
    <3>3. f = [i \in 1..m |-> Pair(i)]
      BY <2>3, <3>1 DEF Paired
    <3> HIDE DEF Pair, f
    <3>4. \A i, j \in 1..m : given[i].serial = given[j].serial /\ given[i].serial # NoSerial => i = j
      BY <2>3, <3>1 DEF SoundLists
    <3> QED BY <3>1, <3>2, <3>3, <3>4 DEF InPlace, Apart
  <2> QED BY <2>2, <2>3
<1>3. IsBox(b) /\ b.rows = RowsOf(f) /\ b.shape \in {"stock", "assigned"}
  BY DEF IsBox
<1>4. /\ IsHand(h) /\ h.current = b /\ h.list = InOrder(b.rows) /\ h.position = 0
  BY DEF IsHand
<1>5. NoBox.shape = "none"
  BY DEF NoBox
<1> HIDE DEF f, b, h
<1>6. hand' = [e \in BtDesks |-> hand'[e]] /\ hand'[d] = h /\ \A e \in BtDesks : IsHand(hand'[e])
  BY <1>1, <1>4 DEF Hands
<1>7. b # NoBox
  BY <1>3, <1>5
<1> QED BY <1>1, <1>2, <1>3, <1>4, <1>6, <1>7 DEF Takes

LEMMA ResumeShape ==
  ASSUME BoxInv, NEW d \in BtDesks, ResumeBatch(d)
  PROVE Handy' /\ Takes(d)
<1> USE DEF Handy
<1> DEFINE h == [hand[d] EXCEPT !.current = resumable[d], !.list = InOrder(resumable[d].rows),
                                !.position = 0, !.version = resumable[d].version]
<1>1. /\ resumable[d] # NoBox /\ hand[d].current = NoBox /\ Hands(d, h)
      /\ UNCHANGED <<box, resumable, said, faults>>
  BY DEF ResumeBatch
<1>2. resumable[d].rows = box.rows /\ resumable[d].shape = box.shape
  BY <1>1 DEF BoxInv, DeskOK, PutDown
<1>3. /\ IsHand(h) /\ h.current = resumable[d] /\ h.list = InOrder(resumable[d].rows) /\ h.position = 0
  BY DEF IsHand, BoxInv
<1> HIDE DEF h
<1>4. hand' = [e \in BtDesks |-> hand'[e]] /\ hand'[d] = h /\ \A e \in BtDesks : IsHand(hand'[e])
  BY <1>1, <1>3 DEF Hands, BoxInv
<1> QED BY <1>1, <1>2, <1>3, <1>4 DEF Takes, BoxInv

LEMMA PresentShape ==
  ASSUME BoxInv, StockIsWritten, NEW d \in BtDesks, NEW k \in Boxed, Present(d, k)
  PROVE Handy' /\ Presents(d)
<1> USE DEF BoxInv, Handy
<1> DEFINE list == hand[d].list
           Moved(i) == [hand[d] EXCEPT !.list = Given(list, i, k), !.position = i, !.serial = k]
           Kept(i) == [hand[d] EXCEPT !.list = Given(list, i, k)]
<1>1. PICK i \in Places(list, hand[d].current.shape, k) :
        Writing(box, Given(list, i, k)[i]) /\ Hands(d, IF Wrote THEN Moved(i) ELSE Kept(i))
  BY Zenon DEF Present
<1>2. hand[d].current # NoBox /\ UNCHANGED <<resumable, said>>
  BY DEF Present, InHand
<1>3. PICK h : /\ Hands(d, h) /\ IsHand(h) /\ h.current = hand[d].current /\ h.list = Given(list, i, k)
               /\ h.position \in {i, hand[d].position}
  <2>1. /\ IsHand(Moved(i)) /\ Moved(i).current = hand[d].current /\ Moved(i).position = i
        /\ Moved(i).list = Given(list, i, k)
    BY DEF IsHand
  <2>2. /\ IsHand(Kept(i)) /\ Kept(i).current = hand[d].current /\ Kept(i).position = hand[d].position
        /\ Kept(i).list = Given(list, i, k)
    BY DEF IsHand
  <2> HIDE DEF Moved, Kept
  <2>3. Hands(d, Moved(i)) \/ Hands(d, Kept(i))
    BY <1>1
  <2> QED BY <2>1, <2>2, <2>3
<1>4. hand' = [e \in BtDesks |-> hand'[e]] /\ hand'[d] = h /\ \A e \in BtDesks : IsHand(hand'[e])
  BY <1>3 DEF Hands
<1>5. Stores(Given(list, i, k)[i]) /\ faults' \in Nat /\ IsBox(box')
  BY <1>1, WritingIs
<1>6. Handy'
  BY <1>2, <1>4, <1>5
<1>7. Presents(d)
  BY <1>2, <1>3, <1>4, <1>5 DEF Presents
<1> QED BY <1>6, <1>7

LEMMA SettleShape ==
  ASSUME BoxInv, StockIsWritten, NEW d \in BtDesks,
         SkipKey(d) \/ (FoldIn(d) /\ hand[d].position # 0)
  PROVE Handy' /\ Settles(d)
<1> USE DEF BoxInv, Handy
<1> DEFINE list == hand[d].list
           i == hand[d].position
<1>1. i # 0
  BY DEF SkipKey
<1>2. hand[d].current # NoBox
  BY <1>1 DEF DeskOK, PutDown
<1>3. PICK m : InPlace(list, m) /\ i \in 1..m
  BY <1>1, <1>2 DEF DeskOK, Worked, AtPending
<1>4. IsEntry(list[i]) /\ list[i].at = i /\ list = [j \in 1..m |-> list[j]]
  BY <1>3 DEF InPlace
<1>5. ASSUME NEW x, NEW h,
             /\ IsEntry(x) /\ x.at = i /\ x.serial = list[i].serial /\ x.holder = list[i].holder
             /\ x.state # "pending" /\ Told(x, said') /\ Writing(box, x) /\ said \subseteq said',
             /\ Hands(d, h) /\ IsHand(h) /\ h.current = hand[d].current
             /\ h.list = [list EXCEPT ![i] = x] /\ h.position = 0,
             resumable' = [e \in BtDesks |-> resumable'[e]]
      PROVE Handy' /\ Settles(d)
  <2>1. hand' = [e \in BtDesks |-> hand'[e]] /\ hand'[d] = h /\ \A e \in BtDesks : IsHand(hand'[e])
    BY <1>5 DEF Hands
  <2>2. Stores(x) /\ faults' \in Nat /\ IsBox(box')
    BY <1>5, WritingIs
  <2>3. Handy'
    BY <1>5, <2>1, <2>2
  <2>4. Settles(d)
    BY <1>1, <1>2, <1>5, <2>1, <2>2 DEF Settles
  <2> QED BY <2>3, <2>4
<1>6. CASE SkipKey(d)
  <2> DEFINE new == [list EXCEPT ![i].state = "skipped"]
             x == [list[i] EXCEPT !.state = "skipped"]
             over == IsComplete(new)
             h == [hand[d] EXCEPT !.list = new, !.position = 0, !.over = over]
  <2>1. Writing(box, new[i]) /\ Hands(d, h) /\ UNCHANGED <<resumable, said>>
    BY <1>6, Zenon DEF SkipKey
  <2>2. new = [list EXCEPT ![i] = x] /\ new[i] = x
    BY <1>3, <1>4
  <2>3. /\ IsEntry(x) /\ x.at = i /\ x.serial = list[i].serial /\ x.holder = list[i].holder
        /\ x.state = "skipped"
    BY <1>4 DEF IsEntry
  <2> HIDE DEF over, new
  <2>4. IsHand(h) /\ h.current = hand[d].current /\ h.list = new /\ h.position = 0
    BY DEF IsHand
  <2> HIDE DEF h, x, i
  <2>5. Told(x, said')
    BY <2>3 DEF Told
  <2>6. resumable' = [e \in BtDesks |-> resumable'[e]]
    BY <2>1
  <2> QED BY <1>5, <2>1, <2>2, <2>3, <2>4, <2>5, <2>6
<1>7. CASE FoldIn(d) /\ hand[d].position # 0
  <2> DEFINE outcome(r) == OutcomeOf(r)
             new(r) == [list EXCEPT ![i].state = outcome(r), ![i].run = r]
             x(r) == [list[i] EXCEPT !.state = outcome(r), !.run = r]
             over(r) == IsComplete(new(r))
             g(r) == [hand[d] EXCEPT !.run = r]
             h(r) == [g(r) EXCEPT !.list = new(r), !.position = 0, !.over = over(r)]
  <2>1. PICK r : /\ Writing(box, new(r)[i]) /\ Hands(d, h(r))
                 /\ said' = said \cup {<<new(r)[i].state, new(r)[i].serial, new(r)[i].holder>>}
                 /\ resumable' = resumable \/ Reloads(d, box')
    BY <1>7, Zenon DEF FoldIn, Settled
  <2>2. outcome(r) \in {"done", "failed"}
    BY Zenon DEF OutcomeOf
  <2> HIDE DEF outcome
  <2>3. new(r) = [list EXCEPT ![i] = x(r)] /\ new(r)[i] = x(r)
    BY <1>3, <1>4
  <2>4. /\ IsEntry(x(r)) /\ x(r).at = i /\ x(r).serial = list[i].serial
        /\ x(r).holder = list[i].holder /\ x(r).state \in {"done", "failed"}
    BY <1>4, <2>2 DEF IsEntry
  <2> HIDE DEF over, new
  <2>5. IsHand(h(r)) /\ h(r).current = hand[d].current /\ h(r).list = new(r) /\ h(r).position = 0
    BY DEF IsHand
  <2> HIDE DEF h, x, i
  <2>6. Told(x(r), said') /\ said \subseteq said'
    BY <2>1, <2>3 DEF Told
  <2>7. resumable' = [e \in BtDesks |-> resumable'[e]]
    BY <2>1 DEF Reloads
  <2>8. x(r).state # "pending"
    BY <2>4
  <2> QED BY <1>5, <2>1, <2>3, <2>4, <2>5, <2>6, <2>7, <2>8
<1> QED BY <1>6, <1>7

LEMMA BatchShape ==
  ASSUME BoxInv, SoundLists, StockIsWritten, BatchNext
  PROVE Handy' /\ \E d \in BtDesks : Shapes(d)
<1>1. PICK d \in BtDesks :
        \/ \E list \in Lists \cup {<<>>}, version \in BtVersions : StartBatch(d, list, version)
        \/ \E k \in Boxed : Present(d, k) \/ TypeAnother(d, k)
        \/ \E version \in BtVersions : SelectAnother(d, version)
        \/ StartsOver(d) \/ FoldIn(d) \/ SkipKey(d) \/ FinishBatch(d) \/ GenerateTerms(d)
        \/ CloseBatch(d) \/ ResumeBatch(d) \/ RefreshBatches(d) \/ BatchProgramEnds(d)
  BY DEF BatchNext
<1>2. Handy
  BY DEF BoxInv
<1> QED BY <1>1, <1>2, IdleShape, PutDownShape, StartShape, ResumeShape, PresentShape, SettleShape,
    Zenon
        DEF Shapes

(***************************************************************************)
(* What is stored stays a list, and the list in hand ahead of it.           *)
(***************************************************************************)

LEMMA AheadTells ==
  ASSUME NEW m, NEW f, NEW list, Apart(list, m), \A i \in 1..m : Behind(f[i], list[i])
  PROVE  /\ Apart(f, m)
         /\ \A i \in 1..m : Told(list[i], said) => Told(f[i], said)
         /\ \A i \in 1..m : Told(list[i], said') => Told(f[i], said')
BY DEF Apart, Behind, Told

LEMMA StoredIn ==
  ASSUME NEW m, NEW f, InPlace(f, m), IsBox(box), box.rows = RowsOf(f),
         NEW i \in 1..m, NEW x, IsEntry(x), x.at = i
  PROVE  LET g == [f EXCEPT ![i] = x]
         IN /\ InPlace(g, m) /\ Written(box, x).rows = RowsOf(g) /\ Written(box, x).shape = box.shape
            /\ \A j \in 1..m : g[j] = IF j = i THEN x ELSE f[j]
<1> DEFINE g == [f EXCEPT ![i] = x]
<1>1. \A j \in 1..m : g[j] = IF j = i THEN x ELSE f[j]
  BY DEF InPlace
<1>2. InPlace(g, m)
  BY DEF InPlace
<1>3. RowsOf(f) = {f[j] : j \in 1..m} /\ RowsOf(g) = {g[j] : j \in 1..m}
  BY <1>2 DEF RowsOf, InPlace
<1>4. {r \in box.rows : r.at # i} \cup {x} = RowsOf(g)
  <2>1. \A j \in 1..m : f[j].at = j
    BY DEF InPlace
  <2> HIDE DEF g
  <2> QED BY <1>1, <1>3, <2>1
<1>5. Written(box, x).rows = {r \in box.rows : r.at # i} \cup {x} /\ Written(box, x).shape = box.shape
  BY DEF Written, IsBox
<1> QED BY <1>1, <1>2, <1>4, <1>5

LEMMA StoredAfter ==
  ASSUME NEW m, NEW f, InPlace(f, m), IsBox(box), box.rows = RowsOf(f),
         NEW x, IsEntry(x), x.at = m + 1
  PROVE  LET g == [j \in 1..(m + 1) |-> IF j = m + 1 THEN x ELSE f[j]]
         IN /\ InPlace(g, m + 1) /\ Written(box, x).rows = RowsOf(g)
            /\ Written(box, x).shape = box.shape
<1> DEFINE g == [j \in 1..(m + 1) |-> IF j = m + 1 THEN x ELSE f[j]]
<1>1. m \in Nat /\ \A j \in 1..m : IsEntry(f[j]) /\ f[j].at = j
  BY DEF InPlace
<1>2. InPlace(g, m + 1)
  BY <1>1 DEF InPlace
<1>3. RowsOf(f) = {f[j] : j \in 1..m} /\ RowsOf(g) = {g[j] : j \in 1..(m + 1)}
  BY DEF RowsOf, InPlace
<1>4. {r \in box.rows : r.at # m + 1} \cup {x} = RowsOf(g)
  BY <1>1, <1>3
<1>5. Written(box, x).rows = {r \in box.rows : r.at # m + 1} \cup {x} /\ Written(box, x).shape = box.shape
  BY DEF Written, IsBox
<1> QED BY <1>2, <1>4, <1>5

SettledStay == \A r \in box.rows : r.state # "pending" => r \in box'.rows
KeysStay == \A r \in box.rows, s \in box'.rows :
  r.at = s.at /\ r.serial # NoSerial => s.serial = r.serial
RowsStay == SettledStay /\ KeysStay

LEMMA OneAtAPosition ==
  ASSUME NEW m, NEW f, InPlace(f, m), NEW r \in RowsOf(f), NEW s \in RowsOf(f), r.at = s.at
  PROVE  r = s
BY DEF InPlace, RowsOf

LEMMA SameRowsStay ==
  ASSUME NEW m, NEW f, Stored(f, m), box'.rows = box.rows
  PROVE  RowsStay
<1>1. SettledStay
  BY DEF SettledStay
<1>2. KeysStay
  BY OneAtAPosition DEF Stored, KeysStay
<1> QED BY <1>1, <1>2 DEF RowsStay

(* A desk that has written is as it was, with the list it wrote from.       *)
LEMMA AfterWriting ==
  ASSUME NEW d \in BtDesks, NEW m, NEW g, InPlace(g, m), box'.rows = RowsOf(g),
         hand'[d].current = hand[d].current, hand[d].current # NoBox,
         hand'[d].current.shape = box'.shape,
         InPlace(hand'[d].list, m), Apart(hand'[d].list, m),
         \A i \in 1..m : Told(hand'[d].list[i], said') /\ Behind(g[i], hand'[d].list[i]),
         AtPending(d, m)'
  PROVE  Stored(g, m)' /\ DeskOK(d, g, m)'
<1>1. Apart(g, m) /\ \A i \in 1..m : Told(g[i], said')
  BY AheadTells
<1>2. Stored(g, m)'
  BY <1>1 DEF Stored
<1>3. Worked(d, g, m)'
  BY DEF Worked
<1> QED BY <1>2, <1>3 DEF DeskOK

(* A row in hand is replaced, and written or refused.                       *)
LEMMA ReplacedKeeps ==
  ASSUME IsBox(box), NEW d \in BtDesks, NEW m, NEW f, Stored(f, m), Worked(d, f, m),
         hand[d].current # NoBox, hand'[d].current = hand[d].current, said \subseteq said',
         NEW i \in 1..m, NEW x, IsEntry(x), x.at = i, Told(x, said'), Stores(x),
         hand[d].list[i].state = "pending", hand[d].list[i].serial \in {NoSerial, x.serial},
         \A j \in 1..m : j # i /\ x.serial # NoSerial => hand[d].list[j].serial # x.serial,
         hand'[d].list = [hand[d].list EXCEPT ![i] = x],
         AtPending(d, m)'
  PROVE  (\E g : Stored(g, m)' /\ DeskOK(d, g, m)') /\ RowsStay
<1> DEFINE list == hand[d].list
           new == [list EXCEPT ![i] = x]
           g == [f EXCEPT ![i] = x]
<1>1. InPlace(f, m) /\ box.rows = RowsOf(f) /\ InPlace(list, m) /\ Apart(list, m)
  BY DEF Stored, Worked
<1>2. \A j \in 1..m : Told(list[j], said) /\ Behind(f[j], list[j])
  BY DEF Worked
<1>3. InPlace(new, m) /\ \A j \in 1..m : new[j] = IF j = i THEN x ELSE list[j]
  BY <1>1 DEF InPlace
<1>4. /\ InPlace(g, m) /\ Written(box, x).rows = RowsOf(g) /\ Written(box, x).shape = box.shape
      /\ \A j \in 1..m : g[j] = IF j = i THEN x ELSE f[j]
  BY <1>1, StoredIn
<1>5. hand'[d].list = new
  OBVIOUS
<1>6. list[i].state = "pending" /\ list[i].serial \in {NoSerial, x.serial}
  OBVIOUS
<1>7. \A j \in 1..m : j # i /\ x.serial # NoSerial => list[j].serial # x.serial
  OBVIOUS
<1> HIDE DEF list, new, g
<1>8. Apart(new, m)
  BY <1>1, <1>3, <1>7 DEF Apart
<1>9. \A j \in 1..m : Told(new[j], said')
  BY <1>2, <1>3 DEF Told
<1>10. hand'[d].current.shape = box.shape
  BY DEF Worked
<1>11. CASE box' = Written(box, x)
  <2>1. \A j \in 1..m : Behind(g[j], new[j])
    BY <1>2, <1>3, <1>4 DEF Behind
  <2>2. Stored(g, m)' /\ DeskOK(d, g, m)'
    BY <1>3, <1>4, <1>5, <1>8, <1>9, <1>10, <1>11, <2>1, AfterWriting
  <2>3. SettledStay
    <3>1. f[i].state = "pending"
      BY <1>2, <1>6 DEF Behind
    <3>2. DOMAIN f = 1..m /\ DOMAIN g = 1..m
      BY <1>1, <1>4 DEF InPlace
    <3> QED BY <1>1, <1>4, <1>11, <3>1, <3>2 DEF SettledStay, RowsOf
  <2>4. KeysStay
    <3>1. \A j \in 1..m : f[j].serial # NoSerial => g[j].serial = f[j].serial
      BY <1>2, <1>4, <1>6 DEF Behind
    <3>2. /\ DOMAIN f = 1..m /\ DOMAIN g = 1..m
          /\ \A j \in 1..m : f[j].at = j /\ g[j].at = j
      BY <1>1, <1>4 DEF InPlace
    <3> QED BY <1>1, <1>4, <1>11, <3>1, <3>2 DEF KeysStay, RowsOf
  <2> QED BY <2>2, <2>3, <2>4 DEF RowsStay
<1>12. CASE box' = box
  <2>1. \A j \in 1..m : Behind(f[j], new[j])
    BY <1>2, <1>3, <1>6 DEF Behind
  <2>2. Stored(f, m)' /\ DeskOK(d, f, m)'
    BY <1>1, <1>3, <1>5, <1>8, <1>9, <1>10, <1>12, <2>1, AfterWriting
  <2>3. RowsStay
    BY <1>12, SameRowsStay
  <2> QED BY <2>2, <2>3
<1> QED BY <1>11, <1>12 DEF Stores

(* A row is added after the last, and written.                              *)
LEMMA AppendedKeeps ==
  ASSUME IsBox(box), NEW d \in BtDesks, NEW m, NEW f, Stored(f, m), Worked(d, f, m),
         hand[d].current # NoBox, hand'[d].current = hand[d].current, said' = said,
         NEW x, IsEntry(x), x.at = m + 1, x.state = "pending", box' = Written(box, x),
         \A j \in 1..m : hand[d].list[j].serial # x.serial,
         hand'[d].list = [j \in 1..(m + 1) |-> IF j = m + 1 THEN x ELSE hand[d].list[j]],
         hand'[d].position \in {m + 1, hand[d].position}
  PROVE  (\E g : Stored(g, m + 1)' /\ DeskOK(d, g, m + 1)') /\ RowsStay
<1> DEFINE list == hand[d].list
           p == hand[d].position
           new == [j \in 1..(m + 1) |-> IF j = m + 1 THEN x ELSE list[j]]
           g == [j \in 1..(m + 1) |-> IF j = m + 1 THEN x ELSE f[j]]
<1>1. InPlace(f, m) /\ box.rows = RowsOf(f) /\ InPlace(list, m) /\ Apart(list, m)
  BY DEF Stored, Worked
<1>2. \A j \in 1..m : Told(list[j], said) /\ Behind(f[j], list[j])
  BY DEF Worked
<1>3. hand[d].current.shape = box.shape /\ (p # 0 => p \in 1..m /\ list[p].state = "pending")
  BY DEF Worked, AtPending
<1>4. InPlace(g, m + 1) /\ box'.rows = RowsOf(g) /\ box'.shape = box.shape
  BY <1>1, StoredAfter
<1>5. m \in Nat /\ \A j \in 1..(m + 1) : j \in 1..m \/ j = m + 1
  BY <1>1 DEF InPlace
<1>6. /\ \A j \in 1..m : j \in 1..(m + 1) /\ new[j] = list[j] /\ g[j] = f[j]
      /\ m + 1 \in 1..(m + 1) /\ new[m + 1] = x /\ g[m + 1] = x
  BY <1>5
<1>7. new = [j \in 1..(m + 1) |-> new[j]] /\ hand'[d].list = new
  OBVIOUS
<1>8. DOMAIN f = 1..m /\ DOMAIN g = 1..(m + 1)
  BY <1>1 DEF InPlace
<1>9. \A j \in 1..m : list[j].serial # x.serial
  OBVIOUS
<1>10. hand'[d].position \in {m + 1, p}
  OBVIOUS
<1> HIDE DEF list, new, g, p
<1>11. InPlace(new, m + 1)
  <2>1. \A j \in 1..m : IsEntry(list[j]) /\ list[j].at = j
    BY <1>1 DEF InPlace
  <2>2. \A j \in 1..(m + 1) : IsEntry(new[j]) /\ new[j].at = j
    BY <1>5, <1>6, <2>1
  <2> QED BY <1>5, <1>7, <2>2 DEF InPlace
<1>12. Apart(new, m + 1)
  <2>1. \A i, j \in 1..m : list[i].serial = list[j].serial /\ list[i].serial # NoSerial => i = j
    BY <1>1 DEF Apart
  <2> QED BY <1>5, <1>6, <1>9, <2>1 DEF Apart
<1>13. \A j \in 1..(m + 1) : Told(new[j], said') /\ Behind(g[j], new[j])
  <2>1. Told(x, said') /\ Behind(x, x)
    BY DEF Told, Behind
  <2> QED BY <1>2, <1>5, <1>6, <2>1
<1>14. AtPending(d, m + 1)'
  BY <1>3, <1>6, <1>7, <1>10 DEF AtPending
<1>15. Stored(g, m + 1)' /\ DeskOK(d, g, m + 1)'
  BY <1>3, <1>4, <1>7, <1>11, <1>12, <1>13, <1>14, AfterWriting
<1>16. SettledStay
  BY <1>1, <1>4, <1>6, <1>8 DEF SettledStay, RowsOf
<1>17. KeysStay
  <2>1. \A j \in 1..m : f[j].at = j
    BY <1>1 DEF InPlace
  <2>2. \A j \in 1..(m + 1) : g[j].at = j
    BY <1>4 DEF InPlace
  <2> QED BY <1>1, <1>4, <1>6, <1>8, <2>1, <2>2 DEF KeysStay, RowsOf
<1> QED BY <1>15, <1>16, <1>17 DEF RowsStay

LEMMA PresentKeeps ==
  ASSUME IsBox(box), StockIsWritten, NEW d \in BtDesks, NEW m, NEW f, Stored(f, m), DeskOK(d, f, m),
         Presents(d)
  PROVE  (\E n, g : Stored(g, n)' /\ DeskOK(d, g, n)') /\ RowsStay
<1> DEFINE list == hand[d].list
<1>1. Worked(d, f, m) /\ hand[d].current # NoBox /\ hand'[d].current = hand[d].current /\ said' = said
  BY DEF Presents, DeskOK
<1>2. InPlace(list, m) /\ hand[d].current.shape = box.shape
  BY <1>1 DEF Worked
<1>3. PICK k \in Boxed : \E i \in Places(list, hand[d].current.shape, k) :
          /\ Stores(Given(list, i, k)[i]) /\ hand'[d].list = Given(list, i, k)
          /\ hand'[d].position \in {i, hand[d].position}
  BY DEF Presents
<1>4. PICK i :
          /\ i \in Places(list, box.shape, k)
          /\ Stores(Given(list, i, k)[i]) /\ hand'[d].list = Given(list, i, k)
          /\ hand'[d].position \in {i, hand[d].position}
  BY <1>2, <1>3
<1>5. /\ m \in Nat /\ DOMAIN list = 1..m /\ list = [j \in 1..m |-> list[j]]
      /\ \A j \in 1..m : IsEntry(list[j]) /\ list[j].at = j
  BY <1>2 DEF InPlace
<1>6. k # NoSerial
  BY DEF StockIsWritten
<1>7. hand[d].position # 0 =>
        hand[d].position \in 1..m /\ list[hand[d].position].state = "pending"
  BY <1>1 DEF Worked, AtPending
<1>8. \/ /\ i \in 1..m /\ list[i].state = "pending"
         /\ \/ list[i].serial = k
            \/ list[i].serial = NoSerial /\ \A j \in 1..m : list[j].serial # k
      \/ /\ i = m + 1 /\ box.shape = "stock" /\ \A j \in 1..m : list[j].serial # k
  <2> DEFINE own == {j \in DOMAIN list : list[j].serial = k}
             free == {j \in Open(list) : list[j].serial = NoSerial}
  <2>1. Open(list) = {j \in 1..m : list[j].state = "pending"}
    BY <1>5 DEF Open
  <2>2. Len(list) = m
    BY <1>5, Longer
  <2>3. free \subseteq Nat /\ (free # {} => Min(free) \in free)
    <3>1. free \subseteq Nat
      BY <1>5, <2>1
    <3> QED BY <3>1, LeastNumber
  <2>4. i \in (IF own # {} THEN {list[j].at : j \in own \cap Open(list)}
               ELSE IF free # {} THEN {Min(free)}
               ELSE IF box.shape = "stock" THEN {Len(list) + 1} ELSE {})
    BY <1>4, Zenon DEF Places
  <2>5. CASE own # {}
    <3>1. i \in {list[j].at : j \in own \cap Open(list)}
      BY <2>4, <2>5
    <3> QED BY <1>5, <2>1, <3>1
  <2>6. CASE own = {} /\ free # {}
    <3>1. i \in free
      BY <2>3, <2>4, <2>6
    <3> QED BY <1>5, <2>1, <2>6, <3>1
  <2>7. CASE own = {} /\ free = {}
    <3>1. box.shape = "stock" /\ i = m + 1
      BY <2>2, <2>4, <2>7
    <3> QED BY <1>5, <2>7, <3>1
  <2> QED BY <2>5, <2>6, <2>7
<1>9. CASE i \in 1..m /\ list[i].state = "pending"
  <2>1. PICK x : x = [list[i] EXCEPT !.serial = k]
    OBVIOUS
  <2> DEFINE new == [list EXCEPT ![i] = x]
  <2>2. Given(list, i, k) = new /\ new[i] = x
    BY <1>5, <1>9, <2>1 DEF Given
  <2>3. IsEntry(x) /\ x.at = i /\ x.serial = k /\ x.state = "pending"
    BY <1>5, <1>9, <2>1 DEF IsEntry
  <2>4. \A j \in 1..m : new[j] = IF j = i THEN x ELSE list[j]
    BY <1>5
  <2>5. /\ list[i].serial \in {NoSerial, k}
        /\ \A j \in 1..m : j # i => list[j].serial # k
    <3>1. Apart(list, m) /\ i # m + 1
      BY <1>1, <1>5, <1>9 DEF Worked
    <3> HIDE DEF list
    <3> QED BY <1>6, <1>8, <1>9, <3>1 DEF Apart
  <2>6. Stores(x) /\ hand'[d].list = new
    BY <1>4, <2>2
  <2> HIDE DEF new, list
  <2>7. AtPending(d, m)'
    BY <1>4, <1>7, <1>9, <2>3, <2>4, <2>6 DEF AtPending
  <2>8. Told(x, said')
    BY <2>3 DEF Told
  <2>9. hand'[d].list = [hand[d].list EXCEPT ![i] = x]
    BY <2>6 DEF new, list
  <2>10. /\ hand[d].list[i].state = "pending" /\ hand[d].list[i].serial \in {NoSerial, x.serial}
        /\ \A j \in 1..m : j # i /\ x.serial # NoSerial => hand[d].list[j].serial # x.serial
    BY <1>9, <2>3, <2>5 DEF list
  <2>11. (\E g : Stored(g, m)' /\ DeskOK(d, g, m)') /\ RowsStay
    BY <1>1, <1>9, <2>3, <2>6, <2>7, <2>8, <2>9, <2>10, ReplacedKeeps
  <2> QED BY <2>11
<1>10. CASE i = m + 1 /\ box.shape = "stock" /\ \A j \in 1..m : list[j].serial # k
  <2> DEFINE x == [WaitingRow(i) EXCEPT !.serial = k]
             new == [j \in 1..(m + 1) |-> IF j = m + 1 THEN x ELSE list[j]]
  <2>1. Given(list, i, k) = Append(list, x)
    BY <1>5, <1>10 DEF Given
  <2>2. Append(list, x) = new
    BY <1>5, Longer
  <2>3. new[i] = x
    BY <1>5, <1>10
  <2>4. IsEntry(x) /\ x.at = m + 1 /\ x.serial = k /\ x.state = "pending"
    BY <1>10 DEF WaitingRow, IsEntry
  <2>5. Stores(x) /\ hand'[d].list = new
    BY <1>4, <2>1, <2>2, <2>3
  <2>6. box' = Written(box, x)
    BY <1>10, <2>5 DEF Stores
  <2>7. hand'[d].position \in {m + 1, hand[d].position}
    BY <1>4, <1>10
  <2> HIDE DEF x
  <2>8. \A j \in 1..m : hand[d].list[j].serial # x.serial
    BY <1>10, <2>4
  <2>9. hand'[d].list = [j \in 1..(m + 1) |-> IF j = m + 1 THEN x ELSE hand[d].list[j]]
    BY <2>5
  <2>10. (\E g : Stored(g, m + 1)' /\ DeskOK(d, g, m + 1)') /\ RowsStay
    BY <1>1, <2>4, <2>6, <2>7, <2>8, <2>9, AppendedKeeps
  <2> QED BY <2>10
<1> QED BY <1>8, <1>9, <1>10

LEMMA SettleKeeps ==
  ASSUME IsBox(box), NEW d \in BtDesks, NEW m, NEW f, Stored(f, m), DeskOK(d, f, m), Settles(d)
  PROVE  (\E g : Stored(g, m)' /\ DeskOK(d, g, m)') /\ RowsStay
<1> DEFINE i == hand[d].position
           list == hand[d].list
<1>1. /\ Worked(d, f, m) /\ hand[d].current # NoBox /\ hand'[d].current = hand[d].current
      /\ said \subseteq said' /\ i # 0 /\ hand'[d].position = 0
  BY DEF Settles, DeskOK
<1>2. PICK x : /\ IsEntry(x) /\ x.at = i /\ x.serial = list[i].serial
               /\ Told(x, said') /\ hand'[d].list = [list EXCEPT ![i] = x] /\ Stores(x)
  BY DEF Settles
<1>3. i \in 1..m /\ list[i].state = "pending" /\ Apart(list, m)
  BY <1>1 DEF Worked, AtPending
<1>4. \A j \in 1..m : j # i /\ x.serial # NoSerial => list[j].serial # x.serial
  BY <1>2, <1>3 DEF Apart
<1>5. AtPending(d, m)'
  BY <1>1 DEF AtPending
<1> QED BY <1>1, <1>2, <1>3, <1>4, <1>5, ReplacedKeeps

LEMMA TakeKeeps ==
  ASSUME NEW d \in BtDesks, NEW m, NEW f, Stored(f, m), Takes(d)
  PROVE  (\E n, g : Stored(g, n)' /\ DeskOK(d, g, n)') /\ RowsStay
<1>1. /\ hand'[d].current # NoBox /\ hand'[d].current.shape = box'.shape
      /\ hand'[d].list = InOrder(box'.rows) /\ hand'[d].position = 0 /\ said' = said
  BY DEF Takes
<1>2. ASSUME NEW n, NEW g, InPlace(g, n), Apart(g, n), box'.rows = RowsOf(g),
             \A i \in 1..n : Told(g[i], said)
      PROVE  Stored(g, n)' /\ DeskOK(d, g, n)'
  <2>1. hand'[d].list = g
    BY <1>1, <1>2, InOrderIs
  <2>2. Stored(g, n)'
    BY <1>1, <1>2 DEF Stored
  <2>3. Worked(d, g, n)'
    BY <1>1, <1>2, <2>1 DEF Worked, AtPending, Behind
  <2> QED BY <1>1, <2>2, <2>3 DEF DeskOK
<1>3. CASE box' = box
  <2>1. RowsStay
    BY <1>3, SameRowsStay
  <2> QED BY <1>2, <1>3, <2>1 DEF Stored
<1>4. CASE \E n, g : /\ InPlace(g, n) /\ Apart(g, n) /\ box'.rows = RowsOf(g) /\ box = NoBox
                     /\ \A i \in 1..n : g[i].state = "pending"
  <2>1. PICK n, g : /\ InPlace(g, n) /\ Apart(g, n) /\ box'.rows = RowsOf(g) /\ box = NoBox
                    /\ \A i \in 1..n : g[i].state = "pending"
    BY <1>4
  <2>2. \A i \in 1..n : Told(g[i], said)
    BY <2>1 DEF Told
  <2>3. RowsStay
    BY <2>1 DEF RowsStay, SettledStay, KeysStay, NoBox
  <2> QED BY <1>2, <2>1, <2>2, <2>3
<1> QED BY <1>3, <1>4 DEF Takes

LEMMA IdleKeeps ==
  ASSUME NEW d \in BtDesks, NEW m, NEW f, Stored(f, m), DeskOK(d, f, m), Idles(d) \/ PutsDown(d)
  PROVE  Stored(f, m)' /\ DeskOK(d, f, m)' /\ RowsStay
<1>1. box'.rows = box.rows /\ box'.shape = box.shape /\ said \subseteq said'
      /\ resumable'[d] \in {resumable[d], NoBox, box}
  BY DEF Idles, PutsDown
<1>2. \A x : Told(x, said) => Told(x, said')
  BY <1>1 DEF Told
<1>3. Stored(f, m)' /\ RowsStay
  <2>1. Stored(f, m)'
    BY <1>1, <1>2 DEF Stored
  <2> QED BY <1>1, <2>1, SameRowsStay
<1>4. CASE hand'[d].current = NoBox
  <2>1. hand'[d].position = 0 /\ \/ resumable'[d] \in {NoBox, box}
                                 \/ PutDown(d) /\ resumable'[d] = resumable[d]
    <3>1. CASE PutsDown(d)
      BY <3>1 DEF PutsDown
    <3>2. CASE Idles(d)
      <4>1. PutDown(d) /\ hand'[d].position = hand[d].position
        BY <1>4, <3>2 DEF DeskOK, Idles, SameHand
      <4> QED BY <1>1, <4>1 DEF PutDown
    <3> QED BY <3>1, <3>2
  <2>2. resumable'[d] # NoBox => resumable'[d].rows = box'.rows /\ resumable'[d].shape = box'.shape
    BY <1>1, <2>1 DEF PutDown
  <2>3. PutDown(d)'
    BY <2>1, <2>2 DEF PutDown
  <2> QED BY <1>3, <1>4, <2>3 DEF DeskOK
<1>5. CASE hand'[d].current # NoBox
  <2>1. Worked(d, f, m) /\ SameHand(d)
    BY <1>5 DEF DeskOK, Idles, PutsDown, SameHand
  <2>2. Worked(d, f, m)'
    BY <1>1, <1>2, <2>1 DEF Worked, AtPending, SameHand
  <2> QED BY <1>3, <1>5, <2>2 DEF DeskOK
<1> QED BY <1>3, <1>4, <1>5

(* A term is only said of a key that is done.                               *)
LEMMA SaidKeeps ==
  ASSUME BoxInv, BatchNext
  PROVE  SaidOK'
<1>1. PICK d \in BtDesks :
        \/ \E list \in Lists \cup {<<>>}, version \in BtVersions : StartBatch(d, list, version)
        \/ \E k \in Boxed : Present(d, k) \/ TypeAnother(d, k)
        \/ \E version \in BtVersions : SelectAnother(d, version)
        \/ StartsOver(d) \/ FoldIn(d) \/ SkipKey(d) \/ FinishBatch(d) \/ GenerateTerms(d)
        \/ CloseBatch(d) \/ ResumeBatch(d) \/ RefreshBatches(d) \/ BatchProgramEnds(d)
  BY DEF BatchNext
<1>2. ASSUME said' = said PROVE SaidOK'
  BY <1>2 DEF BoxInv, SaidOK, TermsAreOfDone
<1>3. ASSUME NEW a, NEW b, NEW c, said' = said \cup {<<a, b, c>>}, a # "term" PROVE SaidOK'
  BY <1>3 DEF BoxInv, SaidOK, TermsAreOfDone
<1>4. ASSUME FoldIn(d) PROVE SaidOK'
  <2>1. CASE hand[d].position = 0
    BY <1>2, <1>4, <2>1, Zenon DEF FoldIn
  <2>2. CASE hand[d].position # 0
    <3>1. hand[d].current # NoBox
      BY <2>2 DEF BoxInv, DeskOK, PutDown
    <3>2. PICK m : InPlace(hand[d].list, m) /\ hand[d].position \in 1..m
      BY <2>2, <3>1 DEF BoxInv, DeskOK, Worked, AtPending
    <3> DEFINE list == hand[d].list
               i == hand[d].position
               new(r) == Settled(list, i, r)
    <3>3. PICK r : said' = said \cup {<<new(r)[i].state, new(r)[i].serial, new(r)[i].holder>>}
      BY <1>4, <2>2, Zenon DEF FoldIn
    <3>4. new(r)[i].state = OutcomeOf(r)
      BY <3>2 DEF Settled, InPlace, IsEntry
    <3>5. OutcomeOf(r) # "term"
      BY Zenon DEF OutcomeOf
    <3> HIDE DEF new
    <3> QED BY <1>3, <3>3, <3>4, <3>5
  <2> QED BY <2>1, <2>2
<1>5. ASSUME GenerateTerms(d) PROVE SaidOK'
  <2> DEFINE list == hand[d].list
  <2>1. /\ InHand(d)
        /\ said' = said \cup {<<"term", list[i].serial, list[i].holder>> : i \in PlannedTerms(list)}
    BY <1>5 DEF GenerateTerms
  <2>2. PICK m : InPlace(list, m) /\ \A i \in 1..m : Told(list[i], said)
    BY <2>1 DEF InHand, BoxInv, DeskOK, Worked
  <2>3. \A i \in PlannedTerms(list) : <<"done", list[i].serial, list[i].holder>> \in said
    BY <2>2 DEF PlannedTerms, InPlace, Told
  <2> HIDE DEF list
  <2> QED BY <2>1, <2>3 DEF BoxInv, SaidOK, TermsAreOfDone
<1>6. ASSUME FinishBatch(d) PROVE SaidOK'
  <2>1. said' = said \cup {<<"finished", NoSerial, NoSerial>>}
    BY <1>6 DEF FinishBatch
  <2> QED BY <1>3, <2>1
<1>7. \/ said' = said \/ FoldIn(d) \/ GenerateTerms(d) \/ FinishBatch(d)
  BY <1>1, Zenon DEF StartBatch, Present, TypeAnother, SelectAnother, StartsOver, SkipKey,
      CloseBatch,
      ResumeBatch, RefreshBatches, BatchProgramEnds
<1> QED BY <1>2, <1>4, <1>5, <1>6, <1>7

LEMMA BoxKeeps ==
  ASSUME BoxInv, OneBtDesk, SoundLists, StockIsWritten, [BatchNext]_batchVars
  PROVE  BoxInv' /\ RowsStay
<1>1. CASE BatchNext
  <2>1. Handy' /\ \E d \in BtDesks : Shapes(d)
    BY <1>1, BatchShape
  <2>2. PICK d \in BtDesks : Shapes(d)
    BY <2>1
  <2>3. PICK m, f : Stored(f, m) /\ \A e \in BtDesks : DeskOK(e, f, m)
    BY DEF BoxInv
  <2>4. Stored(f, m) /\ DeskOK(d, f, m) /\ IsBox(box)
    BY <2>3 DEF BoxInv, Handy
  <2>5. (\E n, g : Stored(g, n)' /\ DeskOK(d, g, n)') /\ RowsStay
    BY <2>2, <2>4, IdleKeeps, TakeKeeps, PresentKeeps, SettleKeeps DEF Shapes
  <2>6. PICK n, g : Stored(g, n)' /\ DeskOK(d, g, n)'
    BY <2>5
  <2>7. \A e \in BtDesks : e = d
    BY DEF OneBtDesk
  <2>8. \A e \in BtDesks : DeskOK(e, g, n)'
    BY <2>6, <2>7
  <2>9. SaidOK'
    BY <1>1, SaidKeeps
  <2> QED BY <2>1, <2>5, <2>6, <2>8, <2>9 DEF BoxInv
<1>2. CASE UNCHANGED batchVars
  <2>1. BoxInv'
    BY <1>2 DEF batchVars, BoxInv, Handy, SaidOK, TermsAreOfDone, Stored, DeskOK, Worked, AtPending,
                PutDown
  <2>2. RowsStay
    BY <1>2, SameRowsStay DEF batchVars, BoxInv
  <2> QED BY <2>1, <2>2
<1> QED BY <1>1, <1>2

LEMMA BoxBegins == BatchInit => BoxInv
<1> SUFFICES ASSUME BatchInit PROVE BoxInv
  OBVIOUS
<1>1. Handy
  BY NoHandIs DEF BatchInit, Handy, IsBox, NoBox
<1>2. SaidOK
  BY DEF BatchInit, SaidOK, TermsAreOfDone
<1> DEFINE f == [i \in 1..0 |-> i]
<1>3. Stored(f, 0)
  BY DEF BatchInit, NoBox, Stored, InPlace, Apart, RowsOf
<1>4. \A d \in BtDesks : DeskOK(d, f, 0)
  BY NoHandIs DEF BatchInit, DeskOK, PutDown
<1> HIDE DEF f
<1> QED BY <1>1, <1>2, <1>3, <1>4 DEF BoxInv

LEMMA BoxInvSays == BoxInv => BoxIsTrue
<1> SUFFICES ASSUME BoxInv PROVE KeyOnce
  BY DEF BoxInv, SaidOK, BoxIsTrue
<1>1. PICK m, f : InPlace(f, m) /\ box.rows = RowsOf(f) /\ Apart(f, m)
  BY DEF BoxInv, Stored
<1> QED BY <1>1 DEF KeyOnce, RowsOf, InPlace, Apart

(* On one workstation no key has two positions in the box, and a term is    *)
(* only generated for a key that was done (present, documents.rs).          *)
THEOREM BoxIsTrueAtOneDesk ==
  ASSUME OneBtDesk, SoundLists, StockIsWritten
  PROVE  BatchSpec => []BoxIsTrue
<1>1. BoxInv /\ [BatchNext]_batchVars => BoxInv'
  BY BoxKeeps
<1> QED BY <1>1, BoxBegins, BoxInvSays, PTL DEF BatchSpec

(* On one workstation a row that is settled stays as it is: resumed and     *)
(* begun again, nothing is written over it (present).                       *)
THEOREM BoxStandsAtOneDesk ==
  ASSUME OneBtDesk, SoundLists, StockIsWritten
  PROVE  BatchSpec => BoxStands
<1>1. BoxInv /\ [BatchNext]_batchVars => BoxInv'
  BY BoxKeeps
<1>2. BoxInv /\ [BatchNext]_batchVars
        => [\A r \in box.rows : r.state # "pending" => r \in box'.rows]_batchVars
  BY BoxKeeps DEF RowsStay, SettledStay
<1> QED BY <1>1, <1>2, BoxBegins, PTL DEF BatchSpec, BoxStands

(* On one workstation a position that has a key stored keeps it: a resumed  *)
(* batch lines up with what was written (docs/data-model.md).               *)
THEOREM PositionIsStableAtOneDesk ==
  ASSUME OneBtDesk, SoundLists, StockIsWritten
  PROVE  BatchSpec => PositionIsStable
<1>1. BoxInv /\ [BatchNext]_batchVars => BoxInv'
  BY BoxKeeps
<1>2. BoxInv /\ [BatchNext]_batchVars => KeysStay
  BY BoxKeeps DEF RowsStay
<1>3. BatchSpec => [][KeysStay]_batchVars
  BY <1>1, <1>2, BoxBegins, PTL DEF BatchSpec
<1> QED BY <1>3 DEF KeysStay, PositionIsStable
-----------------------------------------------------------------------------
(***************************************************************************)
(* Key rows and cases (Casework).  A desk's copy of a row is of the same    *)
(* save as the row, and then the row, or of an earlier one.                 *)
(***************************************************************************)

IsClerk(c) == {"rows", "person", "draft", "form", "panel", "pair"} \subseteq DOMAIN c
AsRead(rows) == \A k \in Filed :
  /\ rows[k].at \in Nat /\ rows[k].at <= row[k].at
  /\ rows[k].at = row[k].at => rows[k].text = row[k].text
RowsStamped ==
  /\ edits \in Nat /\ row = [k \in Filed |-> row[k]]
  /\ \A k \in Filed : /\ {"text", "at", "status"} \subseteq DOMAIN row[k]
                      /\ row[k].at \in 0..edits
ClerksRead ==
  /\ clerk = [d \in CwDesks |-> clerk[d]]
  /\ \A d \in CwDesks : IsClerk(clerk[d]) /\ AsRead(clerk[d].rows)
CasesFiled ==
  /\ report = [i \in Reports |-> report[i]] /\ repair = [c \in Repairs |-> repair[c]]
  /\ \A i \in Reports : {"key", "closed", "quiet"} \subseteq DOMAIN report[i]
  /\ \A c \in Repairs : {"key", "by", "closed"} \subseteq DOMAIN repair[c]
CaseInv == RowsStamped /\ ClerksRead /\ CasesFiled

(* What a step does to the rows and to the lists: a desk reads again or     *)
(* not, and one row is stamped or none.                                     *)
Looks(d) ==
  /\ row' = row /\ edits' \in {edits, edits + 1}
  /\ \E c : /\ clerk' = [clerk EXCEPT ![d] = c]
            /\ IsClerk(c) /\ c.rows \in {clerk[d].rows, row}
Stamps(d) ==
  /\ edits' = edits + 1
  /\ \E k, r : /\ row' = [row EXCEPT ![k] = r]
               /\ k \in Filed => /\ {"text", "at", "status"} \subseteq DOMAIN r
                                 /\ r.at = edits + 1
                                 /\ \/ r.text = row[k].text
                                    \/ SavedBy(d, k) /\ clerk[d].rows[k].at = row[k].at
  /\ \E c : /\ clerk' = [clerk EXCEPT ![d] = c] /\ IsClerk(c) /\ c.rows = row'

LEMMA RowsShape ==
  ASSUME CaseInv, NEW d \in CwDesks, RowsDesk(d) \/ MovesDesk(d)
  PROVE Looks(d) \/ Stamps(d)
<1> USE DEF CaseInv
<1>1. IsClerk(clerk[d])
  BY DEF ClerksRead
<1>2. CASE \/ \E k \in Filed : EditKeyNote(d, k)
           \/ CancelKeyNote(d) \/ BeginHolderEdit(d) \/ CancelHolderEdit(d)
  BY <1>1, <1>2 DEF EditKeyNote, CancelKeyNote, BeginHolderEdit, CancelHolderEdit, Looks, Sets,
      Puts,
                    IsClerk
<1>3. CASE RefreshLists(d) \/ \E phone \in BOOLEAN : SubmitHolder(d, phone)
  BY <1>1, <1>3 DEF RefreshLists, SubmitHolder, Stamped, Looks, Sets, Puts, Relisted, IsClerk
<1>4. CASE SaveKeyNote(d)
  <2>1. CASE ~StillAsListed(d, clerk[d].draft.key)
    BY <1>1, <1>4, <2>1 DEF SaveKeyNote, Looks, Sets, Relisted, IsClerk
  <2>2. CASE StillAsListed(d, clerk[d].draft.key)
    <3> DEFINE k == clerk[d].draft.key
               r == [row[k] EXCEPT !.text = edits + 1, !.at = edits + 1]
    <3>1. /\ edits' = edits + 1 /\ row' = [row EXCEPT ![k].text = edits + 1, ![k].at = edits + 1]
          /\ clerk' = [clerk EXCEPT ![d] = Relisted(Puts(d, "draft", NoDraft))]
      BY <1>4, <2>2 DEF SaveKeyNote, Stamped, Sets
    <3>2. row' = [row EXCEPT ![k] = r]
      BY <3>1
    <3>3. k \in Filed => {"text", "at", "status"} \subseteq DOMAIN r /\ r.at = edits + 1
      BY DEF RowsStamped
    <3>4. /\ Relisted(Puts(d, "draft", NoDraft)).rows = row' /\ IsClerk(Relisted(Puts(d, "draft", NoDraft)))
          /\ Relisted(Puts(d, "draft", NoDraft)).draft = NoDraft
      BY <1>1 DEF Relisted, Puts, IsClerk
    <3>5. SavedBy(d, k) /\ clerk[d].rows[k].at = row[k].at
      BY <2>2, <3>1, <3>4 DEF SavedBy, StillAsListed, ClerksRead
    <3> HIDE DEF k, r
    <3> QED BY <3>1, <3>2, <3>3, <3>4, <3>5 DEF Stamps
  <2> QED BY <2>1, <2>2
<1>5. CASE MovesDesk(d)
  <2>1. PICK k \in Filed, to \in KeyStatus : MoveStatus(d, k, to)
    BY <1>5 DEF MovesDesk
  <2> DEFINE r == [row[k] EXCEPT !.status = to, !.at = edits + 1]
  <2>2. /\ edits' = edits + 1 /\ row' = [row EXCEPT ![k] = r]
        /\ clerk' = [clerk EXCEPT ![d] = Relisted(clerk[d])]
    BY <2>1 DEF MoveStatus, Stamped, Sets, Touched
  <2>3. {"text", "at", "status"} \subseteq DOMAIN r /\ r.at = edits + 1 /\ r.text = row[k].text
    BY DEF RowsStamped
  <2>4. Relisted(clerk[d]).rows = row' /\ IsClerk(Relisted(clerk[d]))
    BY <1>1 DEF Relisted, IsClerk
  <2> HIDE DEF r
  <2> QED BY <2>2, <2>3, <2>4 DEF Stamps
<1> QED BY <1>2, <1>3, <1>4, <1>5 DEF RowsDesk

LEMMA PanelShape ==
  ASSUME CaseInv, NEW d \in CwDesks, PanelDesk(d) \/ LinkWrites(d)
  PROVE Looks(d) \/ Stamps(d)
<1> USE DEF CaseInv
<1>1. IsClerk(clerk[d])
  BY DEF ClerksRead
<1>2. ASSUME NEW c, UNCHANGED <<row, edits>>, Sets(d, c), IsClerk(c), c.rows = clerk[d].rows
      PROVE Looks(d)
  BY <1>2 DEF Looks, Sets
<1>3. CASE \E pdf \in BOOLEAN : SaveNote(d, pdf)
  <2>1. UNCHANGED <<row, edits, clerk>>
    BY <1>3 DEF SaveNote
  <2>2. clerk' = [clerk EXCEPT ![d] = clerk[d]]
    BY <2>1 DEF ClerksRead
  <2> QED BY <1>1, <2>1, <2>2 DEF Looks
<1>4. CASE \E i \in Reports : ReportIncident(d, i)
  <2> DEFINE k == Panel(d).key
             c == Relisted(Puts(d, "panel", Afresh(Panel(d))))
             r == [row[k] EXCEPT !.status = "Lost", !.at = edits + 1]
  <2>1. /\ edits' = edits + 1 /\ row' = [row EXCEPT ![k] = r] /\ clerk' = [clerk EXCEPT ![d] = c]
    BY <1>4 DEF ReportIncident, Stamped, Sets, Touched
  <2>2. k \in Filed => /\ {"text", "at", "status"} \subseteq DOMAIN r /\ r.at = edits + 1
                       /\ r.text = row[k].text
    BY DEF RowsStamped
  <2>3. c.rows = row' /\ IsClerk(c)
    BY <1>1 DEF Relisted, Puts, IsClerk
  <2> HIDE DEF r, c, k
  <2> QED BY <2>1, <2>2, <2>3 DEF Stamps
<1>5. CASE \/ \E k \in Filed : OpenLifecycle(d, k)
           \/ CloseLifecycle(d) \/ GenerateNote(d)
           \/ \E s \in Subjects : SettleDependency(d, s)
           \/ \E c \in Repairs, by \in Filed : LinkLooks(d, c, by)
  <2>1. UNCHANGED <<row, edits>>
    BY <1>5 DEF OpenLifecycle, CloseLifecycle, GenerateNote, SettleDependency, LinkLooks
  <2>2. \E c : Sets(d, c) /\ IsClerk(c) /\ c.rows = clerk[d].rows
    <3>1. \A f, v : f \in {"draft", "panel", "pair"} =>
            IsClerk(Puts(d, f, v)) /\ Puts(d, f, v).rows = clerk[d].rows
      BY <1>1 DEF Puts, IsClerk
    <3>2. \A v, w : /\ IsClerk([clerk[d] EXCEPT !.draft = v, !.panel = w])
                    /\ [clerk[d] EXCEPT !.draft = v, !.panel = w].rows = clerk[d].rows
      BY <1>1 DEF IsClerk
    <3>3. CASE \E k \in Filed : OpenLifecycle(d, k)
      BY <3>2, <3>3 DEF OpenLifecycle
    <3>4. CASE CloseLifecycle(d)
      BY <3>1, <3>4 DEF CloseLifecycle
    <3>5. CASE GenerateNote(d)
      <4>1. \E v : Sets(d, [clerk[d] EXCEPT !.panel = v])
        BY <3>5 DEF GenerateNote
      <4> QED BY <1>1, <4>1 DEF IsClerk
    <3>6. CASE \E s \in Subjects : SettleDependency(d, s)
      <4>1. \E v : Sets(d, [clerk[d] EXCEPT !.panel = v])
        BY <3>6 DEF SettleDependency
      <4> QED BY <1>1, <4>1 DEF IsClerk
    <3>7. CASE \E c \in Repairs, by \in Filed : LinkLooks(d, c, by)
      BY <3>1, <3>7 DEF LinkLooks
    <3> QED BY <1>5, <3>3, <3>4, <3>5, <3>6, <3>7
  <2> QED BY <1>2, <2>1, <2>2
<1>6. CASE \/ RecordRemediation(d)
           \/ \E i \in Reports, noted \in BOOLEAN : CloseIncident(d, i, noted)
           \/ \E c \in Repairs : SendForRma(d, c) \/ CloseRma(d, c)
           \/ LinkWrites(d)
  <2>1. UNCHANGED <<row, edits>>
    BY <1>6 DEF RecordRemediation, CloseIncident, SendForRma, CloseRma, LinkWrites
  <2>2. \E c : Sets(d, c) /\ IsClerk(c) /\ c.rows = clerk[d].rows
    <3>1. \A v, w : /\ IsClerk([clerk[d] EXCEPT !.pair = v, !.panel = w])
                    /\ [clerk[d] EXCEPT !.pair = v, !.panel = w].rows = clerk[d].rows
                    /\ IsClerk([clerk[d] EXCEPT !["panel"] = w])
                    /\ [clerk[d] EXCEPT !["panel"] = w].rows = clerk[d].rows
      BY <1>1 DEF IsClerk
    <3>2. CASE LinkWrites(d)
      <4>1. \E w : Sets(d, [clerk[d] EXCEPT !.pair = NoPair, !.panel = w])
        BY <3>2 DEF LinkWrites
      <4> QED BY <3>1, <4>1
    <3>3. CASE ~LinkWrites(d)
      <4>1. \E v : Reloaded(d, v)
        BY <1>6, <3>3, Zenon DEF RecordRemediation, CloseIncident, SendForRma, CloseRma
      <4>2. \E w : Sets(d, [clerk[d] EXCEPT !["panel"] = w])
        BY <4>1, Zenon DEF Reloaded, Puts
      <4> QED BY <3>1, <4>2
    <3> QED BY <3>2, <3>3
  <2> QED BY <1>2, <2>1, <2>2
<1> QED BY <1>3, <1>4, <1>5, <1>6 DEF PanelDesk

LEMMA CaseShape ==
  ASSUME CaseInv, CaseNext
  PROVE \/ \E d \in CwDesks : Looks(d) \/ Stamps(d)
        \/ UNCHANGED <<row, clerk, edits>>
<1>1. CASE RowsNext \/ MovesNext
  BY <1>1, RowsShape DEF RowsNext, MovesNext
<1>2. CASE PanelNext
  BY <1>2, PanelShape DEF PanelNext
<1>3. CASE RunsNext
  BY <1>3 DEF RunsNext, RunApplies
<1> QED BY <1>1, <1>2, <1>3 DEF CaseNext

(* A row's text is replaced only from a list that showed it.                *)
NoteStands == \A k \in Filed : row[k].text # row'[k].text =>
  \E d \in CwDesks : SavedBy(d, k) /\ clerk[d].rows[k].text = row[k].text

LEMMA RowsKeep ==
  ASSUME CaseInv, CaseNext
  PROVE RowsStamped' /\ ClerksRead' /\ NoteStands
<1> USE DEF CaseInv
<1>1. CASE UNCHANGED <<row, clerk, edits>>
  BY <1>1 DEF RowsStamped, ClerksRead, AsRead, NoteStands
<1>2. ASSUME NEW d \in CwDesks, Looks(d) PROVE RowsStamped' /\ ClerksRead' /\ NoteStands
  <2>1. row' = row /\ edits' \in {edits, edits + 1}
    BY <1>2 DEF Looks
  <2>2. PICK c : /\ clerk' = [clerk EXCEPT ![d] = c]
                 /\ IsClerk(c) /\ c.rows \in {clerk[d].rows, row}
    BY <1>2 DEF Looks
  <2>3. RowsStamped' /\ NoteStands
    BY <2>1 DEF RowsStamped, NoteStands
  <2>4. AsRead(row) /\ AsRead(clerk[d].rows)
    BY DEF RowsStamped, ClerksRead, AsRead
  <2>5. AsRead(c.rows)
    BY <2>2, <2>4
  <2>6. \A rows : AsRead(rows) => AsRead(rows)'
    BY <2>1 DEF AsRead
  <2>7. clerk' = [e \in CwDesks |-> clerk'[e]] /\ \A e \in CwDesks : clerk'[e] = IF e = d THEN c ELSE clerk[e]
    BY <2>2 DEF ClerksRead
  <2>8. ASSUME NEW e \in CwDesks PROVE IsClerk(clerk'[e]) /\ AsRead(clerk'[e].rows)
    BY <2>2, <2>5, <2>7 DEF ClerksRead
  <2>9. ClerksRead'
    BY <2>1, <2>7, <2>8 DEF ClerksRead, AsRead
  <2> QED BY <2>3, <2>9
<1>3. ASSUME NEW d \in CwDesks, Stamps(d) PROVE RowsStamped' /\ ClerksRead' /\ NoteStands
  <2>1. PICK k, r : /\ row' = [row EXCEPT ![k] = r]
                    /\ k \in Filed => /\ {"text", "at", "status"} \subseteq DOMAIN r
                                      /\ r.at = edits + 1
                                      /\ \/ r.text = row[k].text
                                         \/ SavedBy(d, k) /\ clerk[d].rows[k].at = row[k].at
    BY <1>3 DEF Stamps
  <2>2. PICK c : clerk' = [clerk EXCEPT ![d] = c] /\ IsClerk(c) /\ c.rows = row'
    BY <1>3 DEF Stamps
  <2>3. edits' = edits + 1 /\ \A j \in Filed : row'[j] = IF j = k THEN r ELSE row[j]
    BY <1>3, <2>1 DEF Stamps, RowsStamped
  <2>4. RowsStamped'
    BY <2>1, <2>3 DEF RowsStamped
  <2>5. NoteStands
    <3> SUFFICES ASSUME NEW j \in Filed, row[j].text # row'[j].text
                 PROVE SavedBy(d, j) /\ clerk[d].rows[j].text = row[j].text
      BY DEF NoteStands
    <3>1. j = k /\ SavedBy(d, k) /\ clerk[d].rows[k].at = row[k].at
      BY <2>1, <2>3
    <3> QED BY <3>1 DEF ClerksRead, AsRead
  <2>6. \A j \in Filed : row'[j].at \in Nat /\ row[j].at <= row'[j].at
                         /\ (row'[j].at = row[j].at => row'[j].text = row[j].text)
    BY <2>1, <2>3 DEF RowsStamped
  <2> DEFINE Then(rows) == \A j \in Filed : /\ rows[j].at \in Nat /\ rows[j].at <= row'[j].at
                                            /\ rows[j].at = row'[j].at => rows[j].text = row'[j].text
  <2>7. Then(row') /\ \A rows : AsRead(rows) => Then(rows)
    <3>1. Then(row')
      BY <2>6
    <3>2. ASSUME NEW rows, AsRead(rows) PROVE Then(rows)
      <4>1. \A j \in Filed : row[j].at \in Nat /\ row'[j].at \in Nat
        BY <2>4 DEF RowsStamped
      <4> QED BY <2>6, <3>2, <4>1 DEF AsRead
    <3> QED BY <3>1, <3>2
  <2>8. ClerksRead'
    <3>1. ASSUME NEW e \in CwDesks PROVE IsClerk(clerk'[e]) /\ Then(clerk'[e].rows)
      <4>1. CASE e = d
        <5>1. clerk'[e] = c
          BY <2>2, <4>1 DEF ClerksRead
        <5> HIDE DEF Then
        <5> QED BY <2>2, <2>7, <5>1
      <4>2. CASE e # d
        <5>1. clerk'[e] = clerk[e] /\ IsClerk(clerk[e]) /\ AsRead(clerk[e].rows)
          BY <2>2, <4>2 DEF ClerksRead
        <5> HIDE DEF Then
        <5> QED BY <2>7, <5>1
      <4> QED BY <4>1, <4>2
    <3>2. clerk' = [e \in CwDesks |-> clerk'[e]]
      BY <2>2 DEF ClerksRead
    <3> QED BY <3>1, <3>2 DEF ClerksRead, AsRead
  <2> QED BY <2>4, <2>5, <2>8
<1> QED BY <1>1, <1>2, <1>3, CaseShape

(* What is closed stays, what is answered by a key is not closed.           *)
ReportsStand == \A i \in Reports : report[i].closed => report'[i] = report[i]
RepairsStand == \A c \in Repairs : repair[c].by # NoFile => repair'[c].closed = repair[c].closed

LEMMA CasesKeep ==
  ASSUME CasesFiled, [CaseNext]_caseVars
  PROVE CasesFiled' /\ ReportsStand /\ RepairsStand
<1>1. ASSUME UNCHANGED report PROVE /\ report' = [i \in Reports |-> report'[i]] /\ ReportsStand
                                    /\ \A i \in Reports : {"key", "closed", "quiet"} \subseteq DOMAIN report'[i]
  BY <1>1 DEF CasesFiled, ReportsStand
<1>2. ASSUME UNCHANGED repair PROVE /\ repair' = [c \in Repairs |-> repair'[c]] /\ RepairsStand
                                    /\ \A c \in Repairs : {"key", "by", "closed"} \subseteq DOMAIN repair'[c]
  BY <1>2, Zenon DEF CasesFiled, RepairsStand
<1>3. ASSUME NEW d \in CwDesks, NEW i \in Reports, ReportIncident(d, i)
      PROVE CasesFiled' /\ ReportsStand /\ RepairsStand
  <2> DEFINE new == [NoReport EXCEPT !.key = Panel(d).key]
  <2>1. report' = [report EXCEPT ![i] = new] /\ report[i] = NoReport /\ UNCHANGED repair
    BY <1>3 DEF ReportIncident
  <2>2. {"key", "closed", "quiet"} \subseteq DOMAIN new /\ ~NoReport.closed
    BY DEF NoReport
  <2> HIDE DEF new
  <2> QED BY <1>2, <2>1, <2>2 DEF CasesFiled, ReportsStand
<1>4. ASSUME NEW d \in CwDesks, NEW i \in Reports, NEW noted \in BOOLEAN, CloseIncident(d, i, noted)
      PROVE CasesFiled' /\ ReportsStand /\ RepairsStand
  <2> DEFINE new == [report[i] EXCEPT !.closed = TRUE, !.quiet = ~noted]
  <2>1. report' = [report EXCEPT ![i] = new] /\ ~report[i].closed /\ UNCHANGED repair
    BY <1>4 DEF CloseIncident, Unclosed
  <2>2. {"key", "closed", "quiet"} \subseteq DOMAIN new
    BY DEF CasesFiled
  <2> HIDE DEF new
  <2> QED BY <1>2, <2>1, <2>2 DEF CasesFiled, ReportsStand
<1>5. ASSUME NEW c, NEW new, repair' = [repair EXCEPT ![c] = new], UNCHANGED report,
             c \in Repairs => /\ {"key", "by", "closed"} \subseteq DOMAIN new
                              /\ repair[c].by # NoFile => new.closed = repair[c].closed
      PROVE CasesFiled' /\ ReportsStand /\ RepairsStand
  <2>1. \A e \in Repairs : repair'[e] = IF e = c THEN new ELSE repair[e]
    BY <1>5 DEF CasesFiled
  <2>2. CasesFiled'
    BY <1>5, <2>1, <1>1 DEF CasesFiled
  <2>3. RepairsStand
    BY <1>5, <2>1, Zenon DEF RepairsStand
  <2> QED BY <1>1, <1>5, <2>2, <2>3
<1>6. ASSUME NEW d \in CwDesks, NEW c \in Repairs, SendForRma(d, c)
      PROVE CasesFiled' /\ ReportsStand /\ RepairsStand
  <2> DEFINE new == [NoRepair EXCEPT !.key = Panel(d).key]
  <2>1. repair' = [repair EXCEPT ![c] = new] /\ repair[c] = NoRepair /\ UNCHANGED report
    BY <1>6 DEF SendForRma
  <2>2. {"key", "by", "closed"} \subseteq DOMAIN new /\ NoRepair.by = NoFile
    BY DEF NoRepair
  <2> HIDE DEF new
  <2> QED BY <1>5, <2>1, <2>2
<1>7. ASSUME NEW d \in CwDesks, LinkWrites(d) PROVE CasesFiled' /\ ReportsStand /\ RepairsStand
  <2> DEFINE c == clerk[d].pair.case
             new == [repair[c] EXCEPT !.by = clerk[d].pair.by]
  <2>1. repair' = [repair EXCEPT ![c] = new] /\ UNCHANGED report
    BY <1>7 DEF LinkWrites
  <2>2. c \in Repairs => {"key", "by", "closed"} \subseteq DOMAIN new /\ new.closed = repair[c].closed
    BY DEF CasesFiled
  <2> HIDE DEF new, c
  <2> QED BY <1>5, <2>1, <2>2
<1>8. ASSUME NEW d \in CwDesks, NEW c \in Repairs, CloseRma(d, c)
      PROVE CasesFiled' /\ ReportsStand /\ RepairsStand
  <2> DEFINE new == [repair[c] EXCEPT !.closed = TRUE]
  <2>1. repair' = [repair EXCEPT ![c] = new] /\ repair[c].by = NoFile /\ UNCHANGED report
    BY <1>8 DEF CloseRma, Unanswered, Dealt
  <2>2. {"key", "by", "closed"} \subseteq DOMAIN new
    BY DEF CasesFiled
  <2> HIDE DEF new
  <2> QED BY <1>5, <2>1, <2>2
<1>9. ASSUME UNCHANGED <<report, repair>> PROVE CasesFiled' /\ ReportsStand /\ RepairsStand
  BY <1>1, <1>2, <1>9 DEF CasesFiled
<1>10. CASE RowsNext \/ MovesNext \/ RunsNext \/ UNCHANGED caseVars
  <2>1. UNCHANGED <<report, repair>>
    BY <1>10 DEF RowsNext, RowsDesk, MovesNext, MovesDesk, RunsNext, RunApplies, caseVars,
        EditKeyNote,
         CancelKeyNote, SaveKeyNote, BeginHolderEdit, CancelHolderEdit, RefreshLists, SubmitHolder,
             MoveStatus
  <2> QED BY <1>9, <2>1
<1>11. ASSUME NEW d \in CwDesks, PanelDesk(d) PROVE CasesFiled' /\ ReportsStand /\ RepairsStand
  <2>1. CASE \/ \E k \in Filed : OpenLifecycle(d, k)
             \/ CloseLifecycle(d) \/ RecordRemediation(d) \/ GenerateNote(d)
             \/ \E s \in Subjects : SettleDependency(d, s)
             \/ \E pdf \in BOOLEAN : SaveNote(d, pdf)
             \/ \E c \in Repairs, by \in Filed : LinkLooks(d, c, by)
    <3>1. UNCHANGED <<report, repair>>
      BY <2>1 DEF OpenLifecycle, CloseLifecycle, RecordRemediation, GenerateNote, SettleDependency,
          SaveNote, LinkLooks
    <3> QED BY <1>9, <3>1
  <2> QED BY <1>3, <1>4, <1>6, <1>8, <1>11, <2>1 DEF PanelDesk
<1> QED BY <1>7, <1>10, <1>11 DEF CaseNext, PanelNext

(* A number a desk's form does not hold is not blanked.                     *)
PhoneStands == person.phone /\ ~person'.phone => \E d \in CwDesks : clerk[d].form.open

LEMMA PersonKeeps == ASSUME [CaseNext]_caseVars PROVE PhoneStands
<1>1. CASE UNCHANGED person
  BY <1>1, Zenon DEF PhoneStands
<1>2. ASSUME NEW d \in CwDesks, NEW phone \in BOOLEAN, SubmitHolder(d, phone), ~clerk[d].form.open,
             person.phone PROVE person'.phone
  <2>1. person' = Renewed(Filled(phone))
    BY <1>2 DEF SubmitHolder
  <2>2. person'.phone = Filled(phone)
    BY <2>1 DEF Renewed
  <2> QED BY <1>2, <2>2, Zenon DEF Filled
<1>3. CASE \E d \in CwDesks, phone \in BOOLEAN : SubmitHolder(d, phone)
  BY <1>2, <1>3, Zenon DEF PhoneStands
<1>4. UNCHANGED person \/ \E d \in CwDesks, phone \in BOOLEAN : SubmitHolder(d, phone)
  <2>1. CASE RowsNext \/ MovesNext \/ RunsNext \/ UNCHANGED caseVars
    BY <2>1 DEF RowsNext, RowsDesk, MovesNext, MovesDesk, RunsNext, RunApplies, caseVars,
        EditKeyNote,
         CancelKeyNote, SaveKeyNote, BeginHolderEdit, CancelHolderEdit, RefreshLists, MoveStatus
  <2>2. CASE PanelNext
    BY <2>2, ZenonT(60) DEF PanelNext, PanelDesk, OpenLifecycle, CloseLifecycle, RecordRemediation,
        GenerateNote,
         SettleDependency, SaveNote, LinkLooks, LinkWrites, ReportIncident, CloseIncident,
             SendForRma, CloseRma
  <2> QED BY <2>1, <2>2 DEF CaseNext
<1> QED BY <1>1, <1>3, <1>4

CaseStep ==
  /\ \A k \in Filed : row[k].text # row'[k].text =>
       \E d \in CwDesks : SavedBy(d, k) /\ clerk[d].rows[k].text = row[k].text
  /\ person.phone /\ ~person'.phone => \E d \in CwDesks : clerk[d].form.open
  /\ \A i \in Reports : report[i].closed => report'[i] = report[i]
  /\ \A c \in Repairs : repair[c].by # NoFile => repair'[c].closed = repair[c].closed

(* However many desks work on the rows of the keys and on their cases, none *)
(* undoes what it had not read (app.rs: save_key_note, insert_holder,       *)
(* close_incident, close_rma).                                              *)
THEOREM CasesAlwaysStand == CaseSpec => CasesStand
<1>1. CaseInit => CaseInv
  <2> SUFFICES ASSUME CaseInit PROVE CaseInv
    OBVIOUS
  <2>1. RowsStamped
    BY DEF CaseInit, RowsStamped
  <2>2. ClerksRead
    <3>1. \A d \in CwDesks : IsClerk(clerk[d]) /\ clerk[d].rows = row
      BY DEF CaseInit, IsClerk
    <3> QED BY <2>1, <3>1 DEF CaseInit, ClerksRead, AsRead, RowsStamped
  <2>3. CasesFiled
    BY DEF CaseInit, CasesFiled, NoReport, NoRepair
  <2> QED BY <2>1, <2>2, <2>3 DEF CaseInv
<1>2. ASSUME CaseInv, [CaseNext]_caseVars PROVE CaseInv' /\ CaseStep
  <2>1. CASE CaseNext
    BY <1>2, <2>1, RowsKeep, CasesKeep, PersonKeeps, Zenon
       DEF CaseInv, CaseStep, NoteStands, ReportsStand, RepairsStand, PhoneStands
  <2>2. CASE UNCHANGED caseVars
    <3>1. RowsStamped' /\ ClerksRead' /\ NoteStands
      BY <1>2, <2>2 DEF caseVars, CaseInv, RowsStamped, ClerksRead, AsRead, NoteStands
    <3> QED BY <1>2, <3>1, CasesKeep, PersonKeeps, Zenon
            DEF CaseInv, CaseStep, NoteStands, ReportsStand, RepairsStand, PhoneStands
  <2> QED BY <1>2, <2>1, <2>2
<1>3. CaseInv /\ [CaseNext]_caseVars => CaseInv'
  BY <1>2
<1>4. CaseInv /\ [CaseNext]_caseVars => [CaseStep]_caseVars
  BY <1>2
<1> QED BY <1>1, <1>3, <1>4, PTL DEF CaseSpec, CasesStand, CaseStep
-----------------------------------------------------------------------------
(***************************************************************************)
(* The four together.  The modules have no variable in common, so what is   *)
(* proved of each holds of any run of all four, and of the scenes (MCOffice)*)
(* the model checker plays, which are such runs.                            *)
(***************************************************************************)

OfficeParts == TplSpec /\ PaperSpec /\ BatchSpec /\ CaseSpec

LEMMA ScenesAreOfTheirParts == OfficeSpec => OfficeParts
<1>1. OfficeInit => TplInit /\ PaperInit /\ BatchInit /\ CaseInit
  BY DEF OfficeInit
<1>2. CaseMoves => CaseNext
  BY Zenon DEF CaseMoves, CaseNext
<1>3. ProcedureMoves => TplNext
  BY Zenon DEF ProcedureMoves
<1>4. OfficeNext => /\ TplNext \/ UNCHANGED tplVars
                    /\ PaperNext \/ UNCHANGED paperVars
                    /\ BatchNext \/ UNCHANGED batchVars
                    /\ CaseNext \/ UNCHANGED caseVars
  BY <1>2, <1>3, Zenon DEF OfficeNext
<1>5. UNCHANGED officeVars => UNCHANGED <<tplVars, paperVars, batchVars, caseVars>>
  BY Zenon DEF officeVars
<1>6. [OfficeNext]_officeVars => [TplNext]_tplVars /\ [PaperNext]_paperVars
                                 /\ [BatchNext]_batchVars /\ [CaseNext]_caseVars
  BY <1>4, <1>5, Zenon
<1> QED BY <1>1, <1>6, PTL DEF OfficeSpec, OfficeParts, TplSpec, PaperSpec, BatchSpec, CaseSpec

(* What is said of papers and of a box of keys is so (receipt.rs, batch/):  *)
(* one alarm for an overdue term, an entry of a term generated only for     *)
(* what was written, a key in one position, terms for keys that were done.  *)
THEOREM PapersAreTrueTogether ==
  ASSUME OnePaperDesk, OneBtDesk, SoundLists, StockIsWritten
  PROVE  OfficeParts => []PapersAreTrue
<1>1. (OverdueOnce /\ EntriesAreTrue) /\ BoxIsTrue => PapersAreTrue
  BY DEF PapersAreTrue
<1> QED BY <1>1, PapersAreTrueAtOneDesk, BoxIsTrueAtOneDesk, PTL DEF OfficeParts

(* What is written down is not unwritten (store/mod.rs): the text of a      *)
(* version a run names, what was handed over for signature, a position's    *)
(* outcome, a note nobody had read, a case that is answered.                *)
THEOREM RecordsStandTogether ==
  ASSUME Genuine, OneTplDesk, OneBtDesk, SoundLists, StockIsWritten
  PROVE  OfficeParts => RecordsStand
BY RunsKeepTheirTextAtOneDesk, PapersAlwaysStand, BoxStandsAtOneDesk, CasesAlwaysStand, PTL
   DEF OfficeParts, RecordsStand

(* So in every scene the model checker plays, whatever the constants.       *)
THEOREM OfficeStands ==
  ASSUME Genuine, OneTplDesk, OnePaperDesk, OneBtDesk, SoundLists, StockIsWritten
  PROVE  OfficeSpec => []ProceduresAreOnRecord /\ []PapersAreTrue /\ RecordsStand
BY ScenesAreOfTheirParts, ProceduresAreOnRecordAtOneDesk, PapersAreTrueTogether,
   RecordsStandTogether, PTL DEF OfficeParts
================================================================================
