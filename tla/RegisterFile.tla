----------------------------- MODULE RegisterFile -----------------------------
(* The file a register lives in (store/mod.rs, store/backup.rs): brought to *)
(* the current schema, copied, and replaced by one under another password,  *)
(* by programs that may die between any two statements.  A name in the      *)
(* folder and the file it stands for are two things: a connection keeps the *)
(* file, whatever becomes of the name.                                      *)
EXTENDS FiniteSets, FiniteSetsExt, Integers, Sequences

CONSTANTS Stations,    \* the programs that may have the register open
          Passwords,   \* NoPassword among them: a plain file
          NoPassword, NoFile,
          Entries,     \* what is recorded
          Runs,        \* runs an old register keeps as blobs
          Unreadable,  \* those whose blob cannot be parsed
          OldSchema,   \* the schemas a register on disk may have
          Keep,        \* backups kept
          Changes,     \* bound: changes of the password
          Starts,      \* bound: registers begun where none is found
          LastFile,    \* bound: a file for every change and every beginning
          Days,        \* bound: days that pass
          Deaths,      \* bound: programs that die
          Faults       \* bound: calls of the file system that fail

SchemaVersion == 9

Contents == [key : Passwords, version : 0..SchemaVersion, columns : SUBSET (2..4),
             blobs : BOOLEAN, runs : SUBSET Runs, rows : [Runs -> 0..1],
             entries : SUBSET Entries]

ASSUME FileAssumption ==
  /\ NoPassword \in Passwords /\ Unreadable \subseteq Runs
  /\ IsFiniteSet(Stations) /\ OldSchema \subseteq 0..SchemaVersion
  /\ {Keep, Changes, Starts, LastFile, Days, Deaths, Faults} \subseteq Nat
  /\ Changes + Starts <= LastFile
  /\ NoFile \notin 0..LastFile /\ NoFile \notin Contents

VARIABLES file,     \* the files: their key, schema and contents
          folder,   \* the file each name stands for
          copies,   \* backups: the day they were taken and the contents
          today,
          desk,     \* where each program stands
          step,     \* how far it has come in the migration
          conn,     \* the file it is connected to
          wanted,   \* the password it is changing to
          told,     \* what the last change came to, as the operator was told
          recorded, \* what the programs have said is recorded
          spared    \* what the bounds still allow

fileVars == <<file, folder, copies, today, desk, step, conn, wanted, told, recorded, spared>>

(* The statements of migrate.  A batch that only creates what is not there  *)
(* may be run again; one that adds a column may not.                        *)
Script == <<[to |-> 1, does |-> "tables"], [to |-> 2, does |-> "column"],
            [to |-> 3, does |-> "column"], [to |-> 4, does |-> "column"],
            [to |-> 5, does |-> "tables"], [to |-> 5, does |-> "fill"],
            [to |-> 5, does |-> "drop"],
            [to |-> 6, does |-> "tables"], [to |-> 7, does |-> "tables"],
            [to |-> 8, does |-> "tables"], [to |-> 9, does |-> "tables"]>>

FileAt(v) == [key |-> NoPassword, version |-> v,
              columns |-> {c \in 2..4 : c <= v},
              blobs |-> v < 5,
              runs |-> Runs,
              rows |-> [r \in Runs |-> IF v < 5 THEN 0 ELSE 1],
              entries |-> {}]

(* What Connection::open makes where there is no file.                      *)
EmptyFile(password) == [FileAt(0) EXCEPT !.key = password, !.runs = {}]

Names == {"main", "target", "replaced"}
NewFile == Min({f \in 0..LastFile : file[f] = NoFile})
MainFile == file[folder["main"]]

FileInit ==
  /\ \E v \in OldSchema : file = [f \in 0..LastFile |-> IF f = 0 THEN FileAt(v) ELSE NoFile]
  /\ folder = [n \in Names |-> IF n = "main" THEN 0 ELSE NoFile]
  /\ copies = {} /\ today = 0 /\ recorded = {}
  /\ desk = [s \in Stations |-> "closed"]
  /\ step = [s \in Stations |-> 1]
  /\ conn = [s \in Stations |-> NoFile]
  /\ wanted = [s \in Stations |-> NoPassword]
  /\ told = "nothing"
  /\ spared = [changes |-> Changes, starts |-> Starts, deaths |-> Deaths, faults |-> Faults]

Stand(s, place) == desk' = [desk EXCEPT ![s] = place]
Leave(s) == Stand(s, "closed") /\ conn' = [conn EXCEPT ![s] = NoFile]
Unlink(name) == folder' = [folder EXCEPT ![name] = NoFile]
Rename(from, to) == folder' = [folder EXCEPT ![to] = folder[from], ![from] = NoFile]

(* So many calls of the file system fail.  The renaming of a file that is   *)
(* not there fails of itself.                                               *)
Fault(n) == spared.faults >= n /\ spared' = [spared EXCEPT !.faults = @ - n]
Cost(name) == IF folder[name] = NoFile THEN 0 ELSE 1

(* Store::open of a file that is there, and open_existing, which refuses    *)
(* one that is not: a current one is open.                                  *)
OpenFile(s) ==
  /\ desk[s] = "closed" /\ folder["main"] # NoFile
  /\ conn' = [conn EXCEPT ![s] = folder["main"]]
  /\ step' = [step EXCEPT ![s] = Min({i \in 1..(Len(Script) + 1) :
                 i <= Len(Script) => Script[i].to > MainFile.version})]
  /\ Stand(s, IF MainFile.version = SchemaVersion THEN "open" ELSE "migrating")
  /\ UNCHANGED <<file, folder, copies, today, wanted, told, recorded, spared>>

(* Mutant: what an earlier change left aside is tidied away.                *)
StartUp_Tidies(s, password) ==
  /\ desk[s] = "closed" /\ folder["main"] = NoFile /\ spared.starts > 0
  /\ spared' = [spared EXCEPT !.starts = @ - 1]
  /\ file' = [file EXCEPT ![NewFile] = EmptyFile(password)]
  /\ folder' = [folder EXCEPT !["main"] = NewFile, !["replaced"] = NoFile]
  /\ conn' = [conn EXCEPT ![s] = NewFile]
  /\ step' = [step EXCEPT ![s] = 1]
  /\ Stand(s, "migrating")
  /\ UNCHANGED <<copies, today, wanted, told, recorded>>

(* The launch of the program, its unlock prompt (try_open) and the making   *)
(* of a new register find no file under the name: Store::open makes an      *)
(* empty one there, under the password given.                               *)
StartUp(s, password) ==
  /\ desk[s] = "closed" /\ folder["main"] = NoFile /\ spared.starts > 0
  /\ spared' = [spared EXCEPT !.starts = @ - 1]
  /\ file' = [file EXCEPT ![NewFile] = EmptyFile(password)]
  /\ folder' = [folder EXCEPT !["main"] = NewFile]
  /\ conn' = [conn EXCEPT ![s] = NewFile]
  /\ step' = [step EXCEPT ![s] = 1]
  /\ Stand(s, "migrating")
  /\ UNCHANGED <<copies, today, wanted, told, recorded>>

(* One batch, on the file as it is.  A column that is there, or a blob      *)
(* column that is gone, is an error, and the opening fails.                 *)
Refused(f, does, to) == \/ does = "column" /\ to \in f.columns
                        \/ does \in {"fill", "drop"} /\ ~f.blobs

(* Mutant: the rows of an earlier attempt are not deleted first.            *)
Backfill_Again(f) == [r \in Runs |-> IF r \in f.runs \ Unreadable THEN f.rows[r] + 1 ELSE f.rows[r]]

Backfill(f) == [r \in Runs |-> IF r \in f.runs \ Unreadable THEN 1 ELSE f.rows[r]]

Migrated(f, does, to) ==
  CASE does = "tables" -> f
    [] does = "column" -> [f EXCEPT !.columns = @ \cup {to}]
    [] does = "fill"   -> [f EXCEPT !.rows = Backfill(f)]
    [] does = "drop"   -> [f EXCEPT !.blobs = FALSE]

Migrate(s) ==
  /\ desk[s] = "migrating" /\ step[s] <= Len(Script)
  /\ LET f == file[conn[s]]  next == Script[step[s]] IN
       IF Refused(f, next.does, next.to)
       THEN Leave(s) /\ UNCHANGED <<file, step>>
       ELSE /\ file' = [file EXCEPT ![conn[s]] = Migrated(f, next.does, next.to)]
            /\ step' = [step EXCEPT ![s] = @ + 1]
            /\ UNCHANGED <<desk, conn>>
  /\ UNCHANGED <<folder, copies, today, wanted, told, recorded, spared>>

SetVersion(s) ==
  /\ desk[s] = "migrating" /\ step[s] > Len(Script)
  /\ file' = [file EXCEPT ![conn[s]].version = SchemaVersion]
  /\ Stand(s, "open")
  /\ UNCHANGED <<folder, copies, today, step, conn, wanted, told, recorded, spared>>

CloseFile(s) ==
  /\ desk[s] = "open"
  /\ Leave(s)
  /\ UNCHANGED <<file, folder, copies, today, step, wanted, told, recorded, spared>>

(* Any statement that records something: it is in the file once it returns. *)
Record(s, e) ==
  /\ desk[s] = "open" /\ e \notin recorded
  /\ file' = [file EXCEPT ![conn[s]].entries = @ \cup {e}]
  /\ recorded' = recorded \cup {e}
  /\ UNCHANGED <<folder, copies, today, desk, step, conn, wanted, told, spared>>

(* Mutant: the newest go first.                                             *)
Oldest_Newest(n) == {c \in copies : Cardinality({d \in copies : d.day > c.day}) < n}

(* Plan::decide and run_backup: a copy when one is due or asked for, and    *)
(* the oldest beyond the number kept removed once it is taken.  A copy of   *)
(* this very stamp is not taken again, and counts as taken.                 *)
DueForCopy(forced) == forced \/ \A c \in copies : today - c.day >= 1
Oldest(n) == {c \in copies : Cardinality({d \in copies : d.day < c.day}) < n}
Excess(taken) == LET held == Cardinality(copies) + (IF taken THEN 1 ELSE 0)
                 IN IF held > Keep THEN held - Keep ELSE 0

CopyOf(s) == [day |-> today, entries |-> file[conn[s]].entries]
RunBackup(s, forced) ==
  LET due == DueForCopy(forced)
      taken == IF due /\ \A c \in copies : c.day # today THEN {CopyOf(s)} ELSE {}
  IN copies' = (copies \ Oldest(Excess(due))) \cup taken

BackupIfDue(s) ==
  /\ desk[s] = "open" /\ DueForCopy(FALSE)
  /\ RunBackup(s, FALSE)
  /\ UNCHANGED <<file, folder, today, desk, step, conn, wanted, told, recorded, spared>>

DayPasses ==
  /\ today < Days
  /\ today' = today + 1
  /\ UNCHANGED <<file, folder, copies, desk, step, conn, wanted, told, recorded, spared>>

-----------------------------------------------------------------------------
(* Store::change_password, one action per statement that leaves a trace.    *)
ChangeBegin(s, password) ==
  /\ desk[s] = "open" /\ spared.changes > 0
  /\ password # file[conn[s]].key
  /\ spared' = [spared EXCEPT !.changes = @ - 1]
  /\ wanted' = [wanted EXCEPT ![s] = password]
  /\ RunBackup(s, TRUE)
  /\ told' = "nothing"
  /\ Stand(s, "export")
  /\ UNCHANGED <<file, folder, today, step, conn, recorded>>

(* The copy of a transaction's moment, under the new key; what is left of   *)
(* an earlier attempt is removed first.                                     *)
Export(s) ==
  /\ desk[s] = "export"
  /\ file' = [file EXCEPT ![NewFile] = [file[conn[s]] EXCEPT !.key = wanted[s]]]
  /\ folder' = [folder EXCEPT !["target"] = NewFile]
  /\ Stand(s, "verify")
  /\ UNCHANGED <<copies, today, step, conn, wanted, told, recorded, spared>>

(* The export or the check of the copy fails: the copy is removed and the   *)
(* connection dropped.                                                      *)
CopyIsBad(s) ==
  /\ desk[s] = "verify" /\ Fault(1)
  /\ Unlink("target")
  /\ Leave(s) /\ told' = "failed"
  /\ UNCHANGED <<file, copies, today, step, wanted, recorded>>

CopyIsGood(s) ==
  /\ desk[s] = "verify"
  /\ Stand(s, "swap")
  /\ conn' = [conn EXCEPT ![s] = NoFile]
  /\ UNCHANGED <<file, folder, copies, today, step, wanted, told, recorded, spared>>

(* Mutant: the copy is moved over the original.                             *)
MoveAside_Deletes(s) ==
  /\ desk[s] = "swap"
  /\ Unlink("main")
  /\ Stand(s, "place")
  /\ UNCHANGED <<file, copies, today, step, conn, wanted, told, recorded, spared>>

MoveAside(s) ==
  /\ desk[s] = "swap" /\ folder["main"] # NoFile
  /\ Rename("main", "replaced")
  /\ Stand(s, "place")
  /\ UNCHANGED <<file, copies, today, step, conn, wanted, told, recorded, spared>>

MoveAsideFails(s) ==
  /\ desk[s] = "swap" /\ Fault(Cost("main"))
  /\ Leave(s) /\ told' = "failed"
  /\ UNCHANGED <<file, folder, copies, today, step, wanted, recorded>>

MoveIntoPlace(s) ==
  /\ desk[s] = "place" /\ folder["target"] # NoFile
  /\ Rename("target", "main")
  /\ Stand(s, "placed")
  /\ UNCHANGED <<file, copies, today, step, conn, wanted, told, recorded, spared>>

(* Mutant: the original stays aside.                                        *)
MoveIntoPlaceFails_StaysAside(s) ==
  /\ desk[s] = "place" /\ Fault(Cost("target"))
  /\ Leave(s) /\ told' = "failed"
  /\ UNCHANGED <<file, folder, copies, today, step, wanted, recorded>>

(* The original is put back; the copy stays where it is.                    *)
MoveIntoPlaceFails(s) ==
  /\ desk[s] = "place" /\ Fault(Cost("target")) /\ folder["replaced"] # NoFile
  /\ Rename("replaced", "main")
  /\ Leave(s) /\ told' = "failed"
  /\ UNCHANGED <<file, copies, today, step, wanted, recorded>>

(* So is the putting back refused, which nobody looks at: the operator is   *)
(* told the same.                                                           *)
PutBackFails(s) ==
  /\ desk[s] = "place" /\ Fault(Cost("target") + Cost("replaced"))
  /\ Leave(s) /\ told' = "failed"
  /\ UNCHANGED <<file, folder, copies, today, step, wanted, recorded>>

(* The original goes, or stays behind if it cannot be removed.              *)
DropReplaced(s) ==
  /\ desk[s] = "placed"
  /\ \/ Unlink("replaced") /\ UNCHANGED spared
     \/ Fault(1) /\ UNCHANGED folder
  /\ Leave(s) /\ told' = "changed"
  /\ UNCHANGED <<file, copies, today, step, wanted, recorded>>

Die(s) ==
  /\ desk[s] # "closed" /\ spared.deaths > 0
  /\ spared' = [spared EXCEPT !.deaths = @ - 1]
  /\ Leave(s)
  /\ UNCHANGED <<file, folder, copies, today, step, wanted, told, recorded>>

Change(s) ==
  \/ Export(s) \/ CopyIsBad(s) \/ CopyIsGood(s)
  \/ MoveAside(s) \/ MoveAsideFails(s)
  \/ MoveIntoPlace(s) \/ MoveIntoPlaceFails(s) \/ PutBackFails(s) \/ DropReplaced(s)

FileNext ==
  \/ \E s \in Stations :
       \/ OpenFile(s) \/ Migrate(s) \/ SetVersion(s) \/ CloseFile(s)
       \/ \E e \in Entries : Record(s, e)
       \/ BackupIfDue(s)
       \/ \E password \in Passwords : StartUp(s, password) \/ ChangeBegin(s, password)
       \/ Change(s) \/ Die(s)
  \/ DayPasses

FileSpec == FileInit /\ [][FileNext]_fileVars
-----------------------------------------------------------------------------
FileTypeOK ==
  /\ folder \in [Names -> (0..LastFile) \cup {NoFile}]
  /\ conn \in [Stations -> (0..LastFile) \cup {NoFile}]
  /\ \A n \in Names : folder[n] # NoFile => file[folder[n]] # NoFile
  /\ today \in 0..Days /\ told \in {"nothing", "failed", "changed"}
  /\ recorded \subseteq Entries

(* The register is the file under its own name, and where a death or a      *)
(* refused rename has left none, the one that was moved aside.              *)
Holder == IF folder["main"] # NoFile THEN "main" ELSE "replaced"
NoneBegun == spared.starts = Starts
Under(n, e) == folder[n] # NoFile /\ e \in file[folder[n]].entries
InFolder(e) == Under("main", e) \/ Under("replaced", e)

(* While one program has the register, and has not begun an empty one in    *)
(* the place of the one moved aside (try_open), nothing that was recorded   *)
(* is lost: the register has all of it, after whichever statement of a      *)
(* change of the password it died and whichever rename was refused.         *)
RegisterHasAll == /\ folder[Holder] # NoFile
                  /\ NoneBegun => \A e \in recorded : Under(Holder, e)

(* And when it has, what was recorded before is still in the file moved     *)
(* aside.  It goes in one way only: a further change of the password moves  *)
(* the register that was begun over that file.                              *)
LostOnlyToASecond ==
  [][\A e \in recorded : InFolder(e) /\ ~InFolder(e)' =>
       /\ ~NoneBegun /\ ~Under("main", e)
       /\ \E s \in Stations : desk[s] = "swap" /\ desk'[s] = "place"]_fileVars

(* Both: through deaths, refused renames and launches that find no register,*)
(* what was recorded is in the folder, and goes in that one way only.       *)
NothingIsLost == []RegisterHasAll /\ LostOnlyToASecond

(* A change of the password that was reported done is done, and one that    *)
(* was reported as failed left the register under the key it had and under  *)
(* its own name; aside only if both renames of the swap were refused: the   *)
(* operator is never told to use a password the register does not have.     *)
ToldIsTrue ==
  [][\A s \in Stations :
       desk[s] \in {"verify", "swap", "place", "placed"} /\ desk'[s] = "closed"
       => /\ told' = "failed" =>
               /\ folder'[Holder'] # NoFile /\ file[folder'[Holder']].key # wanted[s]
               /\ folder'["main"] = NoFile => spared'.faults = spared.faults - 2
          /\ told' = "changed" =>
               /\ folder'["main"] # NoFile /\ file[folder'["main"]].key = wanted[s]]_fileVars

(* The steps of the old runs become rows once each, a blob that cannot be   *)
(* read keeps its run and loses its steps, and the blobs go only after:     *)
(* whichever of the migration's statements the program died after.          *)
StepsBecomeRows ==
  \A f \in 0..LastFile : file[f] # NoFile =>
    /\ \A r \in Runs : file[f].rows[r] <= 1
    /\ ~file[f].blobs => \A r \in file[f].runs \ Unreadable : file[f].rows[r] = 1

(* A copy is removed only for newer ones: those kept are newer than every   *)
(* one removed, and short of the number to keep by one at most, when a copy *)
(* is asked for twice under one stamp.                                      *)
CopiesAreKept ==
  [][\A c \in copies \ copies' : /\ \A d \in copies' : d.day > c.day
                                 /\ Cardinality(copies') >= Keep - 1]_fileVars

(* What the documents say: of a migration, docs/data-model.md; of a change  *)
(* of the password that is interrupted or fails, docs/operations.md.        *)
UpgradeCanBeRepeated ==
  \A s \in Stations : desk[s] = "migrating" /\ step[s] <= Len(Script)
    => ~Refused(file[conn[s]], Script[step[s]].does, Script[step[s]].to)
RegisterStands == folder["main"] # NoFile
RegisterIsWhole == folder["main"] # NoFile => \A e \in recorded : Under("main", e)
FailedIsUntouched == told = "failed" => folder["main"] # NoFile
=============================================================================
