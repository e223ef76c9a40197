---------------------------- MODULE Storage_proofs ----------------------------
(* The file a register lives in (RegisterFile) and the copy of its trail    *)
(* that is kept apart from it (AuditMirror).                                *)
EXTENDS RegisterFile, AuditMirror, FiniteSetTheorems, WellFoundedInduction, TLAPS

(***************************************************************************)
(* The file.  The first part is of any number of programs that have the    *)
(* register open; the second of one, which is what the lease of a          *)
(* synchronised folder is for: two lose what one of them records while the *)
(* other replaces the file.                                                *)
(***************************************************************************)

Places == {"closed", "migrating", "open", "export", "verify", "swap", "place", "placed"}
Connects == {"migrating", "open", "export", "verify"}
Slots == (0..LastFile) \cup {NoFile}
SparedRange == [changes : 0..Changes, starts : 0..Starts, deaths : Nat, faults : Nat]

(***************************************************************************)
(* The invariant for any number of programs.                                *)
(***************************************************************************)

FilesOK == file \in [0..LastFile -> Contents \cup {NoFile}]

FolderOK ==
  /\ folder \in [Names -> Slots]
  /\ \A n \in Names : folder[n] # NoFile => file[folder[n]] # NoFile

(* Where a program stands that needs its connection, it has one.            *)
StationsOK ==
  /\ desk \in [Stations -> Places] /\ conn \in [Stations -> Slots]
  /\ step \in [Stations -> 1..12] /\ wanted \in [Stations -> Passwords]
  /\ \A s \in Stations : conn[s] # NoFile => file[conn[s]] # NoFile
  /\ \A s \in Stations : desk[s] \in Connects => conn[s] # NoFile

RestOK ==
  /\ today \in 0..Days /\ told \in {"nothing", "failed", "changed"}
  /\ recorded \subseteq Entries
  /\ spared \in SparedRange

(* There is a file for every export and every beginning still to come.      *)
Exporters == {s \in Stations : desk[s] = "export"}
Room ==
  \E u \in 0..LastFile :
    /\ \A f \in 0..LastFile : file[f] # NoFile <=> f <= u
    /\ u + spared.changes + spared.starts + Cardinality(Exporters) <= LastFile

(* The rows are there before the blobs go, and before the version says so.  *)
RowsKept(g) == \A r \in g.runs \ Unreadable : g.rows[r] = 1
Kept(g) == (g.version >= 5 \/ ~g.blobs) => RowsKept(g)
FilesKept == \A f \in 0..LastFile : file[f] # NoFile => Kept(file[f])
Filled == \A s \in Stations : desk[s] = "migrating" /\ step[s] > 6 => RowsKept(file[conn[s]])

FileInv ==
  /\ FilesOK /\ FolderOK /\ StationsOK /\ RestOK
  /\ Room /\ FilesKept /\ Filled

(***************************************************************************)
(* Lemmas.                                                                  *)
(***************************************************************************)

LEMMA Bounds ==
  /\ Changes \in Nat /\ Starts \in Nat /\ Days \in Nat /\ Deaths \in Nat /\ Faults \in Nat
  /\ LastFile \in Nat /\ Changes + Starts <= LastFile
  /\ NoFile \notin 0..LastFile /\ NoFile \notin Contents
  /\ IsFiniteSet(Stations) /\ NoPassword \in Passwords
BY FileAssumption DEF FileAssumption

LEMMA SmallestNumber ==
  ASSUME NEW S, S \subseteq Nat, S # {}
  PROVE  Min(S) \in S /\ \A x \in S : Min(S) <= x
<1>1. \E x \in S : \A y \in S : <<y, x>> \notin OpToRel(<, Nat)
  BY NatLessThanWellFounded, WFMin
<1>2. PICK x \in S : \A y \in S : x <= y
  <2>1. PICK x \in S : \A y \in S : <<y, x>> \notin OpToRel(<, Nat)
    BY <1>1
  <2>2. \A y \in S : ~(y < x)
    BY <2>1 DEF OpToRel
  <2> QED BY <2>2
<1> QED BY <1>2 DEF Min

LEMMA ScriptFacts ==
  /\ Len(Script) = 11
  /\ \A i \in 1..11 :
       /\ Script[i].to \in 1..9
       /\ Script[i].does \in {"tables", "column", "fill", "drop"}
       /\ Script[i].does = "column" => Script[i].to \in 2..4
       /\ Script[i].does = "drop" => i = 7
       /\ i = 6 => Script[i].does = "fill"
  /\ Script[6].to = 5
<1>1. Len(Script) = 11
  BY DEF Script
<1>2. /\ Script[1] = [to |-> 1, does |-> "tables"] /\ Script[2] = [to |-> 2, does |-> "column"]
      /\ Script[3] = [to |-> 3, does |-> "column"] /\ Script[4] = [to |-> 4, does |-> "column"]
      /\ Script[5] = [to |-> 5, does |-> "tables"] /\ Script[6] = [to |-> 5, does |-> "fill"]
      /\ Script[7] = [to |-> 5, does |-> "drop"] /\ Script[8] = [to |-> 6, does |-> "tables"]
      /\ Script[9] = [to |-> 7, does |-> "tables"] /\ Script[10] = [to |-> 8, does |-> "tables"]
      /\ Script[11] = [to |-> 9, does |-> "tables"]
  BY DEF Script
<1> QED BY <1>1, <1>2

LEMMA FileFields ==
  ASSUME FilesOK, NEW f \in 0..LastFile, file[f] # NoFile
  PROVE  /\ file[f] \in Contents /\ file[f].version \in 0..9 /\ file[f].blobs \in BOOLEAN
         /\ file[f].rows \in [Runs -> 0..1] /\ file[f].entries \subseteq Entries
         /\ file[f].key \in Passwords /\ file[f].runs \subseteq Runs
BY DEF FilesOK, Contents, SchemaVersion

(* The next free file is free, and no number below it is.                   *)
LEMMA NextFree ==
  ASSUME NEW u \in 0..LastFile, u < LastFile,
         \A f \in 0..LastFile : file[f] # NoFile <=> f <= u
  PROVE  NewFile = u + 1
<1> DEFINE free == {f \in 0..LastFile : file[f] = NoFile}
<1>1. u + 1 \in free /\ free \subseteq Nat /\ \A f \in free : u + 1 <= f
  BY Bounds
<1>2. Min(free) \in free /\ \A x \in free : Min(free) <= x
  BY <1>1, SmallestNumber
<1>3. NewFile = Min(free)
  BY DEF NewFile
<1> HIDE DEF free
<1>4. NewFile \in Nat /\ NewFile <= u + 1 /\ u + 1 <= NewFile
  BY <1>1, <1>2, <1>3
<1> QED BY <1>4

(***************************************************************************)
(* The shapes of a step.                                                    *)
(***************************************************************************)

(* Program s goes to a place with connection c at statement k of the        *)
(* migration; the files are as they were.                                   *)
Goes(s, place, c, k) ==
  /\ desk' = [desk EXCEPT ![s] = place]
  /\ conn' = [conn EXCEPT ![s] = c]
  /\ step' = [step EXCEPT ![s] = k]

LEMMA StationMoves ==
  ASSUME FileInv, NEW s \in Stations, NEW place \in Places, NEW c \in Slots, NEW k \in 1..12,
         Goes(s, place, c, k), UNCHANGED file, wanted' \in [Stations -> Passwords],
         c # NoFile => file[c] # NoFile,
         place \in Connects => c # NoFile,
         place = "migrating" /\ k > 6 => RowsKept(file[c])
  PROVE  FilesOK' /\ StationsOK' /\ FilesKept' /\ Filled'
<1>1. /\ desk' \in [Stations -> Places] /\ conn' \in [Stations -> Slots]
      /\ step' \in [Stations -> 1..12]
  BY DEF Goes, FileInv, StationsOK
<1>2. /\ desk'[s] = place /\ conn'[s] = c /\ step'[s] = k
      /\ \A t \in Stations \ {s} : desk'[t] = desk[t] /\ conn'[t] = conn[t] /\ step'[t] = step[t]
  BY DEF Goes, FileInv, StationsOK
<1>3. StationsOK'
  BY <1>1, <1>2 DEF FileInv, StationsOK
<1>4. Filled'
  BY <1>2 DEF FileInv, Filled, RowsKept
<1>5. FilesOK' /\ FilesKept'
  BY DEF FileInv, FilesOK, FilesKept, Kept, RowsKept
<1> QED BY <1>3, <1>4, <1>5

LEMMA Stays ==
  ASSUME FileInv, NEW s \in Stations
  PROVE  /\ desk = [desk EXCEPT ![s] = desk[s]] /\ desk[s] \in Places
         /\ conn = [conn EXCEPT ![s] = conn[s]] /\ conn[s] \in Slots
         /\ step = [step EXCEPT ![s] = step[s]] /\ step[s] \in 1..12
         /\ wanted[s] \in Passwords
         /\ conn[s] # NoFile => conn[s] \in 0..LastFile /\ file[conn[s]] # NoFile
         /\ desk[s] \in Connects => conn[s] # NoFile
BY DEF FileInv, StationsOK, Slots

(* Nobody comes to export, and no change is given back.                     *)
LEMMA RoomStays ==
  ASSUME FileInv, Exporters' \subseteq Exporters,
         \A f \in 0..LastFile : file'[f] # NoFile <=> file[f] # NoFile,
         spared' \in SparedRange,
         spared'.changes <= spared.changes, spared'.starts <= spared.starts
  PROVE  Room'
<1>1. PICK u \in 0..LastFile :
        /\ \A f \in 0..LastFile : file[f] # NoFile <=> f <= u
        /\ u + spared.changes + spared.starts + Cardinality(Exporters) <= LastFile
  BY DEF FileInv, Room
<1>2. IsFiniteSet(Exporters)
  BY Bounds, FS_Subset DEF Exporters
<1>3. /\ Cardinality(Exporters') <= Cardinality(Exporters)
      /\ Cardinality(Exporters') \in Nat /\ Cardinality(Exporters) \in Nat
  BY <1>2, FS_Subset, FS_CardinalityType
<1>4. /\ spared.changes \in Nat /\ spared'.changes \in Nat
      /\ spared.starts \in Nat /\ spared'.starts \in Nat
  BY Bounds DEF FileInv, RestOK, SparedRange
<1>5. u + spared'.changes + spared'.starts + Cardinality(Exporters') <= LastFile
  BY <1>1, <1>3, <1>4, Bounds
<1> QED BY <1>1, <1>5 DEF Room

LEMMA ExportersShrink ==
  ASSUME FileInv, NEW s \in Stations, NEW place, place # "export",
         desk' = [desk EXCEPT ![s] = place]
  PROVE  Exporters' \subseteq Exporters \ {s}
BY DEF Exporters, FileInv, StationsOK

LEMMA RenameKeeps ==
  ASSUME FileInv, UNCHANGED file, NEW from \in Names, NEW to \in Names, Rename(from, to)
  PROVE  FolderOK'
<1>1. folder' \in [Names -> Slots]
  BY DEF Rename, FileInv, FolderOK, Slots
<1>2. \A n \in Names : folder'[n] # NoFile => folder'[n] \in {folder[m] : m \in Names}
  BY DEF Rename, FileInv, FolderOK, Slots
<1>3. \A n \in Names : folder'[n] # NoFile => file[folder'[n]] # NoFile
  BY <1>2 DEF FileInv, FolderOK
<1> QED BY <1>1, <1>3 DEF FolderOK

LEMMA UnlinkKeeps ==
  ASSUME FileInv, UNCHANGED file, NEW n \in Names, Unlink(n)
  PROVE  FolderOK'
BY DEF Unlink, FileInv, FolderOK, Slots

LEMMA FolderStays ==
  ASSUME FileInv, UNCHANGED <<file, folder>>
  PROVE  FolderOK'
BY DEF FileInv, FolderOK

LEMMA SparedFields ==
  ASSUME FileInv
  PROVE  /\ spared \in SparedRange
         /\ spared.changes \in 0..Changes /\ spared.starts \in 0..Starts
         /\ spared.deaths \in Nat /\ spared.faults \in Nat
         /\ spared.changes \in Nat /\ spared.starts \in Nat
BY Bounds DEF FileInv, RestOK, SparedRange

(* A program leaves, of itself or not.                                      *)
LEMMA LeavesKeep ==
  ASSUME FileInv, NEW s \in Stations, Leave(s),
         UNCHANGED <<file, step, wanted, today, recorded>>, FolderOK',
         told' \in {"nothing", "failed", "changed"},
         spared' \in SparedRange,
         spared'.changes = spared.changes /\ spared'.starts = spared.starts
  PROVE  FileInv'
<1>1. Goes(s, "closed", NoFile, step[s])
  BY Stays DEF Leave, Stand, Goes
<1>2. "closed" \in Places \ Connects /\ NoFile \in Slots /\ "closed" # "migrating"
  BY DEF Places, Connects, Slots
<1>3. FilesOK' /\ StationsOK' /\ FilesKept' /\ Filled'
  BY <1>1, <1>2, Stays, StationMoves DEF FileInv, StationsOK
<1>4. Exporters' \subseteq Exporters
  BY ExportersShrink DEF Leave, Stand
<1>5. Room'
  BY <1>4, RoomStays, SparedFields
<1>6. RestOK'
  BY DEF FileInv, RestOK
<1> QED BY <1>3, <1>5, <1>6 DEF FileInv

(* A program goes on to another statement.                                  *)
LEMMA GoesOnKeeps ==
  ASSUME FileInv, NEW s \in Stations, NEW place \in Places \ {"migrating", "export"},
         NEW c \in {conn[s], NoFile},
         Goes(s, place, c, step[s]),
         place \in Connects => c = conn[s] /\ desk[s] \in Connects,
         UNCHANGED <<file, wanted, today, told, recorded, spared>>, FolderOK'
  PROVE  FileInv'
<1>1. FilesOK' /\ StationsOK' /\ FilesKept' /\ Filled'
  <2>1. /\ place \in Places /\ place # "migrating" /\ c \in Slots /\ step[s] \in 1..12
        /\ c # NoFile => file[c] # NoFile
        /\ place \in Connects => c # NoFile
    BY Stays DEF Slots
  <2>2. wanted' \in [Stations -> Passwords]
    BY DEF FileInv, StationsOK
  <2> QED BY <2>1, <2>2, StationMoves
<1>2. Exporters' \subseteq Exporters
  BY ExportersShrink DEF Goes
<1>3. Room'
  BY <1>2, RoomStays, SparedFields DEF FileInv, RestOK
<1>4. RestOK'
  BY DEF FileInv, RestOK
<1> QED BY <1>1, <1>3, <1>4 DEF FileInv

(***************************************************************************)
(* Every action.                                                            *)
(***************************************************************************)

LEMMA MainFields ==
  ASSUME FileInv, folder["main"] # NoFile
  PROVE  /\ folder["main"] \in 0..LastFile /\ file[folder["main"]] # NoFile
         /\ MainFile.version \in 0..9 /\ MainFile = file[folder["main"]]
<1>1. folder["main"] \in 0..LastFile /\ file[folder["main"]] # NoFile
  BY DEF FileInv, FolderOK, Names, Slots
<1> QED BY <1>1, FileFields DEF FileInv, MainFile

(* Where the migration of a file begins: past the fill only if its version  *)
(* says the fill is done.                                                   *)
LEMMA FirstStatement ==
  ASSUME NEW v \in 0..9
  PROVE  LET k == Min({i \in 1..(Len(Script) + 1) : i <= Len(Script) => Script[i].to > v})
         IN k \in 1..12 /\ (k > 6 => v >= 5)
<1> DEFINE todo == {i \in 1..(Len(Script) + 1) : i <= Len(Script) => Script[i].to > v}
<1>1. 12 \in todo /\ todo \subseteq 1..12 /\ todo \subseteq Nat
  BY ScriptFacts
<1>2. Script[6].to > v => 6 \in todo
  BY ScriptFacts
<1> HIDE DEF todo
<1>3. Min(todo) \in todo /\ \A x \in todo : Min(todo) <= x
  BY <1>1, SmallestNumber
<1>4. Min(todo) > 6 => v >= 5
  <2>1. Min(todo) \in 1..12 /\ (6 \in todo => Min(todo) <= 6)
    BY <1>1, <1>3
  <2>2. 5 > v => 6 \in todo
    BY <1>2, ScriptFacts
  <2> QED BY <2>1, <2>2
<1> QED BY <1>1, <1>3, <1>4 DEF todo

LEMMA OpenFileKeeps ==
  ASSUME FileInv, NEW s \in Stations, OpenFile(s)
  PROVE  FileInv'
<1> DEFINE k == Min({i \in 1..(Len(Script) + 1) : i <= Len(Script) => Script[i].to > MainFile.version})
           place == IF MainFile.version = SchemaVersion THEN "open" ELSE "migrating"
           c == folder["main"]
<1>1. /\ c \in 0..LastFile /\ c # NoFile /\ file[c] # NoFile
      /\ MainFile.version \in 0..9 /\ MainFile = file[c]
  BY MainFields DEF OpenFile
<1>2. k \in 1..12 /\ (k > 6 => MainFile.version >= 5)
  BY <1>1, FirstStatement
<1>3. Goes(s, place, c, k)
  BY DEF OpenFile, Stand, Goes
<1>4. place \in {"open", "migrating"} /\ place \in Places /\ place # "export" /\ c \in Slots
  BY <1>1 DEF Places, Slots
<1>5. k > 6 => RowsKept(file[c])
  BY <1>1, <1>2 DEF FileInv, FilesKept, Kept
<1> HIDE DEF k, place, c
<1>6. UNCHANGED <<file, folder, today, wanted, told, recorded, spared>>
  BY DEF OpenFile
<1>7. wanted' \in [Stations -> Passwords]
  BY <1>6 DEF FileInv, StationsOK
<1>8. FilesOK' /\ StationsOK' /\ FilesKept' /\ Filled'
  BY <1>1, <1>2, <1>3, <1>4, <1>5, <1>6, <1>7, StationMoves
<1>9. Exporters' \subseteq Exporters
  BY <1>3, <1>4, ExportersShrink DEF Goes
<1>10. Room'
  BY <1>6, <1>9, RoomStays, SparedFields DEF FileInv, RestOK
<1>11. RestOK' /\ FolderOK'
  BY <1>6, FolderStays DEF FileInv, RestOK
<1> QED BY <1>8, <1>10, <1>11 DEF FileInv

(* An empty register is a file that was not there.                          *)
LEMMA EmptyFileIsOK ==
  ASSUME NEW password \in Passwords
  PROVE  /\ EmptyFile(password) \in Contents /\ EmptyFile(password) # NoFile
         /\ EmptyFile(password).runs = {} /\ EmptyFile(password).entries = {}
         /\ RowsKept(EmptyFile(password)) /\ Kept(EmptyFile(password))
<1> DEFINE g == EmptyFile(password)
<1>1. FileAt(0) \in Contents /\ FileAt(0).entries = {}
  BY Bounds DEF FileAt, Contents, SchemaVersion
<1>2. g \in Contents /\ g.runs = {} /\ g.entries = {}
  BY <1>1 DEF EmptyFile, Contents
<1> HIDE DEF g
<1>3. RowsKept(g)
  BY <1>2 DEF RowsKept
<1> QED BY <1>2, <1>3, Bounds DEF g, Kept

(* The launch that finds no register gives one of the files kept for it.    *)
LEMMA StartUpIsNew ==
  ASSUME FileInv, NEW s \in Stations, NEW password \in Passwords, StartUp(s, password)
  PROVE  \E u \in 0..LastFile :
           /\ NewFile = u + 1 /\ NewFile \in 0..LastFile /\ NewFile # NoFile
           /\ file[NewFile] = NoFile
           /\ \A h \in 0..LastFile : file[h] # NoFile <=> h <= u
           /\ u + spared.changes + spared.starts + Cardinality(Exporters) <= LastFile
<1>1. PICK u \in 0..LastFile :
        /\ \A h \in 0..LastFile : file[h] # NoFile <=> h <= u
        /\ u + spared.changes + spared.starts + Cardinality(Exporters) <= LastFile
  BY DEF FileInv, Room
<1>2. IsFiniteSet(Exporters) /\ Cardinality(Exporters) \in Nat
  BY Bounds, FS_Subset, FS_CardinalityType DEF Exporters
<1>3. spared.starts > 0
  BY DEF StartUp
<1>4. u < LastFile
  BY <1>1, <1>2, <1>3, SparedFields, Bounds
<1>5. NewFile = u + 1
  BY <1>1, <1>4, NextFree
<1>6. NewFile \in 0..LastFile
  BY <1>4, <1>5, Bounds
<1>7. NewFile # NoFile /\ file[NewFile] = NoFile
  BY <1>1, <1>5, <1>6, Bounds
<1> QED BY <1>1, <1>5, <1>6, <1>7

LEMMA StartUpKeeps ==
  ASSUME FileInv, NEW s \in Stations, NEW password \in Passwords, StartUp(s, password)
  PROVE  FileInv'
<1> DEFINE n == NewFile
           g == EmptyFile(password)
<1>1. PICK u \in 0..LastFile :
        /\ n = u + 1 /\ n \in 0..LastFile /\ n # NoFile /\ file[n] = NoFile
        /\ \A h \in 0..LastFile : file[h] # NoFile <=> h <= u
        /\ u + spared.changes + spared.starts + Cardinality(Exporters) <= LastFile
  BY StartUpIsNew
<1>2. IsFiniteSet(Exporters) /\ Cardinality(Exporters) \in Nat
  BY Bounds, FS_Subset, FS_CardinalityType DEF Exporters
<1>6. g \in Contents /\ g # NoFile /\ Kept(g) /\ RowsKept(g)
  BY EmptyFileIsOK
<1>7. /\ file' = [file EXCEPT ![n] = g] /\ folder' = [folder EXCEPT !["main"] = n]
      /\ desk' = [desk EXCEPT ![s] = "migrating"] /\ conn' = [conn EXCEPT ![s] = n]
      /\ step' = [step EXCEPT ![s] = 1]
      /\ spared' = [spared EXCEPT !.starts = @ - 1] /\ spared.starts > 0
      /\ UNCHANGED <<today, wanted, told, recorded>>
  BY DEF StartUp, Stand
<1> HIDE DEF n, g
<1>8. /\ file' \in [0..LastFile -> Contents \cup {NoFile}] /\ file'[n] = g
      /\ \A h \in 0..LastFile : h # n => file'[h] = file[h]
  BY <1>1, <1>6, <1>7 DEF FileInv, FilesOK
<1>9. FilesOK' /\ FilesKept'
  <2>1. \A h \in 0..LastFile : file'[h] # NoFile => Kept(file'[h])
    BY <1>6, <1>8 DEF FileInv, FilesKept
  <2>2. FilesKept'
    BY <2>1 DEF FilesKept, Kept, RowsKept
  <2> QED BY <1>8, <2>2 DEF FilesOK
<1>10. \A h \in 0..LastFile : file[h] # NoFile => file'[h] # NoFile /\ file'[h] = file[h]
  BY <1>1, <1>8
<1>11. FolderOK'
  <2>1. folder' \in [Names -> Slots]
    BY <1>1, <1>7 DEF FileInv, FolderOK, Slots
  <2>2. \A m \in Names : folder'[m] = n \/ folder'[m] = folder[m]
    BY <1>7 DEF FileInv, FolderOK
  <2>3. ASSUME NEW m \in Names, folder'[m] # NoFile PROVE file'[folder'[m]] # NoFile
    BY <1>6, <1>8, <1>10, <2>1, <2>2, <2>3 DEF FileInv, FolderOK, Slots
  <2> QED BY <2>1, <2>3 DEF FolderOK
<1>12. /\ desk'[s] = "migrating" /\ conn'[s] = n /\ step'[s] = 1
       /\ \A t \in Stations \ {s} : desk'[t] = desk[t] /\ conn'[t] = conn[t] /\ step'[t] = step[t]
       /\ desk' \in [Stations -> Places] /\ conn' \in [Stations -> Slots]
       /\ step' \in [Stations -> 1..12]
  BY <1>1, <1>7 DEF FileInv, StationsOK, Places, Slots
<1>13. StationsOK'
  <2>1. ASSUME NEW t \in Stations
        PROVE  /\ conn'[t] # NoFile => file'[conn'[t]] # NoFile
               /\ desk'[t] \in Connects => conn'[t] # NoFile
    <3>1. CASE t = s
      BY <1>1, <1>6, <1>8, <1>12, <3>1
    <3>2. CASE t # s
      BY <1>10, <1>12, <3>2, Stays
    <3> QED BY <3>1, <3>2
  <2>2. wanted' \in [Stations -> Passwords]
    BY <1>7 DEF FileInv, StationsOK
  <2> QED BY <1>12, <2>1, <2>2 DEF StationsOK
<1>14. Filled'
  <2>1. SUFFICES ASSUME NEW t \in Stations, desk'[t] = "migrating", step'[t] > 6
                 PROVE  RowsKept(file'[conn'[t]])
    BY DEF Filled, RowsKept
  <2>2. t # s
    BY <1>12, <2>1
  <2>3. conn[t] \in 0..LastFile /\ file[conn[t]] # NoFile /\ desk[t] = "migrating"
    BY <1>12, <2>1, <2>2, Stays DEF Connects
  <2> QED BY <1>10, <1>12, <2>1, <2>2, <2>3 DEF FileInv, Filled
<1>15. /\ spared' \in SparedRange /\ spared'.changes = spared.changes
       /\ spared'.starts = spared.starts - 1
  <2>1. spared.starts - 1 \in 0..Starts
    BY <1>7, SparedFields, Bounds
  <2> QED BY <1>7, <2>1, SparedFields DEF SparedRange
<1>16. Room'
  <2>1. Exporters' \subseteq Exporters
    BY <1>7, ExportersShrink
  <2>2. Cardinality(Exporters') \in Nat /\ Cardinality(Exporters') <= Cardinality(Exporters)
    BY <1>2, <2>1, FS_Subset, FS_CardinalityType
  <2>3. \A h \in 0..LastFile : file'[h] # NoFile <=> h <= n
    BY <1>1, <1>6, <1>8
  <2>4. n + spared'.changes + spared'.starts + Cardinality(Exporters') <= LastFile
    BY <1>1, <1>2, <1>15, <2>2, SparedFields, Bounds
  <2> QED BY <1>1, <2>3, <2>4 DEF Room
<1>17. RestOK'
  BY <1>7, <1>15 DEF FileInv, RestOK
<1> QED BY <1>9, <1>11, <1>13, <1>14, <1>16, <1>17 DEF FileInv

(* A file that is written where it is: f becomes g.                         *)
LEMMA WrittenKeeps ==
  ASSUME FileInv, NEW f \in 0..LastFile, file[f] # NoFile, NEW g \in Contents,
         file' = [file EXCEPT ![f] = g],
         RowsKept(file[f]) => RowsKept(g), Kept(g)
  PROVE  /\ FilesOK' /\ FilesKept'
         /\ \A h \in 0..LastFile : file'[h] # NoFile <=> file[h] # NoFile
         /\ \A h \in 0..LastFile : RowsKept(file[h]) => RowsKept(file'[h])
<1>1. g # NoFile
  BY Bounds
<1>2. /\ file'[f] = g /\ file' \in [0..LastFile -> Contents \cup {NoFile}]
      /\ \A h \in (0..LastFile) \ {f} : file'[h] = file[h]
  BY DEF FileInv, FilesOK
<1>3. /\ \A h \in 0..LastFile : file'[h] # NoFile <=> file[h] # NoFile
      /\ \A h \in 0..LastFile : RowsKept(file[h]) => RowsKept(file'[h])
  BY <1>1, <1>2
<1>4. \A h \in 0..LastFile : file'[h] # NoFile => Kept(file'[h])
  BY <1>2 DEF FileInv, FilesKept
<1>5. FilesOK'
  BY <1>2 DEF FilesOK
<1>6. FilesKept'
  BY <1>4 DEF FilesKept, Kept, RowsKept
<1> QED BY <1>3, <1>5, <1>6

LEMMA FolderOfWritten ==
  ASSUME FileInv, UNCHANGED folder,
         \A h \in 0..LastFile : file'[h] # NoFile <=> file[h] # NoFile
  PROVE  FolderOK'
BY DEF FileInv, FolderOK, Slots

LEMMA StationsOfWritten ==
  ASSUME FileInv, UNCHANGED <<conn, wanted>>, desk' \in [Stations -> Places],
         step' \in [Stations -> 1..12],
         \A s \in Stations : desk'[s] \in Connects => desk[s] \in Connects,
         \A h \in 0..LastFile : file'[h] # NoFile <=> file[h] # NoFile
  PROVE  StationsOK'
BY DEF FileInv, StationsOK, Slots

LEMMA RecordKeeps ==
  ASSUME FileInv, NEW s \in Stations, NEW e \in Entries, Record(s, e)
  PROVE  FileInv'
<1> DEFINE f == conn[s]
           g == [file[f] EXCEPT !.entries = @ \cup {e}]
<1>1. f \in 0..LastFile /\ file[f] # NoFile
  BY Stays DEF Record, Connects
<1>2. g \in Contents /\ g.rows = file[f].rows /\ g.runs = file[f].runs /\ g.version = file[f].version /\ g.blobs = file[f].blobs
  BY <1>1, FileFields DEF FileInv, Contents
<1>3. Kept(file[f])
  BY <1>1 DEF FileInv, FilesKept
<1>4. Kept(g) /\ (RowsKept(file[f]) => RowsKept(g))
  BY <1>2, <1>3 DEF Kept, RowsKept
<1>5. file' = [file EXCEPT ![f] = g]
  BY DEF Record
<1> HIDE DEF f, g
<1>6. /\ FilesOK' /\ FilesKept'
      /\ \A h \in 0..LastFile : file'[h] # NoFile <=> file[h] # NoFile
      /\ \A h \in 0..LastFile : RowsKept(file[h]) => RowsKept(file'[h])
  BY <1>1, <1>2, <1>4, <1>5, WrittenKeeps
<1>7. FolderOK' /\ StationsOK'
  BY <1>6, FolderOfWritten, StationsOfWritten DEF Record, FileInv, StationsOK
<1>8. Filled'
  BY <1>6, Stays DEF Record, FileInv, Filled, Connects
<1>9. RestOK' /\ Room'
  BY <1>6, RoomStays, SparedFields DEF Record, FileInv, RestOK, Exporters
<1> QED BY <1>6, <1>7, <1>8, <1>9 DEF FileInv

(* One statement of the migration on file f: it takes no row back, the fill *)
(* fills, and only the drop, which comes after, lets go of the blobs.       *)
LEMMA MigratedIsKept ==
  ASSUME NEW f \in Contents, NEW k \in 1..11, Kept(f), k > 6 => RowsKept(f)
  PROVE  LET g == Migrated(f, Script[k].does, Script[k].to)
         IN /\ g \in Contents /\ Kept(g)
            /\ RowsKept(f) => RowsKept(g)
            /\ k + 1 > 6 => RowsKept(g)
            /\ g.key = f.key /\ g.entries = f.entries
<1> DEFINE does == Script[k].does
           to == Script[k].to
           g == Migrated(f, does, to)
<1> SUFFICES /\ g \in Contents /\ Kept(g)
             /\ RowsKept(f) => RowsKept(g)
             /\ k + 1 > 6 => RowsKept(g)
             /\ g.key = f.key /\ g.entries = f.entries
  OBVIOUS
<1>1. /\ does \in {"tables", "column", "fill", "drop"} /\ (does = "column" => to \in 2..4)
      /\ (does = "drop" => k = 7) /\ (k = 6 => does = "fill")
  BY ScriptFacts
<1> HIDE DEF does, to
<1>2. /\ f.version \in 0..9 /\ f.blobs \in BOOLEAN /\ f.rows \in [Runs -> 0..1]
      /\ f.columns \in SUBSET (2..4) /\ f.runs \in SUBSET Runs
  BY DEF Contents, SchemaVersion
<1>3. CASE does = "tables"
  <2>1. g = f
    BY <1>3 DEF Migrated
  <2> QED BY <1>1, <1>3, <2>1
<1>4. CASE does = "column"
  <2>1. g = [f EXCEPT !.columns = @ \cup {to}]
    BY <1>4 DEF Migrated
  <2> HIDE DEF g
  <2>2. f.columns \cup {to} \in SUBSET (2..4)
    BY <1>1, <1>2, <1>4
  <2>3. /\ g \in Contents /\ g.version = f.version /\ g.blobs = f.blobs /\ g.rows = f.rows
        /\ g.runs = f.runs /\ g.key = f.key /\ g.entries = f.entries
    BY <2>1, <2>2 DEF Contents
  <2> QED BY <1>1, <1>4, <2>3 DEF Kept, RowsKept, g
<1>5. CASE does = "fill"
  <2>1. g = [f EXCEPT !.rows = Backfill(f)]
    BY <1>5 DEF Migrated
  <2> HIDE DEF g
  <2>2. Backfill(f) \in [Runs -> 0..1]
    BY <1>2 DEF Backfill
  <2>3. /\ g \in Contents /\ g.version = f.version /\ g.blobs = f.blobs
        /\ g.rows = Backfill(f) /\ g.runs = f.runs /\ g.key = f.key /\ g.entries = f.entries
    BY <2>1, <2>2 DEF Contents
  <2>4. RowsKept(g)
    BY <1>2, <2>3 DEF RowsKept, Backfill
  <2> QED BY <2>3, <2>4 DEF Kept, g
<1>6. CASE does = "drop"
  <2>1. g = [f EXCEPT !.blobs = FALSE]
    BY <1>6 DEF Migrated
  <2> HIDE DEF g
  <2>2. /\ g \in Contents /\ g.rows = f.rows /\ g.runs = f.runs /\ g.key = f.key /\ g.entries = f.entries
    BY <2>1 DEF Contents
  <2>3. RowsKept(f)
    BY <1>1, <1>6
  <2>4. RowsKept(g)
    BY <2>2, <2>3 DEF RowsKept
  <2> QED BY <2>2, <2>4 DEF Kept, g
<1> QED BY <1>1, <1>3, <1>4, <1>5, <1>6

LEMMA MigrateKeeps ==
  ASSUME FileInv, NEW s \in Stations, Migrate(s)
  PROVE  FileInv'
<1> DEFINE f == conn[s]
           k == step[s]
           g == Migrated(file[f], Script[k].does, Script[k].to)
<1>1. f \in 0..LastFile /\ file[f] # NoFile /\ k \in 1..11
  BY Stays, ScriptFacts DEF Migrate, Connects
<1>2. CASE Refused(file[f], Script[k].does, Script[k].to)
  <2>1. Leave(s) /\ UNCHANGED <<file, step, folder, wanted, today, told, recorded, spared>>
    BY <1>2 DEF Migrate
  <2>2. FolderOK'
    BY <2>1, FolderStays
  <2> QED BY <2>1, <2>2, LeavesKeep DEF FileInv, RestOK
<1>3. CASE ~Refused(file[f], Script[k].does, Script[k].to)
  <2>1. /\ file' = [file EXCEPT ![f] = g] /\ step' = [step EXCEPT ![s] = k + 1]
        /\ UNCHANGED <<desk, conn, folder, today, wanted, told, recorded, spared>>
    BY <1>3 DEF Migrate
  <2>2. Kept(file[f]) /\ (k > 6 => RowsKept(file[f]))
    BY <1>1 DEF Migrate, FileInv, FilesKept, Filled
  <2>3. /\ g \in Contents /\ Kept(g) /\ (RowsKept(file[f]) => RowsKept(g))
        /\ (k + 1 > 6 => RowsKept(g))
    BY <1>1, <2>2, FileFields, MigratedIsKept DEF FileInv
  <2> HIDE DEF f, k, g
  <2>4. /\ FilesOK' /\ FilesKept'
        /\ \A h \in 0..LastFile : file'[h] # NoFile <=> file[h] # NoFile
        /\ \A h \in 0..LastFile : RowsKept(file[h]) => RowsKept(file'[h])
    BY <1>1, <2>1, <2>3, WrittenKeeps
  <2>5. step' \in [Stations -> 1..12] /\ step'[s] = k + 1
        /\ \A t \in Stations \ {s} : step'[t] = step[t]
    BY <1>1, <2>1 DEF FileInv, StationsOK
  <2>6. FolderOK' /\ StationsOK'
    BY <2>1, <2>4, <2>5, FolderOfWritten, StationsOfWritten DEF FileInv, StationsOK
  <2>7. Filled'
    <3>1. SUFFICES ASSUME NEW t \in Stations, desk[t] = "migrating", step'[t] > 6
                   PROVE  RowsKept(file'[conn[t]])
      BY <2>1 DEF Filled, RowsKept
    <3>2. conn[t] \in 0..LastFile
      BY <3>1, Stays DEF Connects
    <3>3. CASE t = s
      <4>1. file'[conn[t]] = g
        BY <1>1, <2>1, <3>3 DEF f, FileInv, FilesOK
      <4> QED BY <2>3, <2>5, <3>1, <3>3, <4>1
    <3>4. CASE t # s
      BY <2>4, <2>5, <3>1, <3>2, <3>4 DEF FileInv, Filled
    <3> QED BY <3>3, <3>4
  <2>8. RestOK' /\ Room'
    BY <2>1, <2>4, RoomStays, SparedFields DEF FileInv, RestOK, Exporters
  <2> QED BY <2>4, <2>6, <2>7, <2>8 DEF FileInv
<1> QED BY <1>2, <1>3

LEMMA SetVersionKeeps ==
  ASSUME FileInv, NEW s \in Stations, SetVersion(s)
  PROVE  FileInv'
<1> DEFINE f == conn[s]
           g == [file[f] EXCEPT !.version = SchemaVersion]
<1>1. f \in 0..LastFile /\ file[f] # NoFile
  BY Stays DEF SetVersion, Connects
<1>2. g \in Contents /\ g.rows = file[f].rows /\ g.runs = file[f].runs
  BY <1>1, FileFields DEF FileInv, Contents, SchemaVersion
<1>3. RowsKept(file[f])
  BY ScriptFacts, Stays DEF SetVersion, FileInv, Filled
<1>4. Kept(g) /\ RowsKept(g)
  BY <1>2, <1>3 DEF Kept, RowsKept
<1>5. /\ file' = [file EXCEPT ![f] = g] /\ desk' = [desk EXCEPT ![s] = "open"]
      /\ UNCHANGED <<conn, folder, today, step, wanted, told, recorded, spared>>
  BY DEF SetVersion, Stand
<1> HIDE DEF f, g
<1>6. /\ FilesOK' /\ FilesKept'
      /\ \A h \in 0..LastFile : file'[h] # NoFile <=> file[h] # NoFile
      /\ \A h \in 0..LastFile : RowsKept(file[h]) => RowsKept(file'[h])
  BY <1>1, <1>2, <1>4, <1>5, WrittenKeeps
<1>7. /\ desk' \in [Stations -> Places] /\ desk'[s] = "open"
      /\ \A t \in Stations \ {s} : desk'[t] = desk[t]
  BY <1>5 DEF FileInv, StationsOK, Places
<1>8. FolderOK' /\ StationsOK'
  <2>1. \A t \in Stations : desk'[t] \in Connects => desk[t] \in Connects
    BY <1>7 DEF SetVersion, Connects
  <2> QED BY <1>5, <1>6, <1>7, <2>1, FolderOfWritten, StationsOfWritten DEF FileInv, StationsOK
<1>9. Filled'
  <2>1. SUFFICES ASSUME NEW t \in Stations, desk'[t] = "migrating", step[t] > 6
                 PROVE  RowsKept(file'[conn[t]])
    BY <1>5 DEF Filled, RowsKept
  <2>2. desk[t] = "migrating"
    BY <1>7, <2>1
  <2>3. conn[t] \in 0..LastFile
    BY <2>2, Stays DEF Connects
  <2> QED BY <1>6, <2>1, <2>2, <2>3 DEF FileInv, Filled
<1>10. RestOK' /\ Room'
  <2>1. Exporters' \subseteq Exporters
    BY <1>5, ExportersShrink
  <2> QED BY <1>5, <1>6, <2>1, RoomStays, SparedFields DEF FileInv, RestOK
<1> QED BY <1>6, <1>8, <1>9, <1>10 DEF FileInv

LEMMA CloseFileKeeps ==
  ASSUME FileInv, NEW s \in Stations, CloseFile(s)
  PROVE  FileInv'
BY LeavesKeep, FolderStays DEF CloseFile, FileInv, RestOK

LEMMA DieKeeps ==
  ASSUME FileInv, NEW s \in Stations, Die(s)
  PROVE  FileInv'
<1>1. /\ spared' \in SparedRange
      /\ spared'.changes = spared.changes /\ spared'.starts = spared.starts
  BY SparedFields DEF Die, SparedRange
<1> QED BY <1>1, LeavesKeep, FolderStays DEF Die, FileInv, RestOK

LEMMA FaultSpares ==
  ASSUME FileInv, NEW n \in Nat, Fault(n)
  PROVE  /\ spared' \in SparedRange
         /\ spared'.changes = spared.changes /\ spared'.starts = spared.starts
BY SparedFields DEF Fault, SparedRange

LEMMA Costs == \A n, m : Cost(n) \in Nat /\ Cost(n) + Cost(m) \in Nat
BY DEF Cost

(* Neither copies nor the day are anything to a file.                       *)
LEMMA CopiesKeep ==
  ASSUME FileInv, UNCHANGED <<file, folder, desk, step, conn, wanted, told, recorded, spared>>,
         today' \in 0..Days
  PROVE  FileInv'
<1>1. FilesOK' /\ FolderOK' /\ RestOK'
  BY DEF FileInv, FilesOK, FolderOK, RestOK
<1>2. StationsOK'
  BY DEF FileInv, StationsOK
<1>3. FilesKept' /\ Filled'
  BY DEF FileInv, FilesKept, Filled, Kept, RowsKept
<1>4. Room'
  BY DEF FileInv, Room, Exporters
<1> QED BY <1>1, <1>2, <1>3, <1>4 DEF FileInv

LEMMA BackupKeeps ==
  ASSUME FileInv, NEW s \in Stations, BackupIfDue(s)
  PROVE  FileInv'
BY CopiesKeep DEF BackupIfDue, FileInv, RestOK

LEMMA DayKeeps ==
  ASSUME FileInv, DayPasses
  PROVE  FileInv'
<1>1. today' \in 0..Days
  BY Bounds DEF DayPasses, FileInv, RestOK
<1> QED BY <1>1, CopiesKeep DEF DayPasses

(* The room for its export is what a change is given when it begins.        *)
LEMMA ChangeBeginKeeps ==
  ASSUME FileInv, NEW s \in Stations, NEW password \in Passwords, ChangeBegin(s, password)
  PROVE  FileInv'
<1>1. Goes(s, "export", conn[s], step[s]) /\ wanted' \in [Stations -> Passwords]
  BY Stays DEF ChangeBegin, Stand, Goes, FileInv, StationsOK
<1>2. "export" \in Places /\ "export" # "migrating" /\ desk[s] \in Connects
  BY DEF Places, Connects, ChangeBegin
<1>3. UNCHANGED <<file, folder, today, recorded>> /\ told' = "nothing"
  BY DEF ChangeBegin
<1>4. FilesOK' /\ StationsOK' /\ FilesKept' /\ Filled'
  BY <1>1, <1>2, <1>3, Stays, StationMoves
<1>5. /\ spared' \in SparedRange
      /\ spared'.changes = spared.changes - 1 /\ spared'.starts = spared.starts
  BY SparedFields, Bounds DEF ChangeBegin, SparedRange
<1>6. FolderOK' /\ RestOK'
  BY <1>3, <1>5, FolderStays DEF FileInv, RestOK
<1>7. Room'
  <2>1. PICK u \in 0..LastFile :
          /\ \A f \in 0..LastFile : file[f] # NoFile <=> f <= u
          /\ u + spared.changes + spared.starts + Cardinality(Exporters) <= LastFile
    BY DEF FileInv, Room
  <2>2. Exporters' = Exporters \cup {s} /\ s \notin Exporters
    BY <1>1, <1>2 DEF Goes, Exporters, FileInv, StationsOK, ChangeBegin
  <2>3. IsFiniteSet(Exporters)
    BY Bounds, FS_Subset DEF Exporters
  <2>4. Cardinality(Exporters') = Cardinality(Exporters) + 1 /\ Cardinality(Exporters) \in Nat
    BY <2>2, <2>3, FS_AddElement, FS_CardinalityType
  <2>5. u + spared'.changes + spared'.starts + Cardinality(Exporters') <= LastFile
    BY <1>5, <2>1, <2>4, SparedFields, Bounds
  <2> QED BY <1>3, <2>1, <2>5 DEF Room
<1> QED BY <1>4, <1>6, <1>7 DEF FileInv

(* The file an export writes is one that was not there.                     *)
LEMMA ExportIsNew ==
  ASSUME FileInv, NEW s \in Stations, Export(s)
  PROVE  /\ NewFile \in 0..LastFile /\ file[NewFile] = NoFile
         /\ \E u \in 0..LastFile :
              /\ NewFile = u + 1
              /\ \A f \in 0..LastFile : file[f] # NoFile <=> f <= u
              /\ u + spared.changes + spared.starts + Cardinality(Exporters) <= LastFile
         /\ s \in Exporters /\ IsFiniteSet(Exporters)
<1>1. PICK u \in 0..LastFile :
        /\ \A f \in 0..LastFile : file[f] # NoFile <=> f <= u
        /\ u + spared.changes + spared.starts + Cardinality(Exporters) <= LastFile
  BY DEF FileInv, Room
<1>2. s \in Exporters /\ IsFiniteSet(Exporters)
  BY Bounds, FS_Subset DEF Exporters, Export
<1>3. Cardinality(Exporters) >= 1
  <2>1. Cardinality(Exporters) \in Nat /\ Cardinality(Exporters) # 0
    BY <1>2, FS_CardinalityType, FS_EmptySet
  <2> QED BY <2>1
<1>4. Cardinality(Exporters) \in Nat
  BY <1>2, FS_CardinalityType
<1>5. u < LastFile
  BY <1>1, <1>3, <1>4, SparedFields, Bounds
<1>6. NewFile = u + 1
  BY <1>1, <1>5, NextFree
<1>7. NewFile \in 0..LastFile
  BY <1>5, <1>6, Bounds
<1>8. file[NewFile] = NoFile
  BY <1>1, <1>6, <1>7
<1> QED BY <1>1, <1>2, <1>6, <1>7, <1>8

LEMMA ExportKeeps ==
  ASSUME FileInv, NEW s \in Stations, Export(s)
  PROVE  FileInv'
<1> DEFINE n == NewFile
           f == conn[s]
           g == [file[f] EXCEPT !.key = wanted[s]]
<1>1. f \in 0..LastFile /\ file[f] # NoFile /\ wanted[s] \in Passwords
  BY Stays DEF Export, Connects
<1>2. PICK u \in 0..LastFile :
        /\ n = u + 1
        /\ \A h \in 0..LastFile : file[h] # NoFile <=> h <= u
        /\ u + spared.changes + spared.starts + Cardinality(Exporters) <= LastFile
  BY ExportIsNew
<1>3. n \in 0..LastFile /\ file[n] = NoFile /\ s \in Exporters /\ IsFiniteSet(Exporters)
  BY ExportIsNew
<1>4. /\ g \in Contents /\ g.rows = file[f].rows /\ g.runs = file[f].runs
      /\ g.version = file[f].version /\ g.blobs = file[f].blobs
  BY <1>1, FileFields DEF FileInv, Contents
<1>5. Kept(g) /\ g # NoFile
  BY <1>1, <1>4, Bounds DEF FileInv, FilesKept, Kept, RowsKept
<1>6. /\ file' = [file EXCEPT ![n] = g] /\ folder' = [folder EXCEPT !["target"] = n]
      /\ desk' = [desk EXCEPT ![s] = "verify"]
      /\ UNCHANGED <<today, step, conn, wanted, told, recorded, spared>>
  BY DEF Export, Stand
<1> HIDE DEF n, f, g
<1>7. /\ file' \in [0..LastFile -> Contents \cup {NoFile}] /\ file'[n] = g
      /\ \A h \in 0..LastFile : h # n => file'[h] = file[h]
  BY <1>3, <1>4, <1>6 DEF FileInv, FilesOK
<1>8. FilesOK' /\ FilesKept'
  <2>1. \A h \in 0..LastFile : file'[h] # NoFile => Kept(file'[h])
    BY <1>5, <1>7 DEF FileInv, FilesKept
  <2>2. FilesKept'
    BY <2>1 DEF FilesKept, Kept, RowsKept
  <2> QED BY <1>7, <2>2 DEF FilesOK
<1>9. \A h \in 0..LastFile : file[h] # NoFile => file'[h] # NoFile /\ file'[h] = file[h]
  BY <1>3, <1>7
<1>10. FolderOK'
  <2>1. folder' \in [Names -> Slots]
    BY <1>3, <1>6 DEF FileInv, FolderOK, Slots
  <2>2. \A m \in Names : folder'[m] = n \/ folder'[m] = folder[m]
    BY <1>6 DEF FileInv, FolderOK
  <2>3. ASSUME NEW m \in Names, folder'[m] # NoFile PROVE file'[folder'[m]] # NoFile
    BY <1>5, <1>7, <1>9, <2>1, <2>2, <2>3 DEF FileInv, FolderOK, Slots
  <2> QED BY <2>1, <2>3 DEF FolderOK
<1>11. /\ desk' \in [Stations -> Places] /\ desk'[s] = "verify"
       /\ \A t \in Stations \ {s} : desk'[t] = desk[t]
  BY <1>6 DEF FileInv, StationsOK, Places
<1>12. StationsOK'
  <2>1. \A t \in Stations : desk'[t] \in Connects => desk[t] \in Connects
    BY <1>11 DEF Export, Connects
  <2> QED BY <1>6, <1>9, <1>11, <2>1 DEF FileInv, StationsOK, Slots
<1>13. Filled'
  <2>1. SUFFICES ASSUME NEW t \in Stations, desk'[t] = "migrating", step[t] > 6
                 PROVE  RowsKept(file'[conn[t]])
    BY <1>6 DEF Filled, RowsKept
  <2>2. desk[t] = "migrating"
    BY <1>11, <2>1
  <2>3. conn[t] \in 0..LastFile /\ file[conn[t]] # NoFile
    BY <2>2, Stays DEF Connects
  <2> QED BY <1>9, <2>1, <2>2, <2>3 DEF FileInv, Filled
<1>14. Room'
  <2>1. Exporters' = Exporters \ {s}
    BY <1>11 DEF Exporters
  <2>2. Cardinality(Exporters') = Cardinality(Exporters) - 1 /\ Cardinality(Exporters) \in Nat
    BY <1>3, <2>1, FS_RemoveElement, FS_CardinalityType
  <2>3. \A h \in 0..LastFile : file'[h] # NoFile <=> h <= n
    BY <1>2, <1>5, <1>7
  <2>4. n + spared.changes + spared.starts + Cardinality(Exporters') <= LastFile
    BY <1>2, <2>2, SparedFields, Bounds
  <2> QED BY <1>3, <1>6, <2>3, <2>4 DEF Room
<1>15. RestOK'
  BY <1>6 DEF FileInv, RestOK
<1> QED BY <1>8, <1>10, <1>12, <1>13, <1>14, <1>15 DEF FileInv

LEMMA NamesAre == "main" \in Names /\ "target" \in Names /\ "replaced" \in Names
BY DEF Names

LEMMA CopyIsBadKeeps ==
  ASSUME FileInv, NEW s \in Stations, CopyIsBad(s)
  PROVE  FileInv'
<1>1. Fault(1) /\ 1 \in Nat
  BY DEF CopyIsBad
<1>2. FolderOK'
  BY NamesAre, UnlinkKeeps DEF CopyIsBad
<1> QED BY <1>1, <1>2, FaultSpares, LeavesKeep DEF CopyIsBad

LEMMA CopyIsGoodKeeps ==
  ASSUME FileInv, NEW s \in Stations, CopyIsGood(s)
  PROVE  FileInv'
<1>1. Goes(s, "swap", NoFile, step[s])
  BY Stays DEF CopyIsGood, Stand, Goes
<1>2. "swap" \in Places \ {"migrating", "export"} /\ "swap" \notin Connects
  BY DEF Places, Connects
<1>3. FolderOK'
  BY FolderStays DEF CopyIsGood
<1> QED BY <1>1, <1>2, <1>3, GoesOnKeeps DEF CopyIsGood

LEMMA MoveAsideKeeps ==
  ASSUME FileInv, NEW s \in Stations, MoveAside(s)
  PROVE  FileInv'
<1>1. Goes(s, "place", conn[s], step[s])
  BY Stays DEF MoveAside, Stand, Goes
<1>2. "place" \in Places \ {"migrating", "export"} /\ "place" \notin Connects
  BY DEF Places, Connects
<1>3. FolderOK'
  BY NamesAre, RenameKeeps DEF MoveAside
<1> QED BY <1>1, <1>2, <1>3, GoesOnKeeps DEF MoveAside

LEMMA MoveAsideFailsKeeps ==
  ASSUME FileInv, NEW s \in Stations, MoveAsideFails(s)
  PROVE  FileInv'
BY Costs, FaultSpares, FolderStays, LeavesKeep DEF MoveAsideFails

LEMMA MoveIntoPlaceKeeps ==
  ASSUME FileInv, NEW s \in Stations, MoveIntoPlace(s)
  PROVE  FileInv'
<1>1. Goes(s, "placed", conn[s], step[s])
  BY Stays DEF MoveIntoPlace, Stand, Goes
<1>2. "placed" \in Places \ {"migrating", "export"} /\ "placed" \notin Connects
  BY DEF Places, Connects
<1>3. FolderOK'
  BY NamesAre, RenameKeeps DEF MoveIntoPlace
<1> QED BY <1>1, <1>2, <1>3, GoesOnKeeps DEF MoveIntoPlace

LEMMA MoveIntoPlaceFailsKeeps ==
  ASSUME FileInv, NEW s \in Stations, MoveIntoPlaceFails(s)
  PROVE  FileInv'
BY NamesAre, Costs, FaultSpares, RenameKeeps, LeavesKeep DEF MoveIntoPlaceFails

LEMMA PutBackFailsKeeps ==
  ASSUME FileInv, NEW s \in Stations, PutBackFails(s)
  PROVE  FileInv'
BY Costs, FaultSpares, FolderStays, LeavesKeep DEF PutBackFails

LEMMA DropReplacedKeeps ==
  ASSUME FileInv, NEW s \in Stations, DropReplaced(s)
  PROVE  FileInv'
<1>1. FolderOK'
  BY NamesAre, UnlinkKeeps, FolderStays DEF DropReplaced
<1>2. /\ spared' \in SparedRange
      /\ spared'.changes = spared.changes /\ spared'.starts = spared.starts
  <2>1. CASE UNCHANGED spared
    BY <2>1, SparedFields
  <2>2. CASE Fault(1)
    <3>1. 1 \in Nat
      OBVIOUS
    <3> QED BY <2>2, <3>1, FaultSpares
  <2> QED BY <2>1, <2>2 DEF DropReplaced
<1> QED BY <1>1, <1>2, LeavesKeep DEF DropReplaced

LEMMA FileInitIsOK == FileInit => FileInv
<1> SUFFICES ASSUME FileInit PROVE FileInv
  OBVIOUS
<1>1. PICK v \in OldSchema : file = [f \in 0..LastFile |-> IF f = 0 THEN FileAt(v) ELSE NoFile]
  BY DEF FileInit
<1>2. v \in 0..9
  BY <1>1, FileAssumption DEF FileAssumption, SchemaVersion
<1>3. FileAt(v) \in Contents /\ FileAt(v) # NoFile /\ Kept(FileAt(v))
  <2>1. /\ FileAt(v).version = v /\ (FileAt(v).blobs <=> v < 5) /\ FileAt(v).runs = Runs
        /\ FileAt(v).rows = [r \in Runs |-> IF v < 5 THEN 0 ELSE 1]
    BY DEF FileAt
  <2>2. FileAt(v) \in Contents
    BY <1>2, Bounds DEF FileAt, Contents, SchemaVersion
  <2>3. Kept(FileAt(v))
    BY <1>2, <2>1, FileAssumption DEF Kept, RowsKept, FileAssumption
  <2> QED BY <2>2, <2>3, Bounds
<1>4. 0 \in 0..LastFile /\ \A f \in 0..LastFile : file[f] = IF f = 0 THEN FileAt(v) ELSE NoFile
  BY <1>1, Bounds
<1>5. FilesOK /\ FilesKept
  BY <1>1, <1>3 DEF FilesOK, FilesKept
<1>6. FolderOK
  BY <1>3, <1>4 DEF FileInit, FolderOK, Names, Slots
<1>7. StationsOK
  BY Bounds DEF FileInit, StationsOK, Places, Slots, Connects
<1>8. RestOK
  BY Bounds DEF FileInit, RestOK, SparedRange
<1>9. Filled
  BY DEF FileInit, Filled
<1>10. Room
  <2>1. Exporters = {}
    BY DEF FileInit, Exporters
  <2>2. Cardinality(Exporters) = 0 /\ spared.changes = Changes /\ spared.starts = Starts
    BY <2>1, FS_EmptySet DEF FileInit
  <2>3. \A f \in 0..LastFile : file[f] # NoFile <=> f <= 0
    BY <1>3, <1>4, Bounds
  <2>4. 0 + spared.changes + spared.starts + Cardinality(Exporters) <= LastFile
    BY <2>2, Bounds
  <2> QED BY <1>4, <2>3, <2>4 DEF Room
<1> QED BY <1>5, <1>6, <1>7, <1>8, <1>9, <1>10 DEF FileInv

LEMMA ChangeKeeps ==
  ASSUME FileInv, NEW s \in Stations, Change(s)
  PROVE  FileInv'
BY ExportKeeps, CopyIsBadKeeps, CopyIsGoodKeeps, MoveAsideKeeps, MoveAsideFailsKeeps,
   MoveIntoPlaceKeeps, MoveIntoPlaceFailsKeeps, PutBackFailsKeeps, DropReplacedKeeps DEF Change

LEMMA FileNextKeeps == FileInv /\ [FileNext]_fileVars => FileInv'
<1> SUFFICES ASSUME FileInv, [FileNext]_fileVars PROVE FileInv'
  OBVIOUS
<1>1. ASSUME NEW s \in Stations,
             OpenFile(s) \/ Migrate(s) \/ SetVersion(s) \/ CloseFile(s) \/ BackupIfDue(s)
               \/ Change(s) \/ Die(s)
      PROVE  FileInv'
  BY <1>1, OpenFileKeeps, MigrateKeeps, SetVersionKeeps, CloseFileKeeps, BackupKeeps,
     ChangeKeeps, DieKeeps
<1>2. ASSUME NEW s \in Stations, NEW e \in Entries, Record(s, e) PROVE FileInv'
  BY <1>2, RecordKeeps
<1>3. ASSUME NEW s \in Stations, NEW password \in Passwords, ChangeBegin(s, password)
      PROVE  FileInv'
  BY <1>3, ChangeBeginKeeps
<1>6. ASSUME NEW s \in Stations, NEW password \in Passwords, StartUp(s, password)
      PROVE  FileInv'
  BY <1>6, StartUpKeeps
<1>4. CASE DayPasses
  BY <1>4, DayKeeps
<1>5. CASE UNCHANGED fileVars
  <2>1. today \in 0..Days
    BY DEF FileInv, RestOK
  <2> QED BY <1>5, <2>1, CopiesKeep DEF fileVars
<1> QED BY <1>1, <1>2, <1>3, <1>4, <1>5, <1>6 DEF FileNext

(* Any number of programs may open, migrate, copy and re-key the register   *)
(* and die anywhere: names stand for files that are there, an export never  *)
(* writes over one, and who works on a file has a connection to it.         *)
THEOREM FilesStand == FileSpec => []FileInv
<1>1. FileInit => FileInv
  BY FileInitIsOK
<1>2. FileInv /\ [FileNext]_fileVars => FileInv'
  BY FileNextKeeps
<1> QED BY <1>1, <1>2, PTL DEF FileSpec

(* The steps of the old runs become rows once each and the blobs go only    *)
(* after (migrate, backfill_run_steps), whichever statements of however     *)
(* many migrations are interleaved or cut short.                            *)
THEOREM StepsBecomeRowsEver == FileSpec => []StepsBecomeRows
<1>1. FileInv => StepsBecomeRows
  <2> SUFFICES ASSUME FileInv, NEW f \in 0..LastFile, file[f] # NoFile
               PROVE  /\ \A r \in Runs : file[f].rows[r] <= 1
                      /\ ~file[f].blobs => \A r \in file[f].runs \ Unreadable : file[f].rows[r] = 1
    BY DEF StepsBecomeRows
  <2>1. \A r \in Runs : file[f].rows[r] \in 0..1
    BY FileFields DEF FileInv
  <2>2. ~file[f].blobs => RowsKept(file[f])
    BY DEF FileInv, FilesKept, Kept
  <2> QED BY <2>1, <2>2 DEF RowsKept
<1> QED BY <1>1, FilesStand, PTL

(***************************************************************************)
(* One program at a time.                                                   *)
(***************************************************************************)

OneStation == \A s, t \in Stations : s = t

(* File f is the register: it has all that was recorded, unless the launch  *)
(* has begun another.                                                       *)
Sound(f) == f # NoFile /\ (NoneBegun => recorded \subseteq file[f].entries)

(* One file has what the other has; the copy is the register under the new  *)
(* key.                                                                     *)
Copied(m, n) == file[folder[m]].entries \subseteq file[folder[n]].entries
Ready(s, m) == /\ Sound(folder["target"]) /\ file[folder["target"]].key = wanted[s]
               /\ Copied(m, "target")

(* Where a program stands in a change of the password, the name the         *)
(* register has and what is under it.                                       *)
Held(s) ==
  /\ desk[s] \in {"migrating", "open", "export", "verify"} => conn[s] = folder["main"]
  /\ desk[s] \in {"migrating", "open", "export", "verify", "swap", "placed"} => Sound(folder["main"])
  /\ desk[s] \in {"export", "verify", "swap"} => file[folder["main"]].key # wanted[s]
  /\ desk[s] \in {"verify", "swap"} => Ready(s, "main")
  /\ desk[s] = "place" => /\ folder["main"] = NoFile /\ Sound(folder["replaced"])
                          /\ file[folder["replaced"]].key # wanted[s] /\ Ready(s, "replaced")
  /\ desk[s] = "placed" => file[folder["main"]].key = wanted[s] /\ Copied("replaced", "main")
  /\ desk[s] \in {"export", "verify", "swap", "place", "placed"} => told = "nothing"

SoloInv == FileInv /\ RegisterHasAll /\ \A s \in Stations : Held(s)

(* The one program of a step is the only one there is.                      *)
LEMMA OnlyOne ==
  ASSUME OneStation, NEW s \in Stations, Held(s)'
  PROVE  (\A t \in Stations : Held(t))'
<1>1. \A t \in Stations : t = s
  BY DEF OneStation
<1> QED BY <1>1

LEMMA DeskAfter ==
  ASSUME FileInv, NEW s \in Stations
  PROVE  \A place : Stand(s, place) => desk'[s] = place
BY DEF FileInv, StationsOK, Stand

(* Who has left holds nothing.                                              *)
LEMMA GoneHoldsNothing ==
  ASSUME FileInv, NEW s \in Stations, Leave(s)
  PROVE  Held(s)'
<1>1. desk'[s] = "closed"
  BY DeskAfter DEF Leave
<1> QED BY <1>1 DEF Held

LEMMA NamesAfter ==
  ASSUME FileInv
  PROVE  /\ Rename("main", "replaced") =>
              /\ folder'["main"] = NoFile /\ folder'["replaced"] = folder["main"]
              /\ folder'["target"] = folder["target"]
         /\ Rename("target", "main") =>
              /\ folder'["main"] = folder["target"] /\ folder'["target"] = NoFile
              /\ folder'["replaced"] = folder["replaced"]
         /\ Rename("replaced", "main") =>
              /\ folder'["main"] = folder["replaced"] /\ folder'["replaced"] = NoFile
              /\ folder'["target"] = folder["target"]
         /\ Unlink("target") =>
              /\ folder'["main"] = folder["main"] /\ folder'["replaced"] = folder["replaced"]
         /\ Unlink("replaced") =>
              /\ folder'["main"] = folder["main"] /\ folder'["target"] = folder["target"]
BY DEF FileInv, FolderOK, Names, Rename, Unlink

(* Only the launch that finds no register begins one.                       *)
LEMMA StartsStay ==
  ASSUME FileInv, NEW s \in Stations,
         \/ OpenFile(s) \/ Migrate(s) \/ SetVersion(s) \/ CloseFile(s)
         \/ \E e \in Entries : Record(s, e)
         \/ \E password \in Passwords : ChangeBegin(s, password)
         \/ Change(s) \/ Die(s)
  PROVE  spared'.starts = spared.starts
<1>1. CASE UNCHANGED spared
  BY <1>1
<1>2. CASE spared' = [spared EXCEPT !.changes = @ - 1] \/ spared' = [spared EXCEPT !.deaths = @ - 1]
  BY <1>2, SparedFields DEF SparedRange
<1>3. ASSUME NEW n \in Nat, Fault(n) PROVE spared'.starts = spared.starts
  BY <1>3, FaultSpares
<1>4. CASE CopyIsBad(s) \/ DropReplaced(s)
  <2>1. 1 \in Nat
    OBVIOUS
  <2> QED BY <1>1, <1>3, <1>4, <2>1 DEF CopyIsBad, DropReplaced
<1>5. CASE MoveAsideFails(s) \/ MoveIntoPlaceFails(s) \/ PutBackFails(s)
  BY <1>3, <1>5, Costs DEF MoveAsideFails, MoveIntoPlaceFails, PutBackFails
<1>6. CASE Export(s) \/ CopyIsGood(s) \/ MoveAside(s) \/ MoveIntoPlace(s)
  BY <1>1, <1>6 DEF Export, CopyIsGood, MoveAside, MoveIntoPlace
<1>7. CASE Change(s)
  BY <1>4, <1>5, <1>6, <1>7 DEF Change
<1>8. CASE OpenFile(s) \/ Migrate(s) \/ SetVersion(s) \/ CloseFile(s) \/ \E e \in Entries : Record(s, e)
  BY <1>1, <1>8 DEF OpenFile, Migrate, SetVersion, CloseFile, Record
<1>9. CASE Die(s) \/ \E password \in Passwords : ChangeBegin(s, password)
  BY <1>2, <1>9 DEF Die, ChangeBegin
<1> QED BY <1>7, <1>8, <1>9

LEMMA OpenFileHeld ==
  ASSUME SoloInv, NEW s \in Stations, OpenFile(s), spared'.starts = spared.starts
  PROVE  RegisterHasAll' /\ Held(s)'
<1>1. /\ folder["main"] # NoFile /\ UNCHANGED <<file, folder, wanted, told, recorded>>
  BY DEF OpenFile
<1>2. desk'[s] \in {"open", "migrating"} /\ conn'[s] = folder["main"]
  BY DEF SoloInv, FileInv, StationsOK, OpenFile, Stand
<1>3. Sound(folder["main"])
  BY <1>1 DEF SoloInv, RegisterHasAll, Under, Holder, Sound
<1>4. Sound(folder["main"])'
  BY <1>1, <1>3 DEF Sound, NoneBegun
<1>5. RegisterHasAll'
  BY <1>1, <1>4 DEF RegisterHasAll, Under, Holder, Sound
<1>6. Held(s)'
  BY <1>1, <1>2, <1>4 DEF Held
<1> QED BY <1>5, <1>6

(* The launch begins a register only where there is none.                   *)
LEMMA StartUpHeld ==
  ASSUME SoloInv, NEW s \in Stations, NEW password \in Passwords, StartUp(s, password)
  PROVE  RegisterHasAll' /\ Held(s)'
<1>1. FileInv
  BY DEF SoloInv
<1>2. NewFile # NoFile
  BY <1>1, StartUpIsNew
<1>3. folder'["main"] = NewFile /\ conn'[s] = NewFile /\ desk'[s] = "migrating"
  BY <1>1 DEF StartUp, Stand, FileInv, FolderOK, StationsOK, Names
<1>4. ~NoneBegun'
  BY <1>1, SparedFields, Bounds DEF StartUp, NoneBegun, SparedRange
<1>5. Sound(folder["main"])'
  BY <1>2, <1>3, <1>4 DEF Sound
<1>6. RegisterHasAll'
  BY <1>2, <1>3, <1>4 DEF RegisterHasAll, Holder
<1>7. Held(s)'
  BY <1>3, <1>5 DEF Held
<1> QED BY <1>6, <1>7

(* The file a program works on becomes g; it keeps what was recorded.       *)
LEMMA WorksOnMain ==
  ASSUME SoloInv, NEW s \in Stations, desk[s] \in {"migrating", "open"},
         desk'[s] \in {"migrating", "open"},
         NEW g, file' = [file EXCEPT ![conn[s]] = g],
         NoneBegun => recorded' \subseteq g.entries,
         UNCHANGED <<folder, conn, wanted, told>>, spared'.starts = spared.starts
  PROVE  RegisterHasAll' /\ Held(s)'
<1>1. conn[s] = folder["main"] /\ Sound(folder["main"])
  BY DEF SoloInv, Held
<1>2. conn[s] \in 0..LastFile
  BY Stays DEF SoloInv, Connects
<1>3. file'[folder["main"]] = g /\ folder["main"] # NoFile
  BY <1>1, <1>2, Bounds DEF SoloInv, FileInv, FilesOK
<1>4. Sound(folder["main"])'
  BY <1>3 DEF Sound, NoneBegun
<1>5. RegisterHasAll'
  BY <1>3, <1>4 DEF RegisterHasAll, Under, Holder, Sound
<1>6. Held(s)'
  BY <1>1, <1>4 DEF Held
<1> QED BY <1>5, <1>6

LEMMA WorkHeld ==
  ASSUME SoloInv, NEW s \in Stations, spared'.starts = spared.starts,
         Migrate(s) \/ SetVersion(s) \/ \E e \in Entries : Record(s, e)
  PROVE  RegisterHasAll' /\ Held(s)'
<1> DEFINE f == conn[s]
<1>1. FileInv /\ Held(s)
  BY DEF SoloInv
<1>2. desk[s] \in {"migrating", "open"}
  BY DEF Migrate, SetVersion, Record
<1>3. f \in 0..LastFile /\ file[f] # NoFile /\ (NoneBegun => recorded \subseteq file[f].entries)
  BY <1>1, <1>2, Stays DEF Connects, Held, Sound
<1>4. ASSUME SetVersion(s) PROVE RegisterHasAll' /\ Held(s)'
  <2> DEFINE g == [file[f] EXCEPT !.version = SchemaVersion]
  <2>1. g.entries = file[f].entries
    BY <1>1, <1>3, FileFields DEF FileInv, Contents
  <2>2. /\ file' = [file EXCEPT ![f] = g] /\ desk'[s] = "open"
        /\ UNCHANGED <<folder, conn, wanted, told, recorded>>
    BY <1>1, <1>4, DeskAfter DEF SetVersion
  <2> HIDE DEF g
  <2> QED BY <1>2, <1>3, <2>1, <2>2, WorksOnMain
<1>5. ASSUME NEW e \in Entries, Record(s, e) PROVE RegisterHasAll' /\ Held(s)'
  <2> DEFINE g == [file[f] EXCEPT !.entries = @ \cup {e}]
  <2>1. g.entries = file[f].entries \cup {e}
    BY <1>1, <1>3, FileFields DEF FileInv, Contents
  <2>2. /\ file' = [file EXCEPT ![f] = g] /\ recorded' = recorded \cup {e}
        /\ UNCHANGED <<desk, folder, conn, wanted, told>>
    BY <1>5 DEF Record
  <2> HIDE DEF g
  <2>3. NoneBegun => recorded' \subseteq g.entries
    BY <1>3, <2>1, <2>2
  <2> QED BY <1>2, <2>2, <2>3, WorksOnMain
<1>6. ASSUME Migrate(s) PROVE RegisterHasAll' /\ Held(s)'
  <2> DEFINE k == step[s]
             g == Migrated(file[f], Script[k].does, Script[k].to)
  <2>1. CASE Refused(file[f], Script[k].does, Script[k].to)
    <3>1. Leave(s) /\ UNCHANGED <<file, folder, recorded, spared>>
      BY <1>6, <2>1 DEF Migrate
    <3>2. RegisterHasAll'
      BY <3>1 DEF SoloInv, RegisterHasAll, Under, Holder, NoneBegun
    <3> QED BY <1>1, <3>1, <3>2, GoneHoldsNothing
  <2>2. CASE ~Refused(file[f], Script[k].does, Script[k].to)
    <3>1. /\ file' = [file EXCEPT ![f] = g]
          /\ UNCHANGED <<desk, conn, folder, wanted, told, recorded>>
      BY <1>6, <2>2 DEF Migrate
    <3>2. k \in 1..11 /\ Kept(file[f]) /\ (k > 6 => RowsKept(file[f]))
      BY <1>1, <1>3, <1>6, Stays, ScriptFacts DEF Migrate, FileInv, FilesKept, Filled
    <3>3. g.entries = file[f].entries
      BY <1>1, <1>3, <3>2, FileFields, MigratedIsKept DEF FileInv
    <3> HIDE DEF g
    <3> QED BY <1>2, <1>3, <3>1, <3>3, WorksOnMain
  <2> QED BY <2>1, <2>2
<1> QED BY <1>4, <1>5, <1>6

(* A program that leaves with the names as they are.                        *)
LEMMA LeavesHeld ==
  ASSUME SoloInv, NEW s \in Stations, Leave(s), UNCHANGED <<file, folder, recorded>>,
         spared'.starts = spared.starts
  PROVE  RegisterHasAll' /\ Held(s)'
<1>1. RegisterHasAll'
  BY DEF SoloInv, RegisterHasAll, Under, Holder, NoneBegun
<1> QED BY <1>1, GoneHoldsNothing DEF SoloInv

LEMMA ChangeBeginHeld ==
  ASSUME SoloInv, NEW s \in Stations, NEW password \in Passwords, ChangeBegin(s, password),
         spared'.starts = spared.starts
  PROVE  RegisterHasAll' /\ Held(s)'
<1>1. FileInv /\ Held(s) /\ RegisterHasAll
  BY DEF SoloInv
<1>2. /\ UNCHANGED <<file, folder, conn, recorded>> /\ told' = "nothing"
      /\ desk'[s] = "export" /\ wanted'[s] = password
  BY <1>1, DeskAfter DEF ChangeBegin, FileInv, StationsOK
<1>3. /\ conn[s] = folder["main"] /\ Sound(folder["main"])
      /\ password # file[folder["main"]].key
  BY <1>1 DEF ChangeBegin, Held
<1>4. RegisterHasAll'
  BY <1>1, <1>2 DEF RegisterHasAll, Under, Holder, NoneBegun
<1>5. Sound(folder["main"])'
  BY <1>2, <1>3 DEF Sound, NoneBegun
<1>6. Held(s)'
  BY <1>2, <1>3, <1>5 DEF Held
<1> QED BY <1>4, <1>6

LEMMA ExportHeld ==
  ASSUME SoloInv, NEW s \in Stations, Export(s), spared'.starts = spared.starts
  PROVE  RegisterHasAll' /\ Held(s)'
<1> DEFINE n == NewFile
           f == conn[s]
           g == [file[f] EXCEPT !.key = wanted[s]]
<1>1. FileInv /\ Held(s)
  BY DEF SoloInv
<1>2. /\ f = folder["main"] /\ Sound(folder["main"]) /\ told = "nothing"
      /\ file[folder["main"]].key # wanted[s]
  BY <1>1 DEF Export, Held
<1>3. n \in 0..LastFile /\ file[n] = NoFile
  BY <1>1, ExportIsNew
<1>4. f \in 0..LastFile /\ file[f] # NoFile
  BY <1>1, Stays DEF Export, Connects
<1>5. g.entries = file[f].entries /\ g.key = wanted[s]
  BY <1>1, <1>4, FileFields DEF FileInv, Contents
<1>6. /\ file' = [file EXCEPT ![n] = g] /\ folder' = [folder EXCEPT !["target"] = n]
      /\ desk'[s] = "verify" /\ UNCHANGED <<conn, wanted, told, recorded>>
  BY <1>1, DeskAfter DEF Export
<1> HIDE DEF n, f, g
<1>7. file'[n] = g /\ file'[f] = file[f]
  BY <1>1, <1>3, <1>4, <1>6 DEF FileInv, FilesOK
<1>8. folder'["target"] = n /\ folder'["main"] = f /\ n # NoFile /\ f # NoFile
  BY <1>1, <1>2, <1>3, <1>4, <1>6, Bounds DEF FileInv, FolderOK, Names
<1>9. NoneBegun => recorded \subseteq file[f].entries
  BY <1>2 DEF Sound
<1>10. Sound(folder["main"])' /\ Sound(folder["target"])'
  BY <1>5, <1>6, <1>7, <1>8, <1>9 DEF Sound, NoneBegun
<1>11. RegisterHasAll'
  BY <1>8, <1>10 DEF RegisterHasAll, Under, Holder, Sound
<1>12. Copied("main", "target")'
  BY <1>5, <1>7, <1>8 DEF Copied
<1>13. Ready(s, "main")'
  BY <1>5, <1>6, <1>7, <1>8, <1>10, <1>12 DEF Ready
<1>14. conn'[s] = folder'["main"] /\ file'[folder'["main"]].key # wanted'[s]
  BY <1>2, <1>6, <1>7, <1>8 DEF f
<1>15. Held(s)'
  BY <1>2, <1>6, <1>10, <1>13, <1>14 DEF Held
<1> QED BY <1>11, <1>15

LEMMA CopyHeld ==
  ASSUME SoloInv, NEW s \in Stations, CopyIsBad(s) \/ CopyIsGood(s), spared'.starts = spared.starts
  PROVE  RegisterHasAll' /\ Held(s)'
<1>1. FileInv /\ Held(s) /\ desk[s] = "verify"
  BY DEF SoloInv, CopyIsBad, CopyIsGood
<1>2. /\ Sound(folder["main"]) /\ Ready(s, "main") /\ told = "nothing"
      /\ file[folder["main"]].key # wanted[s]
  BY <1>1 DEF Held
<1>3. CASE CopyIsBad(s)
  <2>1. Leave(s) /\ UNCHANGED <<file, recorded>> /\ folder'["main"] = folder["main"]
    BY <1>1, <1>3, NamesAfter DEF CopyIsBad
  <2>2. RegisterHasAll'
    BY <1>2, <2>1 DEF Sound, RegisterHasAll, Under, Holder, NoneBegun
  <2> QED BY <1>1, <2>1, <2>2, GoneHoldsNothing
<1>4. CASE CopyIsGood(s)
  <2>1. desk'[s] = "swap" /\ UNCHANGED <<file, folder, wanted, told, recorded>>
    BY <1>1, <1>4, DeskAfter DEF CopyIsGood
  <2>2. RegisterHasAll'
    BY <1>2, <2>1 DEF Sound, RegisterHasAll, Under, Holder, NoneBegun
  <2>3. Sound(folder["main"])' /\ Ready(s, "main")'
    BY <1>2, <2>1 DEF Ready, Sound, NoneBegun, Copied
  <2>4. Held(s)'
    BY <1>2, <2>1, <2>3 DEF Held
  <2> QED BY <2>2, <2>4
<1> QED BY <1>3, <1>4

LEMMA MoveAsideHeld ==
  ASSUME SoloInv, NEW s \in Stations, MoveAside(s), spared'.starts = spared.starts
  PROVE  RegisterHasAll' /\ Held(s)'
<1>1. FileInv /\ Held(s) /\ desk[s] = "swap"
  BY DEF SoloInv, MoveAside
<1>2. /\ Sound(folder["main"]) /\ Ready(s, "main") /\ told = "nothing"
      /\ file[folder["main"]].key # wanted[s]
  BY <1>1 DEF Held
<1>3. /\ folder'["main"] = NoFile /\ folder'["replaced"] = folder["main"]
      /\ folder'["target"] = folder["target"]
      /\ desk'[s] = "place" /\ UNCHANGED <<file, wanted, told, recorded>>
  BY <1>1, NamesAfter, DeskAfter DEF MoveAside
<1>4. RegisterHasAll'
  BY <1>2, <1>3 DEF Sound, RegisterHasAll, Under, Holder, NoneBegun
<1>5. Sound(folder["replaced"])' /\ Ready(s, "replaced")'
  BY <1>2, <1>3 DEF Ready, Sound, NoneBegun, Copied
<1>6. Held(s)'
  BY <1>2, <1>3, <1>5 DEF Held
<1> QED BY <1>4, <1>6

LEMMA IntoPlaceHeld ==
  ASSUME SoloInv, NEW s \in Stations, MoveIntoPlace(s) \/ MoveIntoPlaceFails(s),
         spared'.starts = spared.starts
  PROVE  RegisterHasAll' /\ Held(s)'
<1>1. FileInv /\ Held(s) /\ desk[s] = "place"
  BY DEF SoloInv, MoveIntoPlace, MoveIntoPlaceFails
<1>2. Ready(s, "replaced") /\ Sound(folder["replaced"]) /\ told = "nothing"
  BY <1>1 DEF Held
<1>3. CASE MoveIntoPlace(s)
  <2>1. /\ folder'["main"] = folder["target"] /\ folder'["replaced"] = folder["replaced"]
        /\ desk'[s] = "placed" /\ UNCHANGED <<file, wanted, told, recorded>>
    BY <1>1, <1>3, NamesAfter, DeskAfter DEF MoveIntoPlace
  <2>2. Sound(folder["main"])' /\ Copied("replaced", "main")'
    BY <1>2, <2>1 DEF Ready, Sound, NoneBegun, Copied
  <2>3. RegisterHasAll'
    BY <2>2 DEF RegisterHasAll, Under, Holder, Sound
  <2>4. file'[folder'["main"]].key = wanted'[s]
    BY <1>2, <2>1 DEF Ready
  <2>5. Held(s)'
    BY <1>2, <2>1, <2>2, <2>4 DEF Held
  <2> QED BY <2>3, <2>5
<1>4. CASE MoveIntoPlaceFails(s)
  <2>1. Leave(s) /\ UNCHANGED <<file, recorded>> /\ folder'["main"] = folder["replaced"]
    BY <1>1, <1>4, NamesAfter DEF MoveIntoPlaceFails
  <2>2. RegisterHasAll'
    BY <1>2, <2>1 DEF Sound, RegisterHasAll, Under, Holder, NoneBegun
  <2> QED BY <1>1, <2>1, <2>2, GoneHoldsNothing
<1> QED BY <1>3, <1>4

LEMMA DropReplacedHeld ==
  ASSUME SoloInv, NEW s \in Stations, DropReplaced(s), spared'.starts = spared.starts
  PROVE  RegisterHasAll' /\ Held(s)'
<1>1. FileInv /\ Held(s) /\ desk[s] = "placed"
  BY DEF SoloInv, DropReplaced
<1>2. Sound(folder["main"])
  BY <1>1 DEF Held
<1>3. Leave(s) /\ UNCHANGED <<file, recorded>> /\ folder'["main"] = folder["main"]
  BY <1>1, NamesAfter DEF DropReplaced
<1>4. RegisterHasAll'
  BY <1>2, <1>3 DEF Sound, RegisterHasAll, Under, Holder, NoneBegun
<1> QED BY <1>1, <1>3, <1>4, GoneHoldsNothing

(* Copies and days.                                                         *)
LEMMA RestHeld ==
  ASSUME SoloInv, UNCHANGED <<file, folder, desk, conn, wanted, told, recorded, spared>>
  PROVE  RegisterHasAll' /\ \A s \in Stations : Held(s)'
<1>1. RegisterHasAll'
  BY DEF SoloInv, RegisterHasAll, Under, Holder, NoneBegun
<1>2. \A s \in Stations : Held(s)'
  BY DEF SoloInv, Held, Ready, Sound, Copied, NoneBegun
<1> QED BY <1>1, <1>2

LEMMA ActsHeld ==
  ASSUME SoloInv, NEW s \in Stations,
         \/ OpenFile(s) \/ Migrate(s) \/ SetVersion(s) \/ CloseFile(s)
         \/ \E e \in Entries : Record(s, e)
         \/ \E password \in Passwords : ChangeBegin(s, password)
         \/ Change(s) \/ Die(s)
  PROVE  RegisterHasAll' /\ Held(s)'
<1>6. spared'.starts = spared.starts
  BY StartsStay DEF SoloInv
<1>1. CASE CloseFile(s) \/ Die(s) \/ MoveAsideFails(s) \/ PutBackFails(s)
  <2>1. Leave(s) /\ UNCHANGED <<file, folder, recorded>>
    BY <1>1 DEF CloseFile, Die, MoveAsideFails, PutBackFails
  <2> QED BY <1>6, <2>1, LeavesHeld
<1>2. CASE OpenFile(s) \/ Migrate(s) \/ SetVersion(s) \/ \E e \in Entries : Record(s, e)
  BY <1>2, <1>6, OpenFileHeld, WorkHeld
<1>3. CASE \E password \in Passwords : ChangeBegin(s, password)
  BY <1>3, <1>6, ChangeBeginHeld
<1>4. CASE Export(s) \/ CopyIsBad(s) \/ CopyIsGood(s) \/ MoveAside(s)
  BY <1>4, <1>6, ExportHeld, CopyHeld, MoveAsideHeld
<1>5. CASE MoveIntoPlace(s) \/ MoveIntoPlaceFails(s) \/ DropReplaced(s)
  BY <1>5, <1>6, IntoPlaceHeld, DropReplacedHeld
<1> QED BY <1>1, <1>2, <1>3, <1>4, <1>5 DEF Change

LEMMA SoloNextKeeps ==
  ASSUME OneStation, SoloInv, [FileNext]_fileVars
  PROVE  SoloInv'
<1>1. FileInv'
  BY FileNextKeeps DEF SoloInv
<1>2. CASE UNCHANGED <<file, folder, desk, conn, wanted, told, recorded, spared>>
  BY <1>1, <1>2, RestHeld DEF SoloInv
<1>3. ASSUME NEW s \in Stations, RegisterHasAll', Held(s)' PROVE SoloInv'
  BY <1>1, <1>3, OnlyOne DEF SoloInv
<1>4. CASE DayPasses \/ UNCHANGED fileVars \/ \E s \in Stations : BackupIfDue(s)
  BY <1>2, <1>4 DEF DayPasses, fileVars, BackupIfDue
<1>5. ASSUME NEW s \in Stations, NEW password \in Passwords, StartUp(s, password) PROVE SoloInv'
  BY <1>3, <1>5, StartUpHeld
<1> QED BY <1>3, <1>4, <1>5, ActsHeld DEF FileNext

LEMMA SoloEver ==
  ASSUME OneStation
  PROVE  FileSpec => []SoloInv
<1>1. FileInit => SoloInv
  <2> SUFFICES ASSUME FileInit PROVE SoloInv
    OBVIOUS
  <2>1. FileInv
    BY FileInitIsOK
  <2>2. RegisterHasAll
    BY Bounds DEF FileInit, RegisterHasAll, Holder, Names
  <2>3. \A s \in Stations : Held(s)
    BY DEF FileInit, Held
  <2> QED BY <2>1, <2>2, <2>3 DEF SoloInv
<1>2. SoloInv /\ [FileNext]_fileVars => SoloInv'
  BY SoloNextKeeps
<1> QED BY <1>1, <1>2, PTL DEF FileSpec

(* Whatever statement of a migration or of a change of the password a       *)
(* program dies after, and whichever rename fails, the register, under its  *)
(* own name or moved aside, has all that was recorded, until a launch that  *)
(* finds none under the name begins another (try_open).                     *)
THEOREM RegisterHasAllEver ==
  ASSUME OneStation
  PROVE  FileSpec => []RegisterHasAll
<1>1. SoloInv => RegisterHasAll
  BY DEF SoloInv
<1>2. FileSpec => []SoloInv
  BY SoloEver
<1> QED BY <1>1, <1>2, PTL

(* A file that is there stays, and loses no entry.                          *)
LEMMA FilesGrow ==
  ASSUME FileInv, FileNext, NEW f \in 0..LastFile, file[f] # NoFile
  PROVE  file'[f].entries = file[f].entries
           \/ \E e \in Entries : file'[f].entries = file[f].entries \cup {e}
<1>1. CASE UNCHANGED file
  BY <1>1
<1>2. ASSUME NEW h \in 0..LastFile, NEW g, file' = [file EXCEPT ![h] = g],
             h # f \/ g.entries = file[h].entries
      PROVE  file'[f].entries = file[f].entries
  BY <1>2 DEF FileInv, FilesOK
<1>3. ASSUME NEW s \in Stations, NEW password \in Passwords, StartUp(s, password)
      PROVE  file'[f].entries = file[f].entries
  <2>1. NewFile \in 0..LastFile /\ file[NewFile] = NoFile
    BY <1>3, StartUpIsNew
  <2>2. file' = [file EXCEPT ![NewFile] = EmptyFile(password)] /\ NewFile # f
    BY <1>3, <2>1 DEF StartUp
  <2> QED BY <1>2, <2>1, <2>2
<1>4. ASSUME NEW s \in Stations, Export(s) PROVE file'[f].entries = file[f].entries
  <2> DEFINE g == [file[conn[s]] EXCEPT !.key = wanted[s]]
  <2>1. NewFile \in 0..LastFile /\ file[NewFile] = NoFile
    BY <1>4, ExportIsNew
  <2>2. file' = [file EXCEPT ![NewFile] = g] /\ NewFile # f
    BY <1>4, <2>1 DEF Export
  <2> HIDE DEF g
  <2> QED BY <1>2, <2>1, <2>2
<1>5. ASSUME NEW s \in Stations, SetVersion(s) PROVE file'[f].entries = file[f].entries
  <2> DEFINE h == conn[s]
             g == [file[h] EXCEPT !.version = SchemaVersion]
  <2>1. h \in 0..LastFile /\ file[h] # NoFile
    BY <1>5, Stays DEF SetVersion, Connects
  <2>2. g.entries = file[h].entries
    BY <2>1, FileFields DEF FileInv, Contents
  <2>3. file' = [file EXCEPT ![h] = g]
    BY <1>5 DEF SetVersion
  <2> HIDE DEF g, h
  <2> QED BY <1>2, <2>1, <2>2, <2>3
<1>6. ASSUME NEW s \in Stations, NEW e \in Entries, Record(s, e)
      PROVE  file'[f].entries = file[f].entries \/ file'[f].entries = file[f].entries \cup {e}
  <2> DEFINE h == conn[s]
             g == [file[h] EXCEPT !.entries = @ \cup {e}]
  <2>1. h \in 0..LastFile /\ file[h] # NoFile
    BY <1>6, Stays DEF Record, Connects
  <2>2. g.entries = file[h].entries \cup {e}
    BY <2>1, FileFields DEF FileInv, Contents
  <2>3. file' = [file EXCEPT ![h] = g]
    BY <1>6 DEF Record
  <2> HIDE DEF g, h
  <2>4. file'[f] = file[f] \/ (f = h /\ file'[f] = g)
    BY <2>1, <2>3 DEF FileInv, FilesOK
  <2> QED BY <2>2, <2>4
<1>7. ASSUME NEW s \in Stations, Migrate(s) PROVE file'[f].entries = file[f].entries
  <2> DEFINE h == conn[s]
             k == step[s]
             g == Migrated(file[h], Script[k].does, Script[k].to)
  <2>1. h \in 0..LastFile /\ file[h] # NoFile /\ k \in 1..11
    BY <1>7, Stays, ScriptFacts DEF Migrate, Connects
  <2>2. Kept(file[h]) /\ (k > 6 => RowsKept(file[h]))
    BY <1>7, <2>1 DEF Migrate, FileInv, FilesKept, Filled
  <2>3. g.entries = file[h].entries
    BY <2>1, <2>2, FileFields, MigratedIsKept DEF FileInv
  <2>4. UNCHANGED file \/ file' = [file EXCEPT ![h] = g]
    BY <1>7 DEF Migrate
  <2> HIDE DEF g, h, k
  <2> QED BY <1>1, <1>2, <2>1, <2>3, <2>4
<1>8. \/ UNCHANGED file
      \/ \E s \in Stations : \/ Migrate(s) \/ SetVersion(s) \/ Export(s)
                             \/ \E e \in Entries : Record(s, e)
                             \/ \E password \in Passwords : StartUp(s, password)
  BY DEF FileNext, OpenFile, CloseFile, BackupIfDue, ChangeBegin, Change, CopyIsBad,
         CopyIsGood, MoveAside, MoveAsideFails, MoveIntoPlace, MoveIntoPlaceFails,
         PutBackFails, DropReplaced, Die, DayPasses
<1> QED BY <1>1, <1>3, <1>4, <1>5, <1>6, <1>7, <1>8

(* What a program does to the two names the register may be under.          *)
LEMMA NamesMove ==
  ASSUME SoloInv, FileNext
  PROVE  \/ folder'["main"] = folder["main"] /\ folder'["replaced"] = folder["replaced"]
         \/ folder["main"] = NoFile /\ folder'["replaced"] = folder["replaced"]
         \/ folder["main"] = NoFile /\ folder'["main"] = folder["replaced"]
         \/ /\ folder["main"] # NoFile
            /\ folder["replaced"] # NoFile => Copied("replaced", "main")
            /\ folder'["main"] = folder["main"]
         \/ /\ folder["main"] # NoFile /\ folder'["replaced"] = folder["main"]
            /\ \E s \in Stations : desk[s] = "swap" /\ desk'[s] = "place"
<1> DEFINE Moves ==
         \/ folder'["main"] = folder["main"] /\ folder'["replaced"] = folder["replaced"]
         \/ folder["main"] = NoFile /\ folder'["replaced"] = folder["replaced"]
         \/ folder["main"] = NoFile /\ folder'["main"] = folder["replaced"]
         \/ /\ folder["main"] # NoFile
            /\ folder["replaced"] # NoFile => Copied("replaced", "main")
            /\ folder'["main"] = folder["main"]
         \/ /\ folder["main"] # NoFile /\ folder'["replaced"] = folder["main"]
            /\ \E s \in Stations : desk[s] = "swap" /\ desk'[s] = "place"
<1>1. FileInv
  BY DEF SoloInv
<1>2. CASE UNCHANGED folder
  BY <1>2
<1>3. ASSUME NEW s \in Stations, NEW password \in Passwords, StartUp(s, password) PROVE Moves
  BY <1>1, <1>3 DEF StartUp, FileInv, FolderOK, Names
<1>4. ASSUME NEW s \in Stations, Export(s) PROVE Moves
  BY <1>1, <1>4 DEF Export, FileInv, FolderOK, Names
<1>5. ASSUME NEW s \in Stations, CopyIsBad(s) PROVE Moves
  BY <1>1, <1>5, NamesAfter DEF CopyIsBad
<1>6. ASSUME NEW s \in Stations, MoveAside(s) PROVE Moves
  <2>1. desk[s] = "swap" /\ desk'[s] = "place" /\ folder["main"] # NoFile
    BY <1>1, <1>6, DeskAfter DEF MoveAside
  <2>2. folder'["replaced"] = folder["main"]
    BY <1>1, <1>6, NamesAfter DEF MoveAside
  <2> QED BY <2>1, <2>2
<1>7. ASSUME NEW s \in Stations, MoveIntoPlace(s) \/ MoveIntoPlaceFails(s) PROVE Moves
  <2>1. folder["main"] = NoFile
    BY <1>7 DEF SoloInv, Held, MoveIntoPlace, MoveIntoPlaceFails
  <2>2. folder'["replaced"] = folder["replaced"] \/ folder'["main"] = folder["replaced"]
    BY <1>1, <1>7, NamesAfter DEF MoveIntoPlace, MoveIntoPlaceFails
  <2> QED BY <2>1, <2>2
<1>8. ASSUME NEW s \in Stations, DropReplaced(s) PROVE Moves
  <2>1. folder["main"] # NoFile /\ Copied("replaced", "main")
    BY <1>8 DEF SoloInv, Held, Sound, DropReplaced
  <2>2. folder'["main"] = folder["main"]
    BY <1>1, <1>8, NamesAfter DEF DropReplaced
  <2> QED BY <2>1, <2>2
<1>9. \/ UNCHANGED folder
      \/ \E s \in Stations :
           \/ Export(s) \/ CopyIsBad(s) \/ MoveAside(s) \/ DropReplaced(s)
           \/ MoveIntoPlace(s) \/ MoveIntoPlaceFails(s)
           \/ \E password \in Passwords : StartUp(s, password)
  BY DEF FileNext, OpenFile, Migrate, SetVersion, CloseFile, Record, BackupIfDue, ChangeBegin,
         Change, CopyIsGood, MoveAsideFails, PutBackFails, Die, DayPasses
<1> HIDE DEF Moves
<1>10. Moves
  BY <1>3, <1>4, <1>5, <1>6, <1>7, <1>8, <1>9 DEF Moves
<1> QED BY <1>10 DEF Moves

(* What was recorded is in one of the two files until a second change of    *)
(* the password moves a register begun at a launch over the one that an     *)
(* earlier change left aside.                                               *)
THEOREM LostOnlyToASecondEver ==
  ASSUME OneStation
  PROVE  FileSpec => LostOnlyToASecond
<1> DEFINE Right == \A e \in recorded : InFolder(e) /\ ~InFolder(e)' =>
                      /\ ~NoneBegun /\ ~Under("main", e)
                      /\ \E s \in Stations : desk[s] = "swap" /\ desk'[s] = "place"
<1>1. SoloInv /\ [FileNext]_fileVars => [Right]_fileVars
  <2> SUFFICES ASSUME SoloInv, FileNext, NEW e \in recorded, InFolder(e), ~InFolder(e)'
               PROVE  /\ ~NoneBegun /\ ~Under("main", e)
                      /\ \E s \in Stations : desk[s] = "swap" /\ desk'[s] = "place"
    OBVIOUS
  <2>1. FileInv
    BY DEF SoloInv
  <2>2. ASSUME NEW n \in Names, NEW m \in Names, Under(n, e), folder'[m] = folder[n]
        PROVE  Under(m, e)'
    <3>1. folder[n] \in 0..LastFile /\ file[folder[n]] # NoFile
      BY <2>1, <2>2 DEF Under, FileInv, FolderOK, Slots
    <3>2. e \in file'[folder[n]].entries
      BY <2>1, <2>2, <3>1, FilesGrow DEF Under
    <3> QED BY <2>2, <3>2 DEF Under
  <2>3. ~Under("main", e)' /\ ~Under("replaced", e)'
    BY DEF InFolder
  <2>4. Under("main", e) => folder'["main"] # folder["main"] /\ folder'["replaced"] # folder["main"]
    BY <2>2, <2>3, NamesAre
  <2>5. Under("replaced", e) => /\ folder'["replaced"] # folder["replaced"]
                                /\ folder'["main"] # folder["replaced"]
    BY <2>2, <2>3, NamesAre
  <2>6. Under("main", e) \/ Under("replaced", e)
    BY DEF InFolder
  <2>7. /\ ~Under("main", e) /\ folder["main"] # NoFile
        /\ \E s \in Stations : desk[s] = "swap" /\ desk'[s] = "place"
    <3>1. CASE folder["main"] = NoFile
      BY <2>4, <2>5, <2>6, <3>1, NamesMove DEF Under
    <3>2. CASE folder["main"] # NoFile /\ folder'["main"] = folder["main"]
      <4>1. ~Under("main", e) /\ Under("replaced", e)
        BY <2>4, <2>6, <3>2
      <4>2. ~Copied("replaced", "main")
        BY <3>2, <4>1 DEF Under, Copied
      <4>3. folder["replaced"] # NoFile
        BY <4>1 DEF Under
      <4> QED BY <2>5, <3>2, <4>1, <4>2, <4>3, NamesMove
    <3>3. CASE folder["main"] # NoFile /\ folder'["main"] # folder["main"]
      BY <2>4, <3>3, NamesMove
    <3> QED BY <3>1, <3>2, <3>3
  <2>8. ~NoneBegun
    BY <2>7 DEF SoloInv, RegisterHasAll, Holder
  <2> QED BY <2>7, <2>8
<1>2. FileSpec => []SoloInv
  BY SoloEver
<1> QED BY <1>1, <1>2, PTL DEF FileSpec, LostOnlyToASecond

(* So nothing is lost, but as those two say: in the file that has the name  *)
(* or the one set aside, until a second change of the password writes a     *)
(* register begun at a launch over it.                                      *)
THEOREM NothingIsLostEver ==
  ASSUME OneStation
  PROVE  FileSpec => NothingIsLost
BY RegisterHasAllEver, LostOnlyToASecondEver DEF NothingIsLost

(* An operator told that a change of the password failed has the register   *)
(* under its old password, and under its own name unless both renames were  *)
(* refused; one told that it is done has it under the new one.              *)
THEOREM ToldIsTrueEver ==
  ASSUME OneStation
  PROVE  FileSpec => ToldIsTrue
<1> DEFINE Failed(s) == /\ folder'[Holder'] # NoFile /\ file[folder'[Holder']].key # wanted[s]
                        /\ folder'["main"] = NoFile => spared'.faults = spared.faults - 2
           Changed(s) == folder'["main"] # NoFile /\ file[folder'["main"]].key = wanted[s]
           Right == \A s \in Stations :
       desk[s] \in {"verify", "swap", "place", "placed"} /\ desk'[s] = "closed"
       => /\ told' = "failed" =>
               /\ folder'[Holder'] # NoFile /\ file[folder'[Holder']].key # wanted[s]
               /\ folder'["main"] = NoFile => spared'.faults = spared.faults - 2
          /\ told' = "changed" =>
               /\ folder'["main"] # NoFile /\ file[folder'["main"]].key = wanted[s]
<1>1. SoloInv /\ [FileNext]_fileVars => [Right]_fileVars
  <2> SUFFICES ASSUME SoloInv, FileNext, NEW s \in Stations,
                      desk[s] \in {"verify", "swap", "place", "placed"}, desk'[s] = "closed"
               PROVE  (told' = "failed" => Failed(s)) /\ (told' = "changed" => Changed(s))
    OBVIOUS
  <2>1. FileInv /\ Held(s)
    BY DEF SoloInv
  <2>2. told = "nothing"
    BY <2>1 DEF Held
  <2>3. CASE told' = told
    BY <2>2, <2>3
  <2>4. ASSUME NEW t \in Stations, CopyIsBad(t) \/ MoveAsideFails(t)
        PROVE  told' = "failed" /\ Failed(s)
    <3>1. t = s
      BY OneStation DEF OneStation
    <3>2. folder'["main"] = folder["main"] /\ told' = "failed"
      BY <2>1, <2>4, NamesAfter DEF CopyIsBad, MoveAsideFails
    <3>3. folder["main"] # NoFile /\ file[folder["main"]].key # wanted[s]
      BY <2>1, <2>4, <3>1 DEF Held, Sound, CopyIsBad, MoveAsideFails
    <3>4. Holder' = "main"
      BY <3>2, <3>3 DEF Holder
    <3> QED BY <3>2, <3>3, <3>4
  <2>5. ASSUME NEW t \in Stations, MoveIntoPlaceFails(t)
        PROVE  told' = "failed" /\ Failed(s)
    <3>1. t = s
      BY OneStation DEF OneStation
    <3>2. folder'["main"] = folder["replaced"] /\ told' = "failed"
      BY <2>1, <2>5, NamesAfter DEF MoveIntoPlaceFails
    <3>3. folder["replaced"] # NoFile /\ file[folder["replaced"]].key # wanted[s]
      BY <2>1, <2>5, <3>1 DEF Held, Sound, MoveIntoPlaceFails
    <3>4. Holder' = "main"
      BY <3>2, <3>3 DEF Holder
    <3> QED BY <3>2, <3>3, <3>4
  <2>6. ASSUME NEW t \in Stations, PutBackFails(t)
        PROVE  told' = "failed" /\ Failed(s)
    <3>1. t = s
      BY OneStation DEF OneStation
    <3>2. UNCHANGED folder /\ told' = "failed" /\ Fault(Cost("target") + Cost("replaced"))
      BY <2>6 DEF PutBackFails
    <3>3. /\ folder["main"] = NoFile /\ folder["target"] # NoFile
          /\ folder["replaced"] # NoFile /\ file[folder["replaced"]].key # wanted[s]
      BY <2>1, <2>6, <3>1 DEF Held, Ready, Sound, PutBackFails
    <3>4. Holder' = "replaced" /\ Cost("target") + Cost("replaced") = 2
      BY <3>2, <3>3 DEF Holder, Cost
    <3>5. spared'.faults = spared.faults - 2
      BY <2>1, <3>2, <3>4, SparedFields DEF Fault, SparedRange
    <3> QED BY <3>2, <3>3, <3>4, <3>5
  <2>7. ASSUME NEW t \in Stations, DropReplaced(t)
        PROVE  told' = "changed" /\ Changed(s)
    <3>1. t = s
      BY OneStation DEF OneStation
    <3>2. folder'["main"] = folder["main"] /\ told' = "changed"
      BY <2>1, <2>7, NamesAfter DEF DropReplaced
    <3>3. folder["main"] # NoFile /\ file[folder["main"]].key = wanted[s]
      BY <2>1, <2>7, <3>1 DEF Held, Sound, DropReplaced
    <3> QED BY <3>2, <3>3
  <2>8. ASSUME NEW t \in Stations, NEW password \in Passwords, ChangeBegin(t, password)
        PROVE  FALSE
    BY <2>1, <2>8, OneStation, DeskAfter DEF OneStation, ChangeBegin
  <2>9. told' = told \/ \E t \in Stations :
            \/ CopyIsBad(t) \/ MoveAsideFails(t) \/ MoveIntoPlaceFails(t) \/ PutBackFails(t)
            \/ DropReplaced(t) \/ \E password \in Passwords : ChangeBegin(t, password)
    BY DEF FileNext, OpenFile, StartUp, Migrate, SetVersion, CloseFile, Record, BackupIfDue,
           Change, Export, CopyIsGood, MoveAside, MoveIntoPlace, Die, DayPasses
  <2> HIDE DEF Failed, Changed
  <2> QED BY <2>3, <2>4, <2>5, <2>6, <2>7, <2>8, <2>9
<1>2. FileSpec => []SoloInv
  BY SoloEver
<1> QED BY <1>1, <1>2, PTL DEF FileSpec, ToldIsTrue

(***************************************************************************)
(* The mirror of the trail.                                                 *)
(***************************************************************************)

Hashes == Seq(Nat \X Words)
Rows == [seq : Nat, word : Words, prev : Hashes, hash : Hashes]

(* The mirror has whole entries, and lacks as many as were lost.            *)
LinesWhole == \A i \in 1..Len(mirror) : HashOf(mirror[i]) = mirror[i].hash
CountsOK ==
  /\ trail \in Seq(Rows) /\ mirror \in Seq(Rows)
  /\ torn \in BOOLEAN /\ lost \in Nat
  /\ ~torn => Len(trail) = Len(mirror) + lost

MirrorInv == CountsOK /\ LinesWhole

LEMMA CountsFacts ==
  ASSUME MirrorInv
  PROVE  trail \in Seq(Rows) /\ mirror \in Seq(Rows) /\ lost \in Nat
BY Zenon DEF MirrorInv, CountsOK

LEMMA EntryIsRow ==
  ASSUME NEW seq \in Nat, NEW word \in Words, NEW prev \in Hashes
  PROVE  /\ Entry(seq, word, prev) \in Rows
         /\ HashOf(Entry(seq, word, prev)) = Entry(seq, word, prev).hash
<1>1. Append(prev, <<seq, word>>) \in Hashes
  BY DEF Hashes
<1> QED BY <1>1 DEF Entry, Hash, HashOf, Rows

LEMMA NextIsRow ==
  ASSUME MirrorInv, NEW word \in Words
  PROVE  /\ NextEntry(word) \in Rows
         /\ HashOf(NextEntry(word)) = NextEntry(word).hash
<1>1. LastHash(trail) \in Hashes
  <2>1. CASE trail = <<>>
    BY <2>1 DEF LastHash, Genesis, Hashes
  <2>2. CASE trail # <<>>
    <3>1. trail \in Seq(Rows) /\ Len(trail) \in 1..Len(trail)
      BY <2>2 DEF MirrorInv, CountsOK
    <3>2. trail[Len(trail)] \in Rows
      BY <3>1
    <3> QED BY <2>2, <3>2 DEF LastHash, Last, Rows
  <2> QED BY <2>1, <2>2
<1>2. Len(trail) + 1 \in Nat
  BY DEF MirrorInv, CountsOK
<1> QED BY <1>1, <1>2, EntryIsRow DEF NextEntry

(* A hash is what it is taken over.                                         *)
LEMMA HashTells ==
  ASSUME NEW a \in Rows, NEW b \in Rows, HashOf(a) = HashOf(b),
         HashOf(a) = a.hash, HashOf(b) = b.hash
  PROVE  a = b
<1>1. /\ a.prev \in Hashes /\ b.prev \in Hashes
      /\ <<a.seq, a.word>> \in Nat \X Words /\ <<b.seq, b.word>> \in Nat \X Words
  BY DEF Rows
<1>2. ASSUME NEW S, NEW p \in Seq(S), NEW q \in Seq(S), NEW x \in S, NEW y \in S,
             Append(p, x) = Append(q, y)
      PROVE  p = q /\ x = y
  <2>1. Len(p) = Len(q)
    <3>1. Len(Append(p, x)) = Len(p) + 1 /\ Len(Append(q, y)) = Len(q) + 1
      OBVIOUS
    <3> QED BY <1>2, <3>1
  <2>2. x = y
    BY <1>2, <2>1
  <2>3. \A i \in 1..Len(p) : p[i] = q[i]
    BY <1>2, <2>1
  <2> QED BY <2>1, <2>2, <2>3
<1>3. Append(a.prev, <<a.seq, a.word>>) = Append(b.prev, <<b.seq, b.word>>)
  BY DEF HashOf, Hash
<1>4. a.prev = b.prev /\ <<a.seq, a.word>> = <<b.seq, b.word>>
  <2> DEFINE S == Nat \X Words  x == <<a.seq, a.word>>  y == <<b.seq, b.word>>
  <2>1. a.prev \in Seq(S) /\ b.prev \in Seq(S) /\ x \in S /\ y \in S
    BY <1>1 DEF Hashes
  <2>2. Append(a.prev, x) = Append(b.prev, y)
    BY <1>3
  <2> HIDE DEF S, x, y
  <2>3. a.prev = b.prev /\ x = y
    BY <1>2, <2>1, <2>2
  <2> QED BY <2>3 DEF x, y
<1>5. a.seq = b.seq /\ a.word = b.word /\ a.hash = b.hash
  BY <1>4
<1>6. /\ a = [seq |-> a.seq, word |-> a.word, prev |-> a.prev, hash |-> a.hash]
      /\ b = [seq |-> b.seq, word |-> b.word, prev |-> b.prev, hash |-> b.hash]
  BY DEF Rows
<1> QED BY <1>4, <1>5, <1>6

(* From outside a row may change, and with it every hash after it.          *)
LEMMA RewriteKeeps ==
  ASSUME MirrorInv, NEW k \in 1..MaxTrail, NEW word \in Words, NEW rebuild \in BOOLEAN,
         Rewrite(k, word, rebuild)
  PROVE  MirrorInv'
<1> DEFINE edited == [trail EXCEPT ![k].word = word]
           words == [i \in DOMAIN edited |-> edited[i].word]
<1>1. trail \in Seq(Rows) /\ k \in 1..Len(trail)
  BY DEF MirrorInv, CountsOK, Rewrite
<1>2. DOMAIN edited = 1..Len(trail) /\ \A i \in 1..Len(trail) : edited[i] \in Rows
  <2>1. \A i \in 1..Len(trail) : trail[i] \in Rows
    BY <1>1
  <2> QED BY <1>1, <2>1 DEF Rows
<1>3. edited \in Seq(Rows) /\ Len(edited) = Len(trail)
  <2>1. Len(trail) \in Nat /\ edited = [i \in 1..Len(trail) |-> edited[i]]
    <3>1. Len(trail) \in Nat
      BY <1>1
    <3>2. edited = [i \in DOMAIN edited |-> edited[i]]
      BY DEF edited
    <3> QED BY <1>2, <3>1, <3>2
  <2>2. edited \in [1..Len(trail) -> Rows]
    BY <1>2, <2>1
  <2> HIDE DEF edited
  <2> QED BY <2>1, <2>2
<1>4. \A i \in 1..Len(trail) : words[i] \in Words
  BY <1>2 DEF Rows
<1> HIDE DEF edited
<1>5. DOMAIN words = 1..Len(trail)
  BY <1>2
<1> HIDE DEF words
<1>6. Rebuilt(words) \in Seq(Rows) /\ Len(Rebuilt(words)) = Len(trail)
  <2>1. ASSUME NEW i \in 1..Len(trail)
        PROVE  Entry(i, words[i], [j \in 1..(i - 1) |-> <<j, words[j]>>]) \in Rows
    <3>1. \A j \in 1..(i - 1) : <<j, words[j]>> \in Nat \X Words
      BY <1>1, <1>4
    <3>2. [j \in 1..(i - 1) |-> <<j, words[j]>>] \in Hashes
      BY <1>1, <3>1 DEF Hashes
    <3>3. i \in Nat /\ words[i] \in Words
      BY <1>1, <1>4
    <3> QED BY <3>2, <3>3, EntryIsRow
  <2>2. Rebuilt(words) =
          [i \in 1..Len(trail) |-> Entry(i, words[i], [j \in 1..(i - 1) |-> <<j, words[j]>>])]
    BY <1>5 DEF Rebuilt
  <2>3. Rebuilt(words) \in [1..Len(trail) -> Rows]
    BY <2>1, <2>2
  <2> QED BY <1>1, <2>3
<1>7. trail' = Rebuilt(words) \/ trail' = edited
  BY DEF Rewrite, words, edited
<1>8. trail' \in Seq(Rows) /\ Len(trail') = Len(trail) /\ UNCHANGED <<mirror, torn, lost>>
  BY <1>3, <1>6, <1>7 DEF Rewrite
<1> QED BY <1>8 DEF MirrorInv, CountsOK, LinesWhole, HashOf, Hash

LEMMA MirrorNextKeeps ==
  ASSUME MirrorInv, [MirrorNext]_mirrorVars
  PROVE  MirrorInv'
<1>1. CASE UNCHANGED mirrorVars
  BY <1>1 DEF MirrorInv, CountsOK, LinesWhole, mirrorVars, HashOf, Hash
<1>2. ASSUME NEW word \in Words, AppendBoth(word) PROVE MirrorInv'
  <2>1. /\ NextEntry(word) \in Rows /\ HashOf(NextEntry(word)) = NextEntry(word).hash
    BY NextIsRow
  <2> DEFINE e == NextEntry(word)
  <2>2. /\ trail' = Append(trail, e) /\ mirror' = Append(mirror, e)
        /\ UNCHANGED <<torn, lost>> /\ ~torn
    BY <1>2 DEF AppendBoth
  <2> HIDE DEF e
  <2>3. e \in Rows /\ HashOf(e) = e.hash
    BY <2>1 DEF e
  <2>4. /\ trail' \in Seq(Rows) /\ mirror' \in Seq(Rows)
        /\ Len(trail') = Len(trail) + 1 /\ Len(mirror') = Len(mirror) + 1
    BY <2>2, <2>3 DEF MirrorInv, CountsOK
  <2>5. ASSUME NEW i \in 1..Len(mirror')
        PROVE  HashOf(mirror'[i]) = mirror'[i].hash
    <3>1. i \in 1..Len(mirror) \/ i = Len(mirror) + 1
      BY <2>4, <2>5 DEF MirrorInv, CountsOK
    <3>2. i \in 1..Len(mirror) => mirror'[i] = mirror[i]
      BY <2>2, <2>3 DEF MirrorInv, CountsOK
    <3>3. i = Len(mirror) + 1 => mirror'[i] = e
      BY <2>2, <2>3 DEF MirrorInv, CountsOK
    <3>4. i \in 1..Len(mirror) => HashOf(mirror[i]) = mirror[i].hash
      BY DEF MirrorInv, LinesWhole
    <3> QED BY <2>3, <3>1, <3>2, <3>3, <3>4
  <2>6. (\A i \in 1..Len(mirror) : HashOf(mirror[i]) = mirror[i].hash)'
    BY <2>5 DEF HashOf, Hash
  <2> QED BY <2>2, <2>4, <2>6 DEF MirrorInv, CountsOK, LinesWhole
<1>3. ASSUME NEW word \in Words, NEW half \in BOOLEAN, AppendOne(word, half) PROVE MirrorInv'
  <2>1. NextEntry(word) \in Rows
    BY NextIsRow
  <2>2. /\ trail' \in Seq(Rows) /\ Len(trail') = Len(trail) + 1
        /\ UNCHANGED mirror
    BY <1>3, <2>1 DEF MirrorInv, CountsOK, AppendOne
  <2>3. /\ torn' \in BOOLEAN /\ lost' \in Nat
        /\ ~torn' => ~torn /\ lost' = lost + 1
    BY <1>3 DEF MirrorInv, CountsOK, AppendOne
  <2> QED BY <2>2, <2>3 DEF MirrorInv, CountsOK, LinesWhole, HashOf, Hash
<1> QED BY <1>1, <1>2, <1>3, RewriteKeeps DEF MirrorNext

LEMMA SameHashesSameRows ==
  ASSUME MirrorInv, Len(trail) = Len(mirror),
         \A i \in 1..Len(trail) : HashOf(trail[i]) = trail[i].hash,
         \A i \in 1..Len(trail) : trail[i].hash = mirror[i].hash
  PROVE  trail = mirror
<1>1. \A i \in 1..Len(trail) : trail[i] \in Rows /\ mirror[i] \in Rows
  BY CountsFacts
<1>2. \A i \in 1..Len(trail) : HashOf(mirror[i]) = mirror[i].hash
  BY Zenon DEF MirrorInv, LinesWhole
<1>3. ASSUME NEW i \in 1..Len(trail) PROVE trail[i] = mirror[i]
  <2>1. trail[i] \in Rows /\ mirror[i] \in Rows
    BY <1>1
  <2>2. HashOf(trail[i]) = trail[i].hash /\ trail[i].hash = mirror[i].hash
    OBVIOUS
  <2>3. HashOf(mirror[i]) = mirror[i].hash
    BY <1>2
  <2> QED BY <2>1, <2>2, <2>3, HashTells, Zenon
<1> QED BY <1>3, CountsFacts

(* Whatever entries the mirror missed and however often the trail was       *)
(* rewritten, rebuilt with every hash or not: verify and                    *)
(* compare_with_mirror both content means that the trail has every entry as *)
(* the program wrote it.                                                    *)
THEOREM MirrorTellsEver == MirrorSpec => []MirrorTells
<1>1. MirrorInit => MirrorInv
  <2> SUFFICES ASSUME MirrorInit PROVE MirrorInv
    OBVIOUS
  <2>1. trail = <<>> /\ mirror = <<>> /\ torn = FALSE /\ lost = 0
    BY DEF MirrorInit
  <2>2. trail \in Seq(Rows) /\ mirror \in Seq(Rows) /\ lost \in Nat /\ LinesWhole
    BY <2>1 DEF LinesWhole
  <2>3. Len(trail) = Len(mirror) + lost
    BY <2>1
  <2>4. torn \in BOOLEAN
    BY <2>1, Zenon
  <2> QED BY <2>2, <2>3, <2>4, Zenon DEF MirrorInv, CountsOK
<1>2. MirrorInv /\ [MirrorNext]_mirrorVars => MirrorInv'
  BY MirrorNextKeeps
<1>3. MirrorInv => MirrorTells
  <2>1. ASSUME MirrorInv PROVE DOMAIN trail = 1..Len(trail)
    BY <2>1, CountsFacts
  <2>2. ASSUME MirrorInv, Len(trail) = Len(mirror)
        PROVE  Overlap(trail, mirror) = 1..Len(trail)
    BY <2>2, CountsFacts DEF Overlap
  <2>3. ASSUME MirrorInv, Len(trail) = Len(mirror), Len(trail) = Len(mirror) + lost
        PROVE  lost = 0
    BY <2>3, CountsFacts
  <2> SUFFICES ASSUME MirrorInv, Verifies(trail), MirrorStatus = "in sync"
               PROVE  trail = mirror /\ lost = 0
    BY DEF MirrorTells
  <2>4. ~torn /\ Compare(trail, mirror) = "in sync"
    BY DEF MirrorStatus
  <2>5. /\ Len(trail) = Len(mirror)
        /\ \A i \in Overlap(trail, mirror) : trail[i].hash = mirror[i].hash
    BY <2>4 DEF Compare
  <2>6. \A i \in 1..Len(trail) : trail[i].hash = mirror[i].hash
    BY <2>2, <2>5, Zenon
  <2>7. \A i \in 1..Len(trail) : HashOf(trail[i]) = trail[i].hash
    BY <2>1, Zenon DEF Verifies
  <2>8. Len(trail) = Len(mirror) + lost
    BY <2>4, Zenon DEF MirrorInv, CountsOK
  <2> QED BY <2>3, <2>5, <2>6, <2>7, <2>8, SameHashesSameRows, Zenon
<1> QED BY <1>1, <1>2, <1>3, PTL DEF MirrorSpec
=============================================================================
