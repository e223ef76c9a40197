------------------------------ MODULE Casework ------------------------------
(* What is written about a key and a person away from the hardware: the     *)
(* observation on the inventory row, the holder's record, the lifecycle     *)
(* panel with its incident, its remediations and its repair case (app.rs,   *)
(* ui/inventory.rs, ui/holders.rs).  Each desk works from what it read.     *)
EXTENDS KeyLifecycle, FiniteSets

CONSTANTS CwDesks, Filed, Reports, Repairs, Subjects,
          Edits        \* bound: rows saved, notes and holders together

ASSUME CaseworkAssumption == Edits \in Nat

VARIABLES row,       \* keys: status, the note, and updated_at
          person,    \* the holder's row: whose edit it is, whether the phone is given
          report,    \* key_incidents
          repair,    \* key_rma
          carried,   \* what the runs applied to each key (dependencies_for)
          remedied,  \* key_remediations
          clerk,     \* each desk: its lists, its drafts, its lifecycle panel
          letter,    \* the incident note last written to a file
          edits      \* saves so far

caseVars == <<row, person, report, repair, carried, remedied, clerk, letter, edits>>

NoFile == "none"
NoReport == [key |-> NoFile, closed |-> FALSE, quiet |-> FALSE]
NoRepair == [key |-> NoFile, by |-> NoFile, closed |-> FALSE]
NoDraft == [key |-> NoFile, read |-> 0]
NoForm == [open |-> FALSE, read |-> 0, phone |-> FALSE]
NoNote == [carried |-> {}, remedied |-> {}, contact |-> FALSE, up |-> FALSE]
NoCasePanel == [key |-> NoFile, reports |-> <<>>, repairs |-> <<>>, carried |-> {}, remedied |-> {},
                settling |-> NoFile, note |-> NoNote]
Stranger == [name |-> 0, phone |-> FALSE]
NoPair == [case |-> NoFile, by |-> NoFile]

CaseInit ==
  /\ row = [k \in Filed |-> [status |-> "Distributed", text |-> 0, at |-> 0]]
  /\ person = Stranger /\ letter = NoNote /\ edits = 0
  /\ report = [i \in Reports |-> NoReport] /\ repair = [c \in Repairs |-> NoRepair]
  /\ carried = [k \in Filed |-> {}] /\ remedied = [k \in Filed |-> {}]
  /\ clerk = [d \in CwDesks |-> [rows |-> row, person |-> person, draft |-> NoDraft, form |-> NoForm,
                                 panel |-> NoCasePanel, pair |-> NoPair]]

Panel(d) == clerk[d].panel
Puts(d, field, value) == [clerk[d] EXCEPT ![field] = value]
Sets(d, c) == clerk' = [clerk EXCEPT ![d] = c]

(* refresh: the lists again, the panel as it was.                           *)
Relisted(c) == [c EXCEPT !.rows = row', !.person = person']
(* reload_lifecycle: what the register holds of the panel's key.            *)
Read(k) == [NoCasePanel EXCEPT !.key = k, !.carried = carried[k], !.remedied = remedied'[k],
              !.reports = [i \in {j \in Reports : report'[j].key = k} |-> report'[i]],
              !.repairs = [c \in {e \in Repairs : repair'[e].key = k} |-> repair'[c]]]
Afresh(p) == IF p.key = NoFile THEN p ELSE [Read(p.key) EXCEPT !.note = p.note, !.settling = p.settling]
Reloaded(d, settling) ==
  Sets(d, Puts(d, "panel", [Afresh(Panel(d)) EXCEPT !.settling = settling]))

IsOut(r) == r.key # NoFile /\ ~r.closed
Owed(carries, done) == carries \ done
Reported(p) == \E i \in DOMAIN p.reports : IsOut(p.reports[i])
Dealt(c) == c.by # NoFile \/ c.closed
Touched(k, to) == [row EXCEPT ![k].status = to, ![k].at = edits + 1]
Stamped == edits < Edits /\ edits' = edits + 1
-----------------------------------------------------------------------------
(* The observation: begun from the list, saved against the list.            *)
EditKeyNote(d, k) ==
  /\ clerk[d].draft = NoDraft
  /\ Sets(d, Puts(d, "draft", [key |-> k, read |-> clerk[d].rows[k].text]))
  /\ UNCHANGED <<row, person, report, repair, carried, remedied, letter, edits>>

CancelKeyNote(d) ==
  /\ clerk[d].draft # NoDraft /\ Sets(d, Puts(d, "draft", NoDraft))
  /\ UNCHANGED <<row, person, report, repair, carried, remedied, letter, edits>>

(* Mutant: the row is updated by serial alone.                              *)
StillAsListed_Unasked(d, k) == k \in DOMAIN row

StillAsListed(d, k) == clerk[d].rows[k].at = row[k].at
SaveKeyNote(d) ==
  LET k == clerk[d].draft.key
  IN /\ k # NoFile
     /\ UNCHANGED <<person, report, repair, carried, remedied, letter>>
     /\ IF StillAsListed(d, k)
          THEN /\ Stamped /\ row' = [row EXCEPT ![k].text = edits + 1, ![k].at = edits + 1]
               /\ Sets(d, Relisted(Puts(d, "draft", NoDraft)))
          ELSE UNCHANGED <<row, edits>> /\ Sets(d, Relisted(clerk[d]))

(* set_key_status stamps the row as well; the moves that hand the key on    *)
(* have the sanitised gate besides (Register) and are left to it.           *)
MoveStatus(d, k, to) ==
  /\ to # row[k].status /\ CanTransition(row[k].status, to) /\ ~IsReissue(row[k].status, to)
  /\ Stamped /\ row' = Touched(k, to)
  /\ UNCHANGED <<person, report, repair, carried, remedied, letter>>
  /\ Sets(d, Relisted(clerk[d]))

-----------------------------------------------------------------------------
(* The holder: registered by address, which fills in and never blanks, or   *)
(* edited by id from the list, which writes every field.                    *)
BeginHolderEdit(d) ==
  /\ clerk[d].person.name # 0
  /\ Sets(d, Puts(d, "form", [open |-> TRUE, read |-> clerk[d].person.name, phone |-> clerk[d].person.phone]))
  /\ UNCHANGED <<row, person, report, repair, carried, remedied, letter, edits>>

CancelHolderEdit(d) ==
  /\ clerk[d].form.open /\ Sets(d, Puts(d, "form", NoForm))
  /\ UNCHANGED <<row, person, report, repair, carried, remedied, letter, edits>>

(* Mutant: phone = excluded.phone, as the other columns.                    *)
Filled_Plain(phone) == phone

Filled(phone) == person.phone \/ phone
Renewed(phone) == [name |-> edits + 1, phone |-> phone]
SubmitHolder(d, phone) ==
  /\ Stamped /\ person' = Renewed(IF clerk[d].form.open THEN phone ELSE Filled(phone))
  /\ row' = row /\ Sets(d, Relisted(Puts(d, "form", NoForm)))
  /\ UNCHANGED <<report, repair, carried, remedied, letter>>

-----------------------------------------------------------------------------
(* The lifecycle panel.                                                     *)
OpenLifecycle(d, k) ==
  /\ UNCHANGED <<row, person, report, repair, carried, remedied, letter, edits>>
  /\ Sets(d, [clerk[d] EXCEPT !.draft = NoDraft, !.panel = Read(k)])
CloseLifecycle(d) ==
  /\ Panel(d).key # NoFile /\ Sets(d, Puts(d, "panel", NoCasePanel))
  /\ UNCHANGED <<row, person, report, repair, carried, remedied, letter, edits>>

MayReport(d) == Panel(d).key # NoFile /\ ~Reported(Panel(d))
ReportIncident(d, i) ==
  LET k == Panel(d).key
  IN /\ MayReport(d) /\ report[i] = NoReport
     /\ MoveAllowed(row[k].status, "Lost")
     /\ Stamped /\ row' = Touched(k, "Lost")
     /\ report' = [report EXCEPT ![i] = [NoReport EXCEPT !.key = k]]
     /\ UNCHANGED <<person, repair, carried, remedied, letter>>
     /\ Sets(d, Relisted(Puts(d, "panel", Afresh(Panel(d)))))

(* A run of another sitting puts something on a key that is not away.       *)
RunApplies(k, s) ==
  /\ row[k].status # "Lost" /\ carried' = [carried EXCEPT ![k] = @ \cup {s}]
  /\ UNCHANGED <<row, person, report, repair, remedied, clerk, letter, edits>>

Offered(d) == Owed(Panel(d).carried, Panel(d).remedied)
SettleDependency(d, s) ==
  /\ s \in Offered(d) /\ Panel(d).settling # s
  /\ Sets(d, [clerk[d] EXCEPT !.panel.settling = s])
  /\ UNCHANGED <<row, person, report, repair, carried, remedied, letter, edits>>
IsSettling(d) == Panel(d).settling # NoFile
RecordRemediation(d) ==
  /\ IsSettling(d)
  /\ remedied' = [remedied EXCEPT ![Panel(d).key] = @ \cup {Panel(d).settling}]
  /\ UNCHANGED <<row, person, report, repair, carried, letter, edits>>
  /\ Reloaded(d, NoFile)

(* close_key_incident: settled, as the panel has it, or with a note.        *)
MayClose(p, noted) == noted \/ Owed(p.carried, p.remedied) = {}

(* Mutant: the UPDATE does not ask for an incident that is open.            *)
Unclosed_Unasked(i) == report[i].key # NoFile

Unclosed(i) == ~report[i].closed
CloseIncident(d, i, noted) ==
  /\ i \in DOMAIN Panel(d).reports /\ IsOut(Panel(d).reports[i])
  /\ MayClose(Panel(d), noted) /\ Unclosed(i)
  /\ report' = [report EXCEPT ![i].closed = TRUE, ![i].quiet = ~noted]
  /\ UNCHANGED <<row, person, repair, carried, remedied, letter, edits>>
  /\ Reloaded(d, Panel(d).settling)

(* The note for the ESI: prepared from the panel, saved as prepared or as   *)
(* a PDF made again from the panel, without the holder's row.               *)
NoteOf(d, contact) == [carried |-> Panel(d).carried, remedied |-> Panel(d).remedied,
                       contact |-> contact, up |-> TRUE]
GenerateNote(d) ==
  /\ DOMAIN Panel(d).reports # {}
  /\ Sets(d, [clerk[d] EXCEPT !.panel.note = NoteOf(d, clerk[d].person.name # 0)])
  /\ UNCHANGED <<row, person, report, repair, carried, remedied, letter, edits>>
SaveNote(d, pdf) ==
  /\ Panel(d).note.up /\ letter' = IF pdf THEN NoteOf(d, FALSE) ELSE Panel(d).note
  /\ UNCHANGED <<row, person, report, repair, carried, remedied, clerk, edits>>

-----------------------------------------------------------------------------
(* The repair case.                                                         *)
MaySend(d) == Panel(d).key # NoFile
SendForRma(d, c) ==
  /\ MaySend(d) /\ repair[c] = NoRepair
  /\ repair' = [repair EXCEPT ![c] = [NoRepair EXCEPT !.key = Panel(d).key]]
  /\ UNCHANGED <<row, person, report, carried, remedied, letter, edits>>
  /\ Reloaded(d, Panel(d).settling)

Drawn(d, c) == c \in DOMAIN Panel(d).repairs /\ ~Dealt(Panel(d).repairs[c])
(* link_rma_replacement reads the case, then the replacement, then writes.  *)
LinkLooks(d, c, by) ==
  /\ Drawn(d, c) /\ clerk[d].pair = NoPair
  /\ repair[c].by = NoFile /\ by # repair[c].key
  /\ Sets(d, Puts(d, "pair", [case |-> c, by |-> by]))
  /\ UNCHANGED <<row, person, report, repair, carried, remedied, letter, edits>>
LinkWrites(d) ==
  LET p == clerk[d].pair
  IN /\ p # NoPair /\ repair' = [repair EXCEPT ![p.case].by = p.by]
     /\ UNCHANGED <<row, person, report, carried, remedied, letter, edits>>
     /\ Sets(d, [clerk[d] EXCEPT !.pair = NoPair, !.panel = Afresh(@)])

(* Mutant: the UPDATE asks only for a case that is not closed.              *)
Unanswered_ByClosing(c) == ~repair[c].closed

Unanswered(c) == ~Dealt(repair[c])
CloseRma(d, c) ==
  /\ Drawn(d, c) /\ Unanswered(c)
  /\ repair' = [repair EXCEPT ![c].closed = TRUE]
  /\ UNCHANGED <<row, person, report, carried, remedied, letter, edits>>
  /\ Reloaded(d, Panel(d).settling)

RefreshLists(d) ==
  /\ UNCHANGED <<row, person, report, repair, carried, remedied, letter, edits>>
  /\ Sets(d, Relisted(clerk[d]))

MovesDesk(d) == \E k \in Filed, to \in KeyStatus : MoveStatus(d, k, to)
RowsDesk(d) ==
  \/ \E k \in Filed : EditKeyNote(d, k)
  \/ CancelKeyNote(d) \/ SaveKeyNote(d) \/ BeginHolderEdit(d) \/ CancelHolderEdit(d) \/ RefreshLists(d)
  \/ \E phone \in BOOLEAN : SubmitHolder(d, phone)
PanelDesk(d) ==
  \/ \E k \in Filed : OpenLifecycle(d, k)
  \/ CloseLifecycle(d) \/ RecordRemediation(d) \/ GenerateNote(d)
  \/ \E i \in Reports : ReportIncident(d, i) \/ \E noted \in BOOLEAN : CloseIncident(d, i, noted)
  \/ \E s \in Subjects : SettleDependency(d, s)
  \/ \E pdf \in BOOLEAN : SaveNote(d, pdf)
  \/ \E c \in Repairs : SendForRma(d, c) \/ CloseRma(d, c) \/ \E by \in Filed : LinkLooks(d, c, by)

(* Between the two halves of a link the handler is running.                 *)
Between(d) == clerk[d].pair = NoPair
RowsNext == \E d \in CwDesks : Between(d) /\ RowsDesk(d)
MovesNext == \E d \in CwDesks : Between(d) /\ MovesDesk(d)
PanelNext == \E d \in CwDesks : (Between(d) /\ PanelDesk(d)) \/ LinkWrites(d)
RunsNext == \E k \in Filed, s \in Subjects : RunApplies(k, s)
CaseNext == RowsNext \/ MovesNext \/ PanelNext \/ RunsNext

CaseSpec == CaseInit /\ [][CaseNext]_caseVars
-----------------------------------------------------------------------------
SavedBy(d, k) == clerk[d].draft.key = k /\ clerk'[d].draft = NoDraft

(* Nothing written down is undone by a desk that had not read it: a note is *)
(* replaced only from a list that showed it (set_key_notes), a phone number *)
(* is blanked only by an edit (insert_holder), an incident is closed once   *)
(* (close_incident) and a case with a replacement is not closed without one *)
(* (close_rma).                                                             *)
CasesStand == [][
  /\ \A k \in Filed : row[k].text # row'[k].text =>
       \E d \in CwDesks : SavedBy(d, k) /\ clerk[d].rows[k].text = row[k].text
  /\ person.phone /\ ~person'.phone => \E d \in CwDesks : clerk[d].form.open
  /\ \A i \in Reports : report[i].closed => report'[i] = report[i]
  /\ \A c \in Repairs : repair[c].by # NoFile => repair'[c].closed = repair[c].closed]_caseVars

(* "seen has to be the copy the operator typed over, not a fresh read"      *)
(* (save_key_note).                                                         *)
NoteIsTypedOver == [][\A k \in Filed : row[k].text # row'[k].text =>
  \E d \in CwDesks : SavedBy(d, k) /\ clerk[d].draft.read = row[k].text]_caseVars

(* "An answered case is answered" (docs/data-model.md).                     *)
AnsweredStands == [][\A c \in Repairs : Dealt(repair[c]) => repair'[c] = repair[c]]_caseVars

(* An incident closed with no note had nothing outstanding (lifecycle).     *)
QuietIsSettled == [][\A i \in Reports : ~report[i].quiet /\ report'[i].quiet =>
  Owed(carried[report[i].key], remedied[report[i].key]) = {}]_caseVars

(* The note that is saved is the one that was read on the screen.           *)
SavedIsRead == [][letter' # letter => \E d \in CwDesks : letter' = Panel(d).note]_caseVars
=============================================================================
