------------------------------- MODULE Paperwork -------------------------------
(* Terms, receipts and signed documents (term/, receipt.rs, domain/         *)
(* document.rs, app.rs): a versioned wording, rendered for one hand-over,   *)
(* handed out, signed, filed or referred to, chased when it is late.        *)
EXTENDS FiniteSets, FiniteSetsExt, Integers

CONSTANTS PaperDesks, Handovers,
          Days, Wordings  \* bounds: days that pass, wordings edited

ASSUME PaperworkAssumption == {Days, Wordings} \subseteq Nat

VARIABLES terms,     \* rows of term_templates
          handover,  \* each hand-over: days held, returned, given a reference
          papers,    \* what is filed against each hand-over
          alarms,    \* receipt.pending_overdue entries per hand-over
          generated, \* the last term.generated or receipt.generated of each workstation
          handed,    \* the last file it wrote for a holder to sign
          listed,    \* each workstation's copies of the three tables
          policy,    \* settings: whether terms are used, when one is overdue
          termPanel, \* the term panel: hand-over, document, language, what is rendered
          call,      \* what a handler still has to do
          untrue     \* history: hand-overs said to be unsigned that were not, and
                     \* wordings written over

paperVars == <<terms, handover, papers, alarms, generated, handed, listed, policy,
               termPanel, call, untrue>>

TermDocs == {"consignment", "return"}
Languages == {"pt-BR", "pt-PT", "en"}
BuiltinLanguages == {"pt-BR", "en"}
DefaultLanguage == "pt-BR"
Base(language) == IF language = "en" THEN "en" ELSE "pt"
NoTerm == [doc |-> "none", language |-> "none", version |-> 0]
NoHandover == "none"
Nothing == <<NoHandover, NoTerm>>
Shut == [h |-> NoHandover, doc |-> "consignment", language |-> DefaultLanguage, shows |-> NoTerm]
NoCall == [op |-> "none", row |-> NoTerm, late |-> {}]

Builtins == [doc : TermDocs, language : BuiltinLanguages, version : {1}]
Copies == [terms |-> terms, handover |-> handover, papers |-> papers]

PaperInit ==
  /\ terms = Builtins
  /\ handover = [h \in Handovers |-> [days |-> 0, returned |-> FALSE, reference |-> FALSE]]
  /\ papers = [h \in Handovers |-> {}] /\ alarms = [h \in Handovers |-> 0]
  /\ generated = [d \in PaperDesks |-> Nothing] /\ handed = generated /\ untrue = {}
  /\ listed = [d \in PaperDesks |-> Copies]
  /\ policy = [d \in PaperDesks |-> [required |-> TRUE, after |-> 1]]
  /\ termPanel = [d \in PaperDesks |-> Shut] /\ call = [d \in PaperDesks |-> NoCall]

AtRest(d) == call[d] = NoCall
Relists(d) == listed' = [listed EXCEPT ![d] = Copies']
Calls(d, c) == call' = [call EXCEPT ![d] = c]
CheckNext == [NoCall EXCEPT !.op = "check"]

(* state_of, over a workstation's copies.                                   *)
IsSigned(copy, h) == "signed term" \in copy.papers[h] \/ copy.handover[h].reference
IsOverdue(d, h) == /\ policy[d].required /\ ~IsSigned(listed[d], h)
                   /\ ~listed[d].handover[h].returned
                   /\ listed[d].handover[h].days > policy[d].after

(* choose_template: the language asked for, else one of the same base, else *)
(* the default, else any; the newest version of it.                         *)
NewestOf(rows) == {r \in rows : \A other \in rows : other.version <= r.version}
Chosen(rows, doc, wanted) ==
  LET of == {r \in rows : r.doc = doc}
      exact == {r \in of : r.language = wanted}
      near == {r \in of : Base(r.language) = Base(wanted)}
      default == {r \in of : r.language = DefaultLanguage}
  IN IF exact # {} THEN NewestOf(exact)
     ELSE IF near # {} THEN NewestOf(near)
     ELSE IF default # {} THEN NewestOf(default) ELSE NewestOf(of)

DayPasses ==
  /\ \E h \in Handovers : handover[h].days < Days /\ ~handover[h].returned
  /\ handover' = [h \in Handovers |-> IF handover[h].returned \/ handover[h].days = Days
                                      THEN handover[h] ELSE [handover[h] EXCEPT !.days = @ + 1]]
  /\ UNCHANGED <<terms, papers, alarms, generated, handed, listed, policy, termPanel, call, untrue>>

(* generate_term and generate_return_receipt: from the copies, recorded.    *)
OfferedLanguages(d) ==
  BuiltinLanguages \cup {t.language : t \in {r \in listed[d].terms : r.doc = "consignment"}}
Generate(d, h, doc, language) ==
  /\ AtRest(d) /\ language \in OfferedLanguages(d) /\ (doc = "return" => listed[d].handover[h].returned)
  /\ \E t \in Chosen(listed[d].terms, doc, language) :
       /\ termPanel' = [termPanel EXCEPT ![d] = [h |-> h, doc |-> doc, language |-> language, shows |-> t]]
       /\ generated' = [generated EXCEPT ![d] = <<h, t>>]
  /\ UNCHANGED <<terms, handover, papers, alarms, handed, listed, policy, call, untrue>>

(* Mutant: the file is of the newest wording, not of what was rendered.     *)
Rendered_Newest(d) ==
  CHOOSE t \in Chosen(listed[d].terms, termPanel[d].doc, termPanel[d].language) : TRUE

Rendered(d) == termPanel[d].shows

(* save_term and save_term_pdf: what the panel shows.                       *)
SaveTerm(d) ==
  /\ AtRest(d) /\ termPanel[d].shows # NoTerm
  /\ handed' = [handed EXCEPT ![d] = <<termPanel[d].h, Rendered(d)>>]
  /\ UNCHANGED <<terms, handover, papers, alarms, generated, listed, policy, termPanel, call, untrue>>

(* attach_document: the panel's document, or a signed term from the list.   *)
KindOf(doc) == IF doc = "return" THEN "return receipt" ELSE "signed term"
AttachDocument(d, h, kind) ==
  /\ AtRest(d)
  /\ kind = "signed term" \/ (termPanel[d].shows # NoTerm /\ termPanel[d].h = h /\ KindOf(termPanel[d].doc) = kind)
  /\ papers' = [papers EXCEPT ![h] = @ \cup {kind}]
  /\ UNCHANGED <<terms, handover, alarms, generated, handed, policy, termPanel, call, untrue>>
  /\ Relists(d)

(* Mutant: an empty reference is recorded too.                              *)
ReceiptRef_Blank == {TRUE, FALSE}

(* record_receipt_reference refuses a blank one.                            *)
ReceiptRef == {TRUE}
RecordReference(d) == \E reference \in ReceiptRef :
  /\ AtRest(d) /\ termPanel[d].h # NoHandover /\ termPanel[d].doc = "consignment"
  /\ handover' = [handover EXCEPT ![termPanel[d].h].reference = reference]
  /\ UNCHANGED <<terms, papers, alarms, generated, handed, policy, termPanel, call, untrue>>
  /\ Relists(d)

(* return_key looks at the overdue ones after its own entry.                *)
ReturnKey(d, h) ==
  /\ AtRest(d) /\ ~listed[d].handover[h].returned /\ ~handover[h].returned
  /\ handover' = [handover EXCEPT ![h].returned = TRUE]
  /\ Calls(d, CheckNext)
  /\ UNCHANGED <<terms, papers, alarms, generated, handed, policy, termPanel, untrue>>
  /\ Relists(d)

(* The register is opened: read, then checked.  The panel starts shut.      *)
OpenRegister(d) ==
  /\ Calls(d, CheckNext)
  /\ termPanel' = [termPanel EXCEPT ![d] = Shut]
  /\ UNCHANGED <<terms, handover, papers, alarms, generated, handed, policy, untrue>>
  /\ Relists(d)

(* Settings: checked at once, over the copies there are.                    *)
ChangePolicy(d, required, after) ==
  /\ AtRest(d) /\ policy[d] # [required |-> required, after |-> after]
  /\ policy' = [policy EXCEPT ![d] = [required |-> required, after |-> after]]
  /\ Calls(d, CheckNext)
  /\ UNCHANGED <<terms, handover, papers, alarms, generated, handed, listed, termPanel, untrue>>

(* Mutant: what the trail holds already is not asked.                       *)
Newly_All(d) == {h \in Handovers : IsOverdue(d, h)}

(* check_overdue_signatures: the trail says what it holds already.          *)
Newly(d) == {h \in Handovers : IsOverdue(d, h) /\ alarms[h] = 0}
CheckOverdue(d) ==
  /\ call[d].op = "check"
  /\ Calls(d, IF Newly(d) = {} THEN NoCall ELSE [CheckNext EXCEPT !.op = "alarm", !.late = Newly(d)])
  /\ UNCHANGED <<terms, handover, papers, alarms, generated, handed, listed, policy, termPanel, untrue>>

RaiseAlarm(d) == \E h \in call[d].late :
  /\ call[d].op = "alarm"
  /\ alarms' = [alarms EXCEPT ![h] = @ + 1]
  /\ untrue' = IF IsSigned(Copies, h) \/ handover[h].returned THEN untrue \cup {h} ELSE untrue
  /\ Calls(d, IF call[d].late = {h} THEN NoCall ELSE [call[d] EXCEPT !.late = @ \ {h}])
  /\ UNCHANGED <<terms, handover, papers, generated, handed, listed, policy, termPanel>>

(* Mutant: a wording is stored over the newest of its document and language.*)
NextWording_InPlace(doc, language) ==
  Max({1} \cup {r.version : r \in {t \in terms : t.doc = doc /\ t.language = language}})

(* save_term_template_version: the versions are read, then the row written. *)
NextWording(doc, language) ==
  1 + Max({0} \cup {r.version : r \in {t \in terms : t.doc = doc /\ t.language = language}})
SaveWording(d, doc, language) ==
  /\ AtRest(d) /\ Cardinality(terms) < Cardinality(Builtins) + Wordings
  /\ Calls(d, [NoCall EXCEPT !.op = "put",
                 !.row = [doc |-> doc, language |-> language, version |-> NextWording(doc, language)]])
  /\ UNCHANGED <<terms, handover, papers, alarms, generated, handed, listed, policy, termPanel, untrue>>

(* upsert_term_template: the same version again is another text under it.   *)
PutWording(d) ==
  /\ call[d].op = "put"
  /\ terms' = terms \cup {call[d].row}
  /\ untrue' = untrue \cup ({call[d].row} \cap terms)
  /\ Calls(d, NoCall)
  /\ UNCHANGED <<handover, papers, alarms, generated, handed, policy, termPanel>>
  /\ Relists(d)

(* The program ends, or the register refuses, in the middle of a handler.   *)
PaperFails(d) ==
  /\ ~AtRest(d) /\ Calls(d, NoCall)
  /\ UNCHANGED <<terms, handover, papers, alarms, generated, handed, listed, policy, termPanel, untrue>>

PaperRefresh(d) ==
  /\ AtRest(d) /\ listed[d] # Copies
  /\ UNCHANGED <<terms, handover, papers, alarms, generated, handed, policy, termPanel, call, untrue>>
  /\ Relists(d)

PaperNext ==
  \/ DayPasses
  \/ \E d \in PaperDesks :
       \/ \E h \in Handovers :
            \/ \E doc \in TermDocs, language \in Languages : Generate(d, h, doc, language)
            \/ \E kind \in {"signed term", "return receipt"} : AttachDocument(d, h, kind)
            \/ ReturnKey(d, h)
       \/ SaveTerm(d) \/ RecordReference(d) \/ OpenRegister(d)
       \/ \E required \in BOOLEAN, after \in {1, 2} : ChangePolicy(d, required, after)
       \/ CheckOverdue(d) \/ RaiseAlarm(d)
       \/ \E doc \in TermDocs, language \in Languages : SaveWording(d, doc, language)
       \/ PutWording(d) \/ PaperFails(d) \/ PaperRefresh(d)

PaperSpec == PaperInit /\ [][PaperNext]_paperVars
-----------------------------------------------------------------------------
(* check_overdue_signatures: a hand-over is said to be overdue once, ever,  *)
(* across restarts and changes of the threshold...                          *)
OverdueOnce == \A h \in Handovers : alarms[h] <= 1

(* ...what an entry says of a hand-over is so when it is written, and no    *)
(* wording an entry names is written over (save_term_template_version).     *)
EntriesAreTrue == untrue = {}

(* What the holder is given to sign is what the trail says was generated    *)
(* last, wording and version, whatever was edited since; and a hand-over    *)
(* once signed for is signed for good: nothing unfiles a document or blanks *)
(* a reference.                                                             *)
HandedIsGenerated == \A d \in PaperDesks : handed'[d] # handed[d] => handed'[d] = generated[d]
SignedStands == \A h \in Handovers : IsSigned(Copies, h) => IsSigned(Copies', h)
PapersStand == [][HandedIsGenerated /\ SignedStands]_paperVars
=============================================================================
