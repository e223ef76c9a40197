------------------------------ MODULE Register ------------------------------
(***************************************************************************)
(* The shared register: the keys table, the hand-overs, the incidents and  *)
(* the sanitisation record, worked on by several workstations at once.     *)
(* A desk is one running copy of the program.  Each of its operations is   *)
(* the handler in app.rs, one action per access it makes to the database   *)
(* (every statement outside a transaction commits on its own, so another   *)
(* desk may act between any two) or to the key in its USB port.            *)
(*                                                                         *)
(* Bounds: a serial is entered and removed at most once, the hand-overs    *)
(* and incidents are finite sets of record ids, and a run writes an applet *)
(* at most once while the applet holds something.                          *)
(***************************************************************************)
EXTENDS KeyLifecycle

CONSTANTS
  Desks,       \* the workstations that have the register open
  Serials,     \* the physical keys
  HandOvers,   \* ids of distribution records
  Incidents,   \* ids of incident reports
  Applets,     \* the applets of a key that a run can write to
  Ops,         \* the operations the desks perform in this instance
  Faults,      \* which of "crash", "io", "partial" may happen
  None         \* no key, no record

OpNames == {"add", "remove", "distribute", "return", "change", "run",
            "report", "close", "reset", "sanitise"}
FaultNames == {"crash", "io", "partial"}

ASSUME RegisterAssumption ==
  /\ Ops \subseteq OpNames
  /\ Faults \subseteq FaultNames
  /\ None \notin Serials \cup HandOvers \cup Incidents \cup Desks
  /\ None \notin [key : Serials, back : Desks \cup {None}]
  /\ None \notin [key : Serials, closed : Desks \cup {None}]

VARIABLES
  status,       \* keys.status, or why there is no row
  handOver,     \* the distributions table
  incident,     \* the key_incidents table
  hasRun,       \* keys some row of bootstrap_runs names
  outstanding,  \* what sanitisation_for answers: applets written, not reset
  trail,        \* the audit table: the <<event, serial>> entries it holds, and
                \* the desks whose reading of its last row is still current
  onKey,        \* what is physically on each key
  shown,        \* the inventory as each desk last painted it
  desk,         \* where each desk is in its current operation
  torn          \* history: keys an operation was cut short on

vars == <<status, handOver, incident, hasRun, outstanding, trail, onKey, shown, desk, torn>>

NoRow == {"absent", "removed"}
RowStatus == KeyStatus \cup NoRow
HasRow(k) == status[k] \notin NoRow

Stages == {"insert", "count", "delete", "gate", "setread", "setgate", "setupdate",
           "start", "write", "record", "settle", "file", "clear", "audit", "append"}

AuditEvent ==
  [add |-> "key.added", remove |-> "key.removed", distribute |-> "key.distributed",
   return |-> "key.returned", change |-> "key.status_changed", run |-> "key.status_changed",
   report |-> "key.reported_lost", close |-> "key.incident_closed",
   reset |-> "key.sanitised", sanitise |-> "key.sanitised"]

Idle == [op |-> "idle", at |-> "idle", key |-> None, seen |-> "absent",
         next |-> "absent", id |-> None, applets |-> {}, clean |-> TRUE]

Begun(op, at, k) == [Idle EXCEPT !.op = op, !.at = at, !.key = k]

At(s, stage) == desk[s].at = stage
Free(s, op) == desk[s] = Idle /\ op \in Ops
GoTo(s, stage) == desk' = [desk EXCEPT ![s].at = stage]
GoIdle(s) == desk' = [desk EXCEPT ![s] = Idle]
Repaint(s) == shown' = [shown EXCEPT ![s] = status]

(* A key is plugged into one USB port: no second desk drives its hardware. *)
UsesHardware(d, k) == desk[d].key = k /\ desk[d].op \in {"run", "reset"}
PortFree(s, k) == \A d \in Desks \ {s} : ~UsesHardware(d, k)

Mentions(k) == {h \in HandOvers : handOver[h] # None /\ handOver[h].key = k}
Open(h) == handOver[h] # None /\ handOver[h].back = None
-----------------------------------------------------------------------------
Init ==
  /\ status = [k \in Serials |-> "absent"]
  /\ handOver = [h \in HandOvers |-> None]
  /\ incident = [i \in Incidents |-> None]
  /\ hasRun = [k \in Serials |-> FALSE]
  /\ outstanding = [k \in Serials |-> {}]
  /\ trail = [entries |-> {}, tail |-> {}]
  /\ onKey = [k \in Serials |-> {}]
  /\ shown = [s \in Desks |-> [k \in Serials |-> "absent"]]
  /\ desk = [s \in Desks |-> Idle]
  /\ torn = {}

(* The views are re-read between operations.                               *)
Refresh(s) ==
  /\ desk[s] = Idle
  /\ shown[s] # status
  /\ Repaint(s)
  /\ UNCHANGED <<status, handOver, incident, hasRun, outstanding, trail, onKey, desk, torn>>

-----------------------------------------------------------------------------
(* Intake and removal.                                                     *)

AddAsk(s, k) ==
  /\ Free(s, "add")
  /\ status[k] = "absent"
  /\ desk' = [desk EXCEPT ![s] = Begun("add", "insert", k)]
  /\ UNCHANGED <<status, handOver, incident, hasRun, outstanding, trail, onKey, shown, torn>>

(* upsert_key: a row that appeared meanwhile keeps its status.             *)
AddInsert(s) ==
  /\ desk[s].op = "add" /\ At(s, "insert")
  /\ LET k == desk[s].key
     IN  status' = IF status[k] = "absent" THEN [status EXCEPT ![k] = "InStock"] ELSE status
  /\ GoTo(s, "audit")
  /\ UNCHANGED <<handOver, incident, hasRun, outstanding, trail, onKey, shown, torn>>

RemoveRead(s, k) ==
  /\ Free(s, "remove")
  /\ shown[s][k] \notin NoRow
  /\ HasRow(k)
  /\ desk' = [desk EXCEPT ![s] = Begun("remove", "count", k)]
  /\ UNCHANGED <<status, handOver, incident, hasRun, outstanding, trail, onKey, shown, torn>>

RemoveCount(s) ==
  /\ At(s, "count")
  /\ LET k == desk[s].key
     IN  IF Mentions(k) = {} /\ ~hasRun[k] THEN GoTo(s, "delete") ELSE GoIdle(s)
  /\ UNCHANGED <<status, handOver, incident, hasRun, outstanding, trail, onKey, shown, torn>>

(* Mutant: the DELETE with foreign_keys off.                               *)
RemoveDelete_NoForeignKey(s) ==
  /\ At(s, "delete")
  /\ status' = [status EXCEPT ![desk[s].key] = "removed"]
  /\ GoTo(s, "audit")
  /\ UNCHANGED <<handOver, incident, hasRun, outstanding, trail, onKey, shown, torn>>

(* Mutant: a soft delete, under a status the enum cannot read back.        *)
RemoveDelete_Soft(s) ==
  /\ At(s, "delete")
  /\ status' = [status EXCEPT ![desk[s].key] = "deleted"]
  /\ GoTo(s, "audit")
  /\ UNCHANGED <<handOver, incident, hasRun, outstanding, trail, onKey, shown, torn>>

(* The foreign key refuses the DELETE while a hand-over names the row; a   *)
(* row already gone matches nothing and is no error.                       *)
RemoveDelete(s) ==
  /\ At(s, "delete")
  /\ LET k == desk[s].key
     IN  IF Mentions(k) = {}
           THEN status' = [status EXCEPT ![k] = "removed"] /\ GoTo(s, "audit")
           ELSE GoIdle(s) /\ UNCHANGED status
  /\ UNCHANGED <<handOver, incident, hasRun, outstanding, trail, onKey, shown, torn>>

-----------------------------------------------------------------------------
(* set_key_status: a read, the gate, then an UPDATE that asks nothing.     *)

(* What each caller does with a refusal.  A hand-over and a return report  *)
(* it and go on to their audit entry; the others stop.                     *)
SetRefused(s) ==
  IF desk[s].op \in {"distribute", "return"}
    THEN GoTo(s, "audit") /\ UNCHANGED shown
    ELSE /\ GoIdle(s)
         /\ IF desk[s].op = "run" THEN Repaint(s) ELSE UNCHANGED shown

SetRead(s) ==
  /\ At(s, "setread")
  /\ LET k == desk[s].key
     IN  IF HasRow(k) /\ MoveAllowed(status[k], desk[s].next)
           THEN desk' = [desk EXCEPT ![s].at = "setgate", ![s].seen = status[k]] /\ UNCHANGED shown
           ELSE SetRefused(s)
  /\ UNCHANGED <<status, handOver, incident, hasRun, outstanding, trail, onKey, torn>>

(* Mutant: the transition table is asked, the gate is not.                 *)
SetGate_Open(s) ==
  /\ At(s, "setgate")
  /\ GoTo(s, "setupdate")
  /\ UNCHANGED <<status, handOver, incident, hasRun, outstanding, trail, onKey, shown, torn>>

SetGate(s) ==
  /\ At(s, "setgate")
  /\ IF GateAllows(desk[s].seen, desk[s].next, outstanding[desk[s].key])
       THEN GoTo(s, "setupdate") /\ UNCHANGED shown
       ELSE SetRefused(s)
  /\ UNCHANGED <<status, handOver, incident, hasRun, outstanding, trail, onKey, torn>>

(* Mutant: a hand-over or a return ends with its status, before the entry. *)
SetUpdate_EndsHandler(s) ==
  /\ At(s, "setupdate")
  /\ status' = IF HasRow(desk[s].key) THEN [status EXCEPT ![desk[s].key] = desk[s].next] ELSE status
  /\ IF desk[s].op \in {"distribute", "return"} THEN GoIdle(s) ELSE GoTo(s, "audit")
  /\ UNCHANGED <<handOver, incident, hasRun, outstanding, trail, onKey, shown, torn>>

SetUpdate(s) ==
  /\ At(s, "setupdate")
  /\ LET k == desk[s].key
     IN  status' = IF HasRow(k) THEN [status EXCEPT ![k] = desk[s].next] ELSE status
  /\ GoTo(s, "audit")
  /\ UNCHANGED <<handOver, incident, hasRun, outstanding, trail, onKey, shown, torn>>

-----------------------------------------------------------------------------
(* Mutant: the bare "mark lost" the inventory once had.                    *)
Offered_MarkLost(from) == IF from \in {"InStock", "Bootstrapped"} THEN {"Lost"} ELSE {}

(* Mutant: a "mark distributed" beside the other two.                      *)
Offered_MarkDistributed(from) == CASE from = "InStock"      -> {"Bootstrapped"}
                                   [] from = "Bootstrapped" -> {"Distributed"}
                                   [] OTHER                 -> {}

(* The two moves the inventory offers, on what it last painted.            *)
Offered(from) == CASE from = "InStock"  -> {"Bootstrapped"}
                   [] from = "Returned" -> {"InStock"}
                   [] OTHER             -> {}

Change(s, k) ==
  /\ Free(s, "change")
  /\ \E next \in Offered(shown[s][k]) :
       desk' = [desk EXCEPT ![s] = [Begun("change", "setread", k) EXCEPT !.next = next]]
  /\ UNCHANGED <<status, handOver, incident, hasRun, outstanding, trail, onKey, shown, torn>>

(* A hand-over: the lifecycle is asked first, then the gate, then the      *)
(* record is written, and only then the status is set.                     *)
DistributeAsk(s, k, h) ==
  /\ Free(s, "distribute")
  /\ shown[s][k] \notin NoRow
  /\ handOver[h] = None /\ \A d \in Desks : desk[d].id # h
  /\ HasRow(k) /\ MoveAllowed(status[k], "Distributed")
  /\ desk' = [desk EXCEPT ![s] =
                [Begun("distribute", "gate", k) EXCEPT
                   !.seen = status[k], !.next = "Distributed", !.id = h]]
  /\ UNCHANGED <<status, handOver, incident, hasRun, outstanding, trail, onKey, shown, torn>>

DistributeGate(s) ==
  /\ At(s, "gate")
  /\ IF GateAllows(desk[s].seen, "Distributed", outstanding[desk[s].key])
       THEN GoTo(s, "insert")
       ELSE GoIdle(s)
  /\ UNCHANGED <<status, handOver, incident, hasRun, outstanding, trail, onKey, shown, torn>>

(* Mutant: a refused INSERT is audited all the same.                       *)
DistributeInsert_Audits(s) ==
  /\ desk[s].op = "distribute" /\ At(s, "insert")
  /\ IF HasRow(desk[s].key)
       THEN /\ handOver' = [handOver EXCEPT ![desk[s].id] = [key |-> desk[s].key, back |-> None]]
            /\ GoTo(s, "setread")
       ELSE GoTo(s, "audit") /\ UNCHANGED handOver
  /\ UNCHANGED <<status, incident, hasRun, outstanding, trail, onKey, shown, torn>>

(* distributions.key_id references keys(id): no row, no hand-over.         *)
DistributeInsert(s) ==
  /\ desk[s].op = "distribute" /\ At(s, "insert")
  /\ IF HasRow(desk[s].key)
       THEN /\ handOver' = [handOver EXCEPT ![desk[s].id] = [key |-> desk[s].key, back |-> None]]
            /\ GoTo(s, "setread")
       ELSE GoIdle(s) /\ UNCHANGED handOver
  /\ UNCHANGED <<status, incident, hasRun, outstanding, trail, onKey, shown, torn>>

(* Mutant: the UPDATE without "returned_at IS NULL".                       *)
ReturnMark_Any(s, h) ==
  /\ Free(s, "return")
  /\ handOver[h] # None
  /\ handOver' = [handOver EXCEPT ![h].back = s]
  /\ desk' = [desk EXCEPT ![s] =
                [Begun("return", "setread", handOver[h].key) EXCEPT !.next = "Returned"]]
  /\ UNCHANGED <<status, incident, hasRun, outstanding, trail, onKey, shown, torn>>

(* A return closes one open record, and only an open one.                  *)
ReturnMark(s, h) ==
  /\ Free(s, "return")
  /\ Open(h)
  /\ handOver' = [handOver EXCEPT ![h].back = s]
  /\ desk' = [desk EXCEPT ![s] =
                [Begun("return", "setread", handOver[h].key) EXCEPT !.next = "Returned"]]
  /\ UNCHANGED <<status, incident, hasRun, outstanding, trail, onKey, shown, torn>>

-----------------------------------------------------------------------------
(* A bootstrap run, as the register sees it: the run row first, then each  *)
(* write to the key followed by its record, then the run's final status.   *)

(* The preflight asks the painted inventory for the row.                   *)
RunConfirm(s, k) ==
  /\ Free(s, "run")
  /\ shown[s][k] \notin NoRow
  /\ PortFree(s, k)
  /\ desk' = [desk EXCEPT ![s] = Begun("run", "start", k)]
  /\ UNCHANGED <<status, handOver, incident, hasRun, outstanding, trail, onKey, shown, torn>>

RunStart(s) ==
  /\ At(s, "start")
  /\ hasRun' = [hasRun EXCEPT ![desk[s].key] = TRUE]
  /\ desk' = [desk EXCEPT ![s].at = "write", ![s].clean = outstanding[desk[s].key] = {}]
  /\ UNCHANGED <<status, handOver, incident, outstanding, trail, onKey, shown, torn>>

(* Mutant: the steps are recorded when the run ends, not as they land.     *)
RunWrite_RecordLater(s) ==
  /\ At(s, "write")
  /\ \E a \in Applets \ onKey[desk[s].key] :
       /\ onKey' = [onKey EXCEPT ![desk[s].key] = @ \cup {a}]
       /\ desk' = [desk EXCEPT ![s].applets = @ \cup {a}]
  /\ UNCHANGED <<status, handOver, incident, hasRun, outstanding, trail, shown, torn>>

RunWrite(s) ==
  /\ At(s, "write")
  /\ \E a \in Applets \ onKey[desk[s].key] :
       /\ onKey' = [onKey EXCEPT ![desk[s].key] = @ \cup {a}]
       /\ desk' = [desk EXCEPT ![s].at = "record", ![s].applets = @ \cup {a}]
  /\ UNCHANGED <<status, handOver, incident, hasRun, outstanding, trail, shown, torn>>

(* Mutant: only the newest run is looked at.                               *)
RunRecord_Newest(s) ==
  /\ At(s, "record")
  /\ outstanding' = [outstanding EXCEPT ![desk[s].key] = desk[s].applets]
  /\ GoTo(s, "write")
  /\ UNCHANGED <<status, handOver, incident, hasRun, trail, onKey, shown, torn>>

RunRecord(s) ==
  /\ At(s, "record")
  /\ outstanding' = [outstanding EXCEPT ![desk[s].key] = @ \cup desk[s].applets]
  /\ GoTo(s, "write")
  /\ UNCHANGED <<status, handOver, incident, hasRun, trail, onKey, shown, torn>>

(* A step of two commands can fail after the first: the step is recorded   *)
(* Failed, which sanitisation does not count, and the run stops.           *)
RunStepFails(s) ==
  /\ At(s, "write")
  /\ LET k == desk[s].key
     IN  \/ UNCHANGED <<onKey, torn>>
         \/ /\ "partial" \in Faults
            /\ \E a \in Applets \ onKey[k] : onKey' = [onKey EXCEPT ![k] = @ \cup {a}]
            /\ torn' = torn \cup {k}
  /\ GoIdle(s)
  /\ Repaint(s)
  /\ UNCHANGED <<status, handOver, incident, hasRun, outstanding, trail>>

(* Every required step is Done, so the run is Completed.                   *)
RunCompletes(s) ==
  /\ At(s, "write")
  /\ desk[s].applets # {}
  /\ GoTo(s, "settle")
  /\ UNCHANGED <<status, handOver, incident, hasRun, outstanding, trail, onKey, shown, torn>>

(* settle_key_status: nothing to do for a key that is there already, gone, *)
(* or somewhere a run has no business overruling.                          *)
Settle(s) ==
  /\ At(s, "settle")
  /\ LET k == desk[s].key
     IN  IF HasRow(k) /\ status[k] # "Bootstrapped" /\ MoveAllowed(status[k], "Bootstrapped")
           THEN /\ desk' = [desk EXCEPT ![s].at = "setread", ![s].next = "Bootstrapped"]
                /\ UNCHANGED shown
           ELSE GoIdle(s) /\ Repaint(s)
  /\ UNCHANGED <<status, handOver, incident, hasRun, outstanding, trail, onKey, torn>>

-----------------------------------------------------------------------------
(* Incidents.                                                              *)

ReportAsk(s, k, i) ==
  /\ Free(s, "report")
  /\ shown[s][k] \notin NoRow
  /\ incident[i] = None /\ \A d \in Desks : desk[d].id # i
  /\ HasRow(k) /\ MoveAllowed(status[k], "Lost")
  /\ desk' = [desk EXCEPT ![s] = [Begun("report", "file", k) EXCEPT !.id = i]]
  /\ UNCHANGED <<status, handOver, incident, hasRun, outstanding, trail, onKey, shown, torn>>

(* One transaction: the report and the status, or neither.                 *)
ReportFile(s) ==
  /\ At(s, "file")
  /\ LET k == desk[s].key
     IN  /\ incident' = [incident EXCEPT ![desk[s].id] = [key |-> k, closed |-> None]]
         /\ status' = IF HasRow(k) THEN [status EXCEPT ![k] = "Lost"] ELSE status
  /\ GoTo(s, "audit")
  /\ UNCHANGED <<handOver, hasRun, outstanding, trail, onKey, shown, torn>>

(* Mutant: the UPDATE without "closed_at IS NULL".                         *)
CloseIncident_Any(s, i) ==
  /\ Free(s, "close")
  /\ incident[i] # None
  /\ incident' = [incident EXCEPT ![i].closed = s]
  /\ desk' = [desk EXCEPT ![s] = Begun("close", "audit", incident[i].key)]
  /\ UNCHANGED <<status, handOver, hasRun, outstanding, trail, onKey, shown, torn>>

CloseIncident(s, i) ==
  /\ Free(s, "close")
  /\ incident[i] # None /\ incident[i].closed = None
  /\ incident' = [incident EXCEPT ![i].closed = s]
  /\ desk' = [desk EXCEPT ![s] = Begun("close", "audit", incident[i].key)]
  /\ UNCHANGED <<status, handOver, hasRun, outstanding, trail, onKey, shown, torn>>

-----------------------------------------------------------------------------
(* Sanitisation: a factory reset followed by its record, or the operator's *)
(* word for a reset done elsewhere, taken here to be true.                 *)

ResetKey(s, k) ==
  /\ Free(s, "reset")
  /\ PortFree(s, k)
  /\ \E cleared \in SUBSET Applets \ {{}} :
       /\ onKey' = [onKey EXCEPT ![k] = @ \ cleared]
       /\ desk' = [desk EXCEPT ![s] = [Begun("reset", "clear", k) EXCEPT !.applets = cleared]]
  /\ UNCHANGED <<status, handOver, incident, hasRun, outstanding, trail, shown, torn>>

RecordReset(s) ==
  /\ At(s, "clear")
  /\ outstanding' = [outstanding EXCEPT ![desk[s].key] = @ \ desk[s].applets]
  /\ GoTo(s, "audit")
  /\ UNCHANGED <<status, handOver, incident, hasRun, trail, onKey, shown, torn>>

RecordSanitisation(s, k) ==
  /\ Free(s, "sanitise")
  /\ shown[s][k] \notin NoRow
  /\ \E cleared \in SUBSET (Applets \ onKey[k]) \ {{}} :
       outstanding' = [outstanding EXCEPT ![k] = @ \ cleared]
  /\ desk' = [desk EXCEPT ![s] = Begun("sanitise", "audit", k)]
  /\ UNCHANGED <<status, handOver, incident, hasRun, trail, onKey, shown, torn>>

-----------------------------------------------------------------------------
(* The audit entry comes last.  append_audit reads the sequence and hash   *)
(* of the last row, outside any transaction, and inserts the row after it. *)
AuditRead(s) ==
  /\ At(s, "audit")
  /\ trail' = [trail EXCEPT !.tail = @ \cup {s}]
  /\ GoTo(s, "append")
  /\ UNCHANGED <<status, handOver, incident, hasRun, outstanding, onKey, shown, torn>>

(* A row another desk inserted meanwhile holds that sequence number: the   *)
(* primary key refuses this one, and record() drops the error.  The views  *)
(* are re-read where the handler ends in refresh.                          *)
Audit(s) ==
  /\ At(s, "append")
  /\ trail' = IF s \in trail.tail
                THEN [entries |-> trail.entries \cup {<<AuditEvent[desk[s].op], desk[s].key>>},
                      tail |-> {}]
                ELSE trail
  /\ GoIdle(s)
  /\ IF desk[s].op \in {"close", "sanitise"} THEN UNCHANGED shown ELSE Repaint(s)
  /\ UNCHANGED <<status, handOver, incident, hasRun, outstanding, onKey, torn>>

(* Has the operation already changed something it has still to follow up?  *)
HalfDone(s) ==
  \/ desk[s].at \in {"record", "clear", "audit", "append", "settle"}
  \/ desk[s].op # "change" /\ desk[s].at \in {"setread", "setgate", "setupdate"}
Forget(s) == trail' = [trail EXCEPT !.tail = @ \ {s}]
Tear(s) == torn' = IF HalfDone(s) THEN torn \cup {desk[s].key} ELSE torn

(* A statement fails: the share dropped, the database stayed busy past its *)
(* timeout.  A hand-over and a return carry on to their audit entry, every *)
(* other handler stops where it is.                                        *)
StoreFails(s) ==
  /\ "io" \in Faults
  /\ desk[s] # Idle
  /\ Tear(s)
  /\ IF desk[s].op \in {"distribute", "return"} /\ HalfDone(s) /\ ~At(s, "audit") /\ ~At(s, "append")
       THEN GoTo(s, "audit")
       ELSE GoIdle(s)
  /\ Forget(s)
  /\ UNCHANGED <<status, handOver, incident, hasRun, outstanding, onKey, shown>>

(* The program dies and is started again with the register as it stands.   *)
Crash(s) ==
  /\ "crash" \in Faults
  /\ desk[s] # Idle
  /\ Tear(s)
  /\ GoIdle(s)
  /\ Repaint(s)
  /\ Forget(s)
  /\ UNCHANGED <<status, handOver, incident, hasRun, outstanding, onKey>>

-----------------------------------------------------------------------------
(* What an operator may start, and what a handler does once started.       *)
Begin(s) ==
  \/ \E k \in Serials : \/ AddAsk(s, k) \/ RemoveRead(s, k) \/ Change(s, k)
                        \/ RunConfirm(s, k) \/ ResetKey(s, k) \/ RecordSanitisation(s, k)
                        \/ \E h \in HandOvers : DistributeAsk(s, k, h)
                        \/ \E i \in Incidents : ReportAsk(s, k, i)
  \/ \E h \in HandOvers : ReturnMark(s, h)
  \/ \E i \in Incidents : CloseIncident(s, i)

Step(s) ==
  \/ AddInsert(s) \/ RemoveCount(s) \/ RemoveDelete(s)
  \/ DistributeGate(s) \/ DistributeInsert(s)
  \/ SetRead(s) \/ SetGate(s) \/ SetUpdate(s)
  \/ RunStart(s) \/ RunWrite(s) \/ RunRecord(s) \/ RunStepFails(s) \/ RunCompletes(s) \/ Settle(s)
  \/ ReportFile(s) \/ RecordReset(s) \/ AuditRead(s) \/ Audit(s)

Fault(s) == StoreFails(s) \/ Crash(s)

Next == \E s \in Desks : Refresh(s) \/ Begin(s) \/ Step(s) \/ Fault(s)

Spec == Init /\ [][Next]_vars

-----------------------------------------------------------------------------
DeskState ==
  [op : OpNames \cup {"idle"}, at : Stages \cup {"idle"}, key : Serials \cup {None},
   seen : RowStatus, next : RowStatus, id : HandOvers \cup Incidents \cup {None},
   applets : SUBSET Applets, clean : BOOLEAN]

(* Every table holds rows of its own shape, and every desk is at a stage   *)
(* of a known operation.                                                   *)
TypeOK ==
  /\ status \in [Serials -> RowStatus]
  /\ handOver \in [HandOvers -> [key : Serials, back : Desks \cup {None}] \cup {None}]
  /\ incident \in [Incidents -> [key : Serials, closed : Desks \cup {None}] \cup {None}]
  /\ hasRun \in [Serials -> BOOLEAN]
  /\ outstanding \in [Serials -> SUBSET Applets]
  /\ trail \in [entries : SUBSET ({AuditEvent[op] : op \in OpNames} \X Serials), tail : SUBSET Desks]
  /\ onKey \in [Serials -> SUBSET Applets]
  /\ shown \in [Desks -> [Serials -> RowStatus]]
  /\ desk \in [Desks -> DeskState]
  /\ torn \subseteq Serials

(* A removal racing a hand-over never leaves a hand-over of a key nobody   *)
(* can look up: the count in delete_key may be stale, the foreign key of   *)
(* the distributions table is not.                                         *)
HandOverHasItsKey == \A h \in HandOvers : handOver[h] # None => HasRow(handOver[h].key)

(* A key is Lost only with a report that says why, whichever desks were    *)
(* moving it: report_incident is one transaction.                          *)
LostIsReported ==
  \A k \in Serials : status[k] = "Lost" => \E i \in Incidents : incident[i] # None /\ incident[i].key = k

(* What a run put on a key is on record as outstanding, unless the run is  *)
(* between the write and its record at this moment or was cut short there: *)
(* the fact every sanitisation answer rests on.                            *)
ResidueIsOnRecord ==
  \A k \in Serials : \/ onKey[k] \subseteq outstanding[k]
                     \/ k \in torn
                     \/ \E s \in Desks : desk[s].key = k /\ desk[s].op = "run" /\ At(s, "record")

(* The trail never speaks first: an entry is there only when what it says  *)
(* is in the tables, or was until the key was entered or removed.          *)
TrailIsTrue ==
  \A k \in Serials :
    /\ <<"key.removed", k>> \in trail.entries => status[k] = "removed"
    /\ <<"key.distributed", k>> \in trail.entries => Mentions(k) # {}
    /\ <<"key.returned", k>> \in trail.entries => \E h \in Mentions(k) : ~Open(h)
    /\ <<"key.reported_lost", k>> \in trail.entries => \E i \in Incidents : incident[i] # None /\ incident[i].key = k
    /\ <<"key.incident_closed", k>> \in trail.entries =>
         \E i \in Incidents : incident[i] # None /\ incident[i].key = k /\ incident[i].closed # None

(* And at a single desk it leaves nothing out: with no operation under way *)
(* on a key and none cut short, each hand-over, return, loss and removal   *)
(* has its entry.                                                          *)
TrailIsComplete ==
  \A k \in Serials \ torn : (\A s \in Desks : desk[s].key # k) =>
    /\ status[k] = "removed" => <<"key.removed", k>> \in trail.entries
    /\ Mentions(k) # {} => <<"key.distributed", k>> \in trail.entries
    /\ (\E h \in Mentions(k) : ~Open(h)) => <<"key.returned", k>> \in trail.entries
    /\ status[k] = "Lost" => <<"key.reported_lost", k>> \in trail.entries

(* A closed record stays as it was closed: of two desks returning one      *)
(* hand-over, or closing one incident, the second changes nothing.         *)
ReturnIsFinal ==
  [][\A h \in HandOvers : handOver[h] # None /\ ~Open(h) => handOver'[h] = handOver[h]]_vars
ClosureIsFinal ==
  [][\A i \in Incidents : incident[i] # None /\ incident[i].closed # None =>
       incident'[i] = incident[i]]_vars

(* Both at once: two desks returning one hand-over, or closing one         *)
(* incident, from lists painted before either did; the later is refused.   *)
RecordsAreFinal == ReturnIsFinal /\ ClosureIsFinal

-----------------------------------------------------------------------------
(* What holds at a single desk, and is lost between two.                   *)

(* A key on the register as Distributed is in somebody's hands: some       *)
(* hand-over of it is open, unless that key's return or hand-over is under *)
(* way or was cut short between its record and its status.                 *)
DistributedIsHeld ==
  \A k \in Serials \ torn :
    status[k] = "Distributed" /\ (\A s \in Desks : desk[s].key # k)
      => \E h \in Mentions(k) : Open(h)

(* No key goes to somebody else carrying what a run put on it for an       *)
(* earlier holder: the physical applets, not the record of them.           *)
ReissueIsClean ==
  [][\A k \in Serials : HasRow(k) /\ IsReissue(status[k], status'[k]) /\ k \notin torn
       => onKey[k] = {}]_vars

(* The promise a single desk keeps: each of its operations is a step of    *)
(* the ledger or none of its business.  The several statements of          *)
(* set_key_status, settle_key_status, delete_key and report_incident add   *)
(* up to one legal, gated move.                                            *)
Ledger == INSTANCE KeyLedger
KeepsTheLedger == Ledger!Spec

(* The lifecycle moves only along its table.                               *)
MovesAreLegal ==
  [][\A k \in Serials : HasRow(k) /\ status'[k] \in KeyStatus => MoveAllowed(status[k], status'[k])]_vars

(***************************************************************************)
(* What the repository says of the register and the code does not keep.    *)
(***************************************************************************)

(* A key moving from one holder to another is a return and then a new      *)
(* record: no key is out with two holders at once.                         *)
OneOpenHandOver ==
  \A k \in Serials : \A g, h \in Mentions(k) : Open(g) /\ Open(h) => g = h

(* A bootstrap run never points at a serial that was removed: delete_key   *)
(* refuses a key a run refers to.                                          *)
RunHasItsKey == \A k \in Serials : hasRun[k] => status[k] # "removed"

(* The gate is asked about everything a run may have left on a key, runs   *)
(* that were interrupted included.                                         *)
NothingIsReissuedDirty ==
  [][\A k \in Serials : HasRow(k) /\ IsReissue(status[k], status'[k]) => onKey[k] = {}]_vars

(* A completed run on a key that had nothing outstanding when it started   *)
(* is not turned away by the sanitised gate.                               *)
CleanRunSettles ==
  [][\A s \in Desks : desk[s].op = "run" /\ At(s, "setgate") /\ desk[s].clean
       => At(s, "setgate")' \/ At(s, "setupdate")']_vars
=============================================================================
