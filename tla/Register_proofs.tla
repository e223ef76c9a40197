--------------------------- MODULE Register_proofs ---------------------------
(***************************************************************************)
(* What holds of the shared register for any number of desks, keys and     *)
(* records, whichever operations they perform and whichever faults happen. *)
(***************************************************************************)
EXTENDS Register, TLAPS

(* What a desk knows of its own operation: the key it is about, the status *)
(* it is about to write (never Lost: only a report writes that), and the   *)
(* id of the record it is about to insert.                                 *)
Knows(d) ==
  /\ d.at # "idle" => d.key \in Serials /\ d.op \in OpNames
  /\ d.at \in {"setread", "setgate", "setupdate"} => d.next \in KeyStatus \ {"Lost"}
  /\ d.op = "distribute" /\ d.at \in {"gate", "insert"} =>
       d.id \in HandOvers /\ d.next = "Distributed"
  /\ d.at = "gate" => d.op = "distribute"
  /\ d.at = "file" => d.id \in Incidents
  /\ d.at \in {"record", "settle", "write", "start"} => d.op = "run"
  /\ d.at = "clear" => d.op = "reset"

DesksOK == desk \in [Desks -> DeskState] /\ \A s \in Desks : Knows(desk[s])

TablesOK ==
  /\ status \in [Serials -> RowStatus]
  /\ handOver \in [HandOvers -> [key : Serials, back : Desks \cup {None}] \cup {None}]
  /\ incident \in [Incidents -> [key : Serials, closed : Desks \cup {None}] \cup {None}]
  /\ hasRun \in [Serials -> BOOLEAN]
  /\ outstanding \in [Serials -> SUBSET Applets]
  /\ trail \in [entries : SUBSET ({AuditEvent[op] : op \in OpNames} \X Serials), tail : SUBSET Desks]
  /\ onKey \in [Serials -> SUBSET Applets]
  /\ shown \in [Desks -> [Serials -> RowStatus]]
  /\ torn \subseteq Serials

LEMMA TypeSplit == TypeOK <=> TablesOK /\ desk \in [Desks -> DeskState]
BY DEF TypeOK, TablesOK

-----------------------------------------------------------------------------
(* A desk that moves to a state it knows enough for leaves the others be.  *)
LEMMA DeskMoves ==
  ASSUME DesksOK, NEW s \in Desks, NEW d \in DeskState, Knows(d), desk' = [desk EXCEPT ![s] = d]
  PROVE  DesksOK'
<1>1. \A r \in Desks : desk'[r] = IF r = s THEN d ELSE desk[r]
  BY DEF DesksOK
<1>2. \A r \in Desks : Knows(desk'[r])
  BY <1>1 DEF DesksOK
<1>3. desk' \in [Desks -> DeskState]
  BY DEF DesksOK
<1> QED BY <1>2, <1>3 DEF DesksOK, Knows

LEMMA IdleKnows == /\ Idle \in DeskState /\ Knows(Idle)
                   /\ Idle.at = "idle" /\ Idle.op = "idle" /\ Idle.key = None /\ Idle.id = None
                   /\ Idle.applets = {}
BY DEF Idle, Knows, DeskState, RowStatus, NoRow

LEMMA BegunKnows ==
  ASSUME NEW op \in OpNames, NEW at \in Stages, NEW k \in Serials
  PROVE  /\ Begun(op, at, k) \in DeskState
         /\ Begun(op, at, k).op = op /\ Begun(op, at, k).at = at /\ Begun(op, at, k).key = k
         /\ Begun(op, at, k).id = None /\ Begun(op, at, k).applets = {}
BY DEF Begun, Idle, DeskState, RowStatus, NoRow

LEMMA GoIdleOK == ASSUME DesksOK, NEW s \in Desks, GoIdle(s) PROVE DesksOK'
BY IdleKnows, DeskMoves DEF GoIdle

(* The stages a handler may go on to without learning anything new.        *)
LEMMA GoToOK ==
  ASSUME DesksOK, NEW s \in Desks, desk[s].at # "idle",
         NEW stage \in Stages \ {"gate", "clear"}, GoTo(s, stage),
         stage \in {"setread", "setgate", "setupdate"} => desk[s].next \in KeyStatus \ {"Lost"},
         stage = "insert" /\ desk[s].op = "distribute" =>
           desk[s].id \in HandOvers /\ desk[s].next = "Distributed",
         stage = "file" => desk[s].id \in Incidents,
         stage \in {"record", "settle", "write", "start"} => desk[s].op = "run"
  PROVE  DesksOK'
<1> DEFINE d == [desk[s] EXCEPT !.at = stage]
<1>1. desk[s] \in DeskState /\ Knows(desk[s])
  BY DEF DesksOK
<1>2. /\ d \in DeskState /\ d.at = stage /\ d.op = desk[s].op /\ d.key = desk[s].key
      /\ d.id = desk[s].id /\ d.next = desk[s].next
  BY <1>1 DEF DeskState
<1>3. desk' = [desk EXCEPT ![s] = d]
  BY DEF GoTo
<1> HIDE DEF d
<1>4. Knows(d)
  BY <1>1, <1>2 DEF Knows
<1> QED BY <1>2, <1>3, <1>4, DeskMoves

-----------------------------------------------------------------------------
LEMMA DesksInit == Init => DesksOK
BY IdleKnows DEF Init, DesksOK

LEMMA DesksBegin ==
  ASSUME DesksOK, TablesOK, NEW s \in Desks, Begin(s)
  PROVE  DesksOK'
<1>1. ASSUME NEW k \in Serials, AddAsk(s, k) PROVE DesksOK'
  <2>1. Begun("add", "insert", k) \in DeskState /\ Knows(Begun("add", "insert", k))
    BY BegunKnows DEF Knows, OpNames, Stages
  <2> QED BY <1>1, <2>1, DeskMoves DEF AddAsk
<1>2. ASSUME NEW k \in Serials, RemoveRead(s, k) PROVE DesksOK'
  <2>1. Begun("remove", "count", k) \in DeskState /\ Knows(Begun("remove", "count", k))
    BY BegunKnows DEF Knows, OpNames, Stages
  <2> QED BY <1>2, <2>1, DeskMoves DEF RemoveRead
<1>3. ASSUME NEW k \in Serials, Change(s, k) PROVE DesksOK'
  <2>1. PICK next \in {"Bootstrapped", "InStock"} :
          desk' = [desk EXCEPT ![s] = [Begun("change", "setread", k) EXCEPT !.next = next]]
    BY <1>3 DEF Change, Offered
  <2>2. /\ [Begun("change", "setread", k) EXCEPT !.next = next] \in DeskState
        /\ Knows([Begun("change", "setread", k) EXCEPT !.next = next])
    BY <2>1 DEF Begun, Idle, Knows, DeskState, RowStatus, NoRow, KeyStatus, OpNames, Stages
  <2> QED BY <2>1, <2>2, DeskMoves
<1>4. ASSUME NEW k \in Serials, RunConfirm(s, k) PROVE DesksOK'
  <2>1. Begun("run", "start", k) \in DeskState /\ Knows(Begun("run", "start", k))
    BY BegunKnows DEF Knows, OpNames, Stages
  <2> QED BY <1>4, <2>1, DeskMoves DEF RunConfirm
<1>5. ASSUME NEW k \in Serials, ResetKey(s, k) PROVE DesksOK'
  <2>1. PICK cleared \in SUBSET Applets :
          desk' = [desk EXCEPT ![s] = [Begun("reset", "clear", k) EXCEPT !.applets = cleared]]
    BY <1>5 DEF ResetKey
  <2>2. /\ [Begun("reset", "clear", k) EXCEPT !.applets = cleared] \in DeskState
        /\ Knows([Begun("reset", "clear", k) EXCEPT !.applets = cleared])
    BY <2>1 DEF Begun, Idle, Knows, DeskState, RowStatus, NoRow, OpNames, Stages
  <2> QED BY <2>1, <2>2, DeskMoves
<1>6. ASSUME NEW k \in Serials, RecordSanitisation(s, k) PROVE DesksOK'
  <2>1. Begun("sanitise", "audit", k) \in DeskState /\ Knows(Begun("sanitise", "audit", k))
    BY BegunKnows DEF Knows, OpNames, Stages
  <2> QED BY <1>6, <2>1, DeskMoves DEF RecordSanitisation
<1>7. ASSUME NEW k \in Serials, NEW h \in HandOvers, DistributeAsk(s, k, h) PROVE DesksOK'
  <2> DEFINE d == [Begun("distribute", "gate", k) EXCEPT
                     !.seen = status[k], !.next = "Distributed", !.id = h]
  <2>1. status[k] \in RowStatus
    BY DEF TablesOK
  <2>2. d \in DeskState /\ Knows(d)
    BY <2>1 DEF Begun, Idle, Knows, DeskState, RowStatus, NoRow, KeyStatus, OpNames, Stages
  <2> QED BY <1>7, <2>2, DeskMoves DEF DistributeAsk
<1>8. ASSUME NEW k \in Serials, NEW i \in Incidents, ReportAsk(s, k, i) PROVE DesksOK'
  <2> DEFINE d == [Begun("report", "file", k) EXCEPT !.id = i]
  <2>1. d \in DeskState /\ Knows(d)
    BY DEF Begun, Idle, Knows, DeskState, RowStatus, NoRow, OpNames, Stages
  <2> QED BY <1>8, <2>1, DeskMoves DEF ReportAsk
<1>9. ASSUME NEW h \in HandOvers, ReturnMark(s, h) PROVE DesksOK'
  <2> DEFINE d == [Begun("return", "setread", handOver[h].key) EXCEPT !.next = "Returned"]
  <2>1. handOver[h].key \in Serials
    BY <1>9 DEF TablesOK, ReturnMark, Open
  <2>2. d \in DeskState /\ Knows(d)
    BY <2>1 DEF Begun, Idle, Knows, DeskState, RowStatus, NoRow, KeyStatus, OpNames, Stages
  <2> QED BY <1>9, <2>2, DeskMoves DEF ReturnMark
<1>10. ASSUME NEW i \in Incidents, CloseIncident(s, i) PROVE DesksOK'
  <2>1. incident[i].key \in Serials
    BY <1>10 DEF TablesOK, CloseIncident
  <2>2. /\ Begun("close", "audit", incident[i].key) \in DeskState
        /\ Knows(Begun("close", "audit", incident[i].key))
    BY <2>1, BegunKnows DEF Knows, OpNames, Stages
  <2> QED BY <1>10, <2>2, DeskMoves DEF CloseIncident
<1> QED
  BY <1>1, <1>2, <1>3, <1>4, <1>5, <1>6, <1>7, <1>8, <1>9, <1>10 DEF Begin

(* The steps of a handler: each goes on to a stage it knows enough for.    *)
LEMMA SetRefusedOK ==
  ASSUME DesksOK, TablesOK, NEW s \in Desks, desk[s].at # "idle", SetRefused(s)
  PROVE  DesksOK' /\ shown' \in [Desks -> [Serials -> RowStatus]]
<1>1. DesksOK'
  <2>1. CASE desk[s].op \in {"distribute", "return"}
    BY <2>1, GoToOK DEF SetRefused, Stages
  <2>2. CASE desk[s].op \notin {"distribute", "return"}
    BY <2>2, GoIdleOK DEF SetRefused
  <2> QED BY <2>1, <2>2
<1>2. shown' \in [Desks -> [Serials -> RowStatus]]
  BY DEF SetRefused, Repaint, TablesOK
<1> QED BY <1>1, <1>2

LEMMA DesksStep ==
  ASSUME DesksOK, TablesOK, NEW s \in Desks, Step(s)
  PROVE  DesksOK'
<1> USE DEF At
<1>0. desk[s] \in DeskState /\ Knows(desk[s])
  BY DEF DesksOK
<1>1. CASE AddInsert(s)
  BY <1>1, GoToOK DEF AddInsert, Stages
<1>2. CASE RemoveCount(s)
  BY <1>0, <1>2, GoToOK, GoIdleOK DEF RemoveCount, Stages
<1>3. CASE RemoveDelete(s)
  BY <1>0, <1>3, GoToOK, GoIdleOK DEF RemoveDelete, Stages
<1>4. CASE DistributeGate(s)
  <2>1. desk[s].id \in HandOvers /\ desk[s].next = "Distributed"
    BY <1>0, <1>4 DEF DistributeGate, Knows
  <2> QED BY <1>0, <1>4, <2>1, GoToOK, GoIdleOK DEF DistributeGate, Stages
<1>5. CASE DistributeInsert(s)
  <2>1. CASE GoIdle(s)
    BY <2>1, GoIdleOK
  <2>2. CASE GoTo(s, "setread")
    <3>1. desk[s].next = "Distributed"
      BY <1>0, <1>5 DEF DistributeInsert, Knows
    <3> QED BY <1>5, <2>2, <3>1, GoToOK DEF DistributeInsert, Stages, KeyStatus
  <2> QED BY <1>5, <2>1, <2>2 DEF DistributeInsert
<1>6. CASE SetRead(s)
  <2>1. CASE SetRefused(s)
    BY <1>6, <2>1, SetRefusedOK DEF SetRead
  <2>2. CASE desk' = [desk EXCEPT ![s].at = "setgate", ![s].seen = status[desk[s].key]]
    <3> DEFINE d == [desk[s] EXCEPT !.at = "setgate", !.seen = status[desk[s].key]]
    <3>1. desk[s].key \in Serials /\ desk[s].next \in KeyStatus \ {"Lost"}
      BY <1>0, <1>6 DEF SetRead, Knows
    <3>2. status[desk[s].key] \in RowStatus
      BY <3>1 DEF TablesOK
    <3>3. d \in DeskState /\ Knows(d)
      BY <1>0, <1>6, <3>1, <3>2 DEF SetRead, Knows, DeskState, Stages
    <3>4. desk' = [desk EXCEPT ![s] = d]
      BY <2>2 DEF DesksOK
    <3> QED BY <3>3, <3>4, DeskMoves
  <2> QED BY <1>6, <2>1, <2>2 DEF SetRead
<1>7. CASE SetGate(s)
  <2>1. desk[s].next \in KeyStatus \ {"Lost"}
    BY <1>0, <1>7 DEF SetGate, Knows
  <2> QED BY <1>7, <2>1, SetRefusedOK, GoToOK DEF SetGate, Stages
<1>8. CASE SetUpdate(s)
  BY <1>8, GoToOK DEF SetUpdate, Stages
<1>9. CASE RunStart(s)
  <2> DEFINE d == [desk[s] EXCEPT !.at = "write", !.clean = outstanding[desk[s].key] = {}]
  <2>1. d \in DeskState /\ Knows(d)
    BY <1>0, <1>9 DEF RunStart, Knows, DeskState, Stages
  <2>2. desk' = [desk EXCEPT ![s] = d]
    BY <1>9 DEF RunStart, DesksOK
  <2> QED BY <2>1, <2>2, DeskMoves
<1>10. CASE RunWrite(s)
  <2>1. PICK a \in Applets : desk' = [desk EXCEPT ![s].at = "record", ![s].applets = @ \cup {a}]
    BY <1>10 DEF RunWrite
  <2> DEFINE d == [desk[s] EXCEPT !.at = "record", !.applets = @ \cup {a}]
  <2>2. d \in DeskState /\ Knows(d)
    BY <1>0, <1>10 DEF RunWrite, Knows, DeskState, Stages
  <2>3. desk' = [desk EXCEPT ![s] = d]
    BY <2>1 DEF DesksOK
  <2> QED BY <2>2, <2>3, DeskMoves
<1>11. CASE RunRecord(s)
  BY <1>0, <1>11, GoToOK DEF RunRecord, Stages, Knows
<1>12. CASE RunStepFails(s)
  BY <1>12, GoIdleOK DEF RunStepFails
<1>13. CASE RunCompletes(s)
  BY <1>0, <1>13, GoToOK DEF RunCompletes, Stages, Knows
<1>14. CASE Settle(s)
  <2>1. CASE GoIdle(s)
    BY <2>1, GoIdleOK
  <2>2. CASE desk' = [desk EXCEPT ![s].at = "setread", ![s].next = "Bootstrapped"]
    <3> DEFINE d == [desk[s] EXCEPT !.at = "setread", !.next = "Bootstrapped"]
    <3>1. d \in DeskState /\ Knows(d)
      BY <1>0, <1>14 DEF Settle, Knows, DeskState, Stages, RowStatus, KeyStatus
    <3>2. desk' = [desk EXCEPT ![s] = d]
      BY <2>2 DEF DesksOK
    <3> QED BY <3>1, <3>2, DeskMoves
  <2> QED BY <1>14, <2>1, <2>2 DEF Settle
<1>15. CASE ReportFile(s)
  BY <1>15, GoToOK DEF ReportFile, Stages
<1>16. CASE RecordReset(s)
  BY <1>16, GoToOK DEF RecordReset, Stages
<1>17. CASE Audit(s)
  BY <1>17, GoIdleOK DEF Audit
<1>18. CASE AuditRead(s)
  BY <1>18, GoToOK DEF AuditRead, Stages
<1> QED
  BY <1>1, <1>2, <1>3, <1>4, <1>5, <1>6, <1>7, <1>8, <1>9, <1>10, <1>11, <1>12, <1>13, <1>14,
     <1>15, <1>16, <1>17, <1>18 DEF Step

LEMMA DesksFault ==
  ASSUME DesksOK, TablesOK, NEW s \in Desks, Fault(s)
  PROVE  DesksOK'
<1>1. CASE GoIdle(s)
  BY <1>1, GoIdleOK
<1>2. CASE HalfDone(s) /\ GoTo(s, "audit")
  BY <1>2, GoToOK DEF HalfDone, Stages
<1> QED BY <1>1, <1>2 DEF Fault, StoreFails, Crash

-----------------------------------------------------------------------------
(* The tables.                                                             *)
LEMMA TablesInit == Init => TablesOK
BY DEF Init, TablesOK, RowStatus, NoRow

LEMMA TablesBegin ==
  ASSUME DesksOK, TablesOK, NEW s \in Desks, Begin(s)
  PROVE  TablesOK'
<1>1. ASSUME NEW k \in Serials,
             AddAsk(s, k) \/ RemoveRead(s, k) \/ Change(s, k) \/ RunConfirm(s, k)
      PROVE  TablesOK'
  BY <1>1 DEF AddAsk, RemoveRead, Change, RunConfirm, TablesOK
<1>2. ASSUME NEW k \in Serials, ResetKey(s, k) PROVE TablesOK'
  BY <1>2 DEF ResetKey, TablesOK
<1>3. ASSUME NEW k \in Serials, RecordSanitisation(s, k) PROVE TablesOK'
  BY <1>3 DEF RecordSanitisation, TablesOK
<1>4. ASSUME NEW k \in Serials, NEW h \in HandOvers, DistributeAsk(s, k, h) PROVE TablesOK'
  BY <1>4 DEF DistributeAsk, TablesOK
<1>5. ASSUME NEW k \in Serials, NEW i \in Incidents, ReportAsk(s, k, i) PROVE TablesOK'
  BY <1>5 DEF ReportAsk, TablesOK
<1>6. ASSUME NEW h \in HandOvers, ReturnMark(s, h) PROVE TablesOK'
  <2>1. handOver[h] \in [key : Serials, back : Desks \cup {None}]
    BY <1>6 DEF TablesOK, ReturnMark, Open
  <2>2. handOver' \in [HandOvers -> [key : Serials, back : Desks \cup {None}] \cup {None}]
    BY <1>6, <2>1 DEF TablesOK, ReturnMark
  <2> QED BY <1>6, <2>2 DEF TablesOK, ReturnMark
<1>7. ASSUME NEW i \in Incidents, CloseIncident(s, i) PROVE TablesOK'
  <2>1. incident[i] \in [key : Serials, closed : Desks \cup {None}]
    BY <1>7 DEF TablesOK, CloseIncident
  <2>2. incident' \in [Incidents -> [key : Serials, closed : Desks \cup {None}] \cup {None}]
    BY <1>7, <2>1 DEF TablesOK, CloseIncident
  <2> QED BY <1>7, <2>2 DEF TablesOK, CloseIncident
<1> QED BY <1>1, <1>2, <1>3, <1>4, <1>5, <1>6, <1>7 DEF Begin

LEMMA TablesStep ==
  ASSUME DesksOK, TablesOK, NEW s \in Desks, Step(s)
  PROVE  TablesOK'
<1> USE DEF At
<1>0. desk[s] \in DeskState /\ Knows(desk[s])
  BY DEF DesksOK
<1>1. CASE AddInsert(s)
  BY <1>1 DEF AddInsert, TablesOK, RowStatus, KeyStatus
<1>2. CASE RemoveCount(s) \/ DistributeGate(s) \/ RunCompletes(s)
  BY <1>2 DEF RemoveCount, DistributeGate, RunCompletes, TablesOK
<1>3. CASE RemoveDelete(s)
  BY <1>3 DEF RemoveDelete, TablesOK, RowStatus, NoRow
<1>4. CASE DistributeInsert(s)
  <2>1. desk[s].key \in Serials
    BY <1>0, <1>4 DEF DistributeInsert, Knows
  <2>2. handOver' \in [HandOvers -> [key : Serials, back : Desks \cup {None}] \cup {None}]
    BY <1>4, <2>1 DEF TablesOK, DistributeInsert
  <2> QED BY <1>4, <2>2 DEF TablesOK, DistributeInsert
<1>5. CASE SetRead(s) \/ SetGate(s)
  <2>1. shown' \in [Desks -> [Serials -> RowStatus]]
    BY <1>5, SetRefusedOK DEF SetRead, SetGate, TablesOK
  <2> QED BY <1>5, <2>1 DEF SetRead, SetGate, TablesOK
<1>6. CASE SetUpdate(s)
  <2>1. desk[s].next \in RowStatus
    BY <1>0 DEF DeskState
  <2> QED BY <1>6, <2>1 DEF SetUpdate, TablesOK
<1>7. CASE RunStart(s)
  BY <1>7 DEF RunStart, TablesOK
<1>8. CASE RunWrite(s)
  <2>1. PICK a \in Applets : onKey' = [onKey EXCEPT ![desk[s].key] = @ \cup {a}]
    BY <1>8 DEF RunWrite
  <2>2. onKey' \in [Serials -> SUBSET Applets]
    BY <2>1 DEF TablesOK
  <2> QED BY <1>8, <2>2 DEF RunWrite, TablesOK
<1>9. CASE RunRecord(s) \/ RecordReset(s)
  <2>1. desk[s].applets \subseteq Applets
    BY <1>0 DEF DeskState
  <2> QED BY <1>9, <2>1 DEF RunRecord, RecordReset, TablesOK
<1>10. CASE RunStepFails(s)
  <2>1. desk[s].key \in Serials
    BY <1>0, <1>10 DEF RunStepFails, Knows
  <2> QED BY <1>10, <2>1 DEF RunStepFails, Repaint, TablesOK
<1>11. CASE Settle(s)
  BY <1>11 DEF Settle, Repaint, TablesOK
<1>12. CASE ReportFile(s)
  <2>1. desk[s].key \in Serials
    BY <1>0, <1>12 DEF ReportFile, Knows
  <2>2. incident' \in [Incidents -> [key : Serials, closed : Desks \cup {None}] \cup {None}]
    BY <1>12, <2>1 DEF TablesOK, ReportFile
  <2> QED BY <1>12, <2>2 DEF TablesOK, ReportFile, RowStatus, KeyStatus
<1>13. CASE Audit(s)
  <2>1. desk[s].key \in Serials /\ desk[s].op \in OpNames
    BY <1>0, <1>13 DEF Audit, Knows
  <2>2. <<AuditEvent[desk[s].op], desk[s].key>> \in {AuditEvent[op] : op \in OpNames} \X Serials
    BY <2>1
  <2>3. trail' \in [entries : SUBSET ({AuditEvent[op] : op \in OpNames} \X Serials), tail : SUBSET Desks]
    BY <1>13, <2>2 DEF Audit, TablesOK
  <2> QED BY <1>13, <2>3 DEF Audit, Repaint, TablesOK
<1>14. CASE AuditRead(s)
  BY <1>14 DEF AuditRead, TablesOK
<1> QED
  BY <1>1, <1>2, <1>3, <1>4, <1>5, <1>6, <1>7, <1>8, <1>9, <1>10, <1>11, <1>12, <1>13, <1>14 DEF Step

LEMMA TablesFault ==
  ASSUME DesksOK, TablesOK, NEW s \in Desks, Fault(s)
  PROVE  TablesOK'
<1>1. desk[s] \in DeskState /\ Knows(desk[s])
  BY DEF DesksOK
<1>2. torn' \subseteq Serials
  <2>1. HalfDone(s) => desk[s].key \in Serials
    BY <1>1 DEF HalfDone, Knows
  <2> QED BY <2>1 DEF Fault, StoreFails, Crash, Tear, TablesOK
<1>3. trail' \in [entries : SUBSET ({AuditEvent[op] : op \in OpNames} \X Serials), tail : SUBSET Desks]
  BY DEF Fault, StoreFails, Crash, Forget, TablesOK
<1> QED BY <1>2, <1>3 DEF Fault, StoreFails, Crash, Repaint, TablesOK

-----------------------------------------------------------------------------
(* Every reachable state is well typed and every desk knows what its next  *)
(* statement needs: no stage is entered without the key, the status or the *)
(* record id the handler carries into it.                                  *)
LEMMA TypeInductive == TablesOK /\ DesksOK /\ [Next]_vars => (TablesOK /\ DesksOK)'
<1> SUFFICES ASSUME TablesOK, DesksOK, [Next]_vars PROVE TablesOK' /\ DesksOK'
  OBVIOUS
<1>1. ASSUME NEW s \in Desks, Refresh(s) PROVE TablesOK' /\ DesksOK'
  BY <1>1 DEF Refresh, Repaint, TablesOK, DesksOK
<1>2. ASSUME NEW s \in Desks, Begin(s) \/ Step(s) \/ Fault(s) PROVE TablesOK' /\ DesksOK'
  BY <1>2, DesksBegin, DesksStep, DesksFault, TablesBegin, TablesStep, TablesFault
<1>3. CASE UNCHANGED vars
  BY <1>3 DEF vars, TablesOK, DesksOK
<1> QED BY <1>1, <1>2, <1>3 DEF Next

(* Each table keeps rows of its own shape and each desk stands at a stage  *)
(* of a known operation, for every number of desks, keys and records.      *)
THEOREM TypeCorrect == Spec => []TypeOK
<1>1. Init => TablesOK /\ DesksOK
  BY TablesInit, DesksInit
<1>2. TablesOK /\ DesksOK => TypeOK
  BY TypeSplit DEF DesksOK
<1> QED BY <1>1, <1>2, TypeInductive, PTL DEF Spec

-----------------------------------------------------------------------------
(* The shape of a step: the acting desk alone moves, and it either ends    *)
(* its operation or carries the same operation, key and record id on.      *)
CarriesOn(s, d) ==
  /\ desk' = [desk EXCEPT ![s] = d]
  /\ d = Idle \/ (d.op = desk[s].op /\ d.key = desk[s].key /\ d.id = desk[s].id)
  /\ d.at \notin {"file", "gate", "clear"}
  /\ d.at = "insert" => desk[s].at = "gate"
  /\ d.at = "record" => RunWrite(s)

LEMMA GoIdleShape == ASSUME NEW s \in Desks, GoIdle(s) PROVE CarriesOn(s, Idle)
BY IdleKnows DEF GoIdle, CarriesOn

LEMMA GoToShape ==
  ASSUME DesksOK, NEW s \in Desks, NEW stage \in Stages \ {"gate", "clear", "file", "record"},
         stage = "insert" => desk[s].at = "gate", GoTo(s, stage)
  PROVE  \E d \in DeskState : CarriesOn(s, d)
<1> DEFINE d == [desk[s] EXCEPT !.at = stage]
<1>1. /\ d \in DeskState /\ d.at = stage /\ d.op = desk[s].op /\ d.key = desk[s].key
      /\ d.id = desk[s].id
  BY DEF DesksOK, DeskState
<1>2. desk' = [desk EXCEPT ![s] = d]
  BY DEF GoTo
<1> HIDE DEF d
<1>3. CarriesOn(s, d)
  BY <1>1, <1>2 DEF CarriesOn
<1> QED BY <1>1, <1>3

LEMMA SetRefusedShape ==
  ASSUME DesksOK, NEW s \in Desks, SetRefused(s)
  PROVE  \E d \in DeskState : CarriesOn(s, d)
BY GoIdleShape, GoToShape, IdleKnows DEF SetRefused, Stages

LEMMA StepShape ==
  ASSUME DesksOK, TablesOK, NEW s \in Desks, Step(s) \/ Fault(s)
  PROVE  \E d \in DeskState : CarriesOn(s, d)
<1> USE DEF At
<1>0. desk[s] \in DeskState
  BY DEF DesksOK
<1>1. CASE GoIdle(s)
  BY <1>1, GoIdleShape, IdleKnows
<1>2. CASE \E stage \in {"audit", "append", "delete", "setread", "setupdate", "write", "settle"} : GoTo(s, stage)
  BY <1>2, GoToShape DEF Stages
<1>3. CASE At(s, "gate") /\ GoTo(s, "insert")
  BY <1>3, GoToShape DEF Stages
<1>4. CASE SetRead(s) \/ SetGate(s)
  <2>1. CASE SetRefused(s)
    BY <2>1, SetRefusedShape
  <2>2. CASE desk' = [desk EXCEPT ![s].at = "setgate", ![s].seen = status[desk[s].key]]
    <3> DEFINE d == [desk[s] EXCEPT !.at = "setgate", !.seen = status[desk[s].key]]
    <3>1. CASE SetRead(s)
      <4>1. status[desk[s].key] \in RowStatus
        BY <3>1 DEF SetRead, DesksOK, Knows, TablesOK
      <4>2. d \in DeskState /\ d.at = "setgate" /\ d.op = desk[s].op /\ d.key = desk[s].key /\ d.id = desk[s].id
        BY <1>0, <4>1 DEF DeskState, Stages
      <4>3. desk' = [desk EXCEPT ![s] = d]
        BY <2>2 DEF DesksOK
      <4> QED BY <4>2, <4>3 DEF CarriesOn
    <3>2. CASE SetGate(s)
      BY <3>2, <1>2, SetRefusedShape DEF SetGate
    <3> QED BY <1>4, <3>1, <3>2
  <2>3. CASE GoTo(s, "setupdate")
    BY <2>3, <1>2
  <2> QED BY <1>4, <2>1, <2>2, <2>3 DEF SetRead, SetGate
<1>5. CASE RunStart(s)
  <2> DEFINE d == [desk[s] EXCEPT !.at = "write", !.clean = outstanding[desk[s].key] = {}]
  <2>1. d \in DeskState /\ d.at = "write" /\ d.op = desk[s].op /\ d.key = desk[s].key /\ d.id = desk[s].id
    BY <1>0 DEF DeskState, Stages
  <2>2. desk' = [desk EXCEPT ![s] = d]
    BY <1>5 DEF RunStart, DesksOK
  <2> QED BY <2>1, <2>2 DEF CarriesOn
<1>6. CASE RunWrite(s)
  <2>1. PICK a \in Applets : desk' = [desk EXCEPT ![s].at = "record", ![s].applets = @ \cup {a}]
    BY <1>6 DEF RunWrite
  <2> DEFINE d == [desk[s] EXCEPT !.at = "record", !.applets = @ \cup {a}]
  <2>2. d \in DeskState /\ d.at = "record" /\ d.op = desk[s].op /\ d.key = desk[s].key /\ d.id = desk[s].id
    BY <1>0 DEF DeskState, Stages
  <2>3. desk' = [desk EXCEPT ![s] = d]
    BY <2>1 DEF DesksOK
  <2> QED BY <1>6, <2>2, <2>3 DEF CarriesOn
<1>7. CASE Settle(s)
  <2>1. CASE desk' = [desk EXCEPT ![s].at = "setread", ![s].next = "Bootstrapped"]
    <3> DEFINE d == [desk[s] EXCEPT !.at = "setread", !.next = "Bootstrapped"]
    <3>1. d \in DeskState /\ d.at = "setread" /\ d.op = desk[s].op /\ d.key = desk[s].key /\ d.id = desk[s].id
      BY <1>0 DEF DeskState, Stages, RowStatus, KeyStatus
    <3>2. desk' = [desk EXCEPT ![s] = d]
      BY <2>1 DEF DesksOK
    <3> QED BY <3>1, <3>2 DEF CarriesOn
  <2> QED BY <1>1, <1>7, <2>1 DEF Settle
<1>8. CASE \/ AddInsert(s) \/ RemoveCount(s) \/ RemoveDelete(s) \/ DistributeGate(s)
           \/ DistributeInsert(s) \/ SetUpdate(s)
  BY <1>1, <1>2, <1>3, <1>8
     DEF AddInsert, RemoveCount, RemoveDelete, DistributeGate, DistributeInsert, SetUpdate
<1>9. CASE \/ RunRecord(s) \/ RunStepFails(s) \/ RunCompletes(s) \/ ReportFile(s)
           \/ RecordReset(s) \/ AuditRead(s) \/ Audit(s) \/ Fault(s)
  BY <1>1, <1>2, <1>9
     DEF RunRecord, RunStepFails, RunCompletes, ReportFile, RecordReset, AuditRead, Audit, Fault, StoreFails, Crash
<1> QED BY <1>4, <1>5, <1>6, <1>7, <1>8, <1>9 DEF Step

-----------------------------------------------------------------------------
(* Record ids are fresh: no two desks are about to insert the same id, and *)
(* the table has no row of it yet.                                         *)
Inserting(s) == desk[s].op = "distribute" /\ desk[s].at \in {"gate", "insert"}

FreshIds ==
  /\ \A s, d \in Desks : desk[s].id = desk[d].id => s = d \/ desk[s].id = None
  /\ \A s \in Desks : Inserting(s) => handOver[desk[s].id] = None
  /\ \A s \in Desks : desk[s].at = "file" => incident[desk[s].id] = None

(* What an operator starts: an idle desk takes up an operation of its own. *)
Starts(s, d) ==
  /\ desk[s] = Idle
  /\ desk' = [desk EXCEPT ![s] = d]
  /\ d.id = None \/ \A r \in Desks : desk[r].id # d.id
  /\ d.op = "distribute" /\ d.at \in {"gate", "insert"} => handOver'[d.id] = None
  /\ d.at = "file" => incident'[d.id] = None
  /\ d.op \in {"run", "reset"} => PortFree(s, d.key)
  /\ d.at = "clear" => onKey'[d.key] \cap d.applets = {}
  /\ d.at # "record"

LEMMA BeginShape ==
  ASSUME DesksOK, TablesOK, NEW s \in Desks, Begin(s)
  PROVE  \E d \in DeskState : Starts(s, d)
<1> USE DEF Free
<1>1. ASSUME NEW k \in Serials,
             AddAsk(s, k) \/ RemoveRead(s, k) \/ RunConfirm(s, k) \/ RecordSanitisation(s, k)
      PROVE  \E d \in DeskState : Starts(s, d)
  <2> DEFINE pairs == {<<"add", "insert">>, <<"remove", "count">>, <<"run", "start">>, <<"sanitise", "audit">>}
  <2>1. PICK p \in pairs : /\ desk[s] = Idle
                           /\ desk' = [desk EXCEPT ![s] = Begun(p[1], p[2], k)]
                           /\ p[1] = "run" => PortFree(s, k)
    BY <1>1 DEF AddAsk, RemoveRead, RunConfirm, RecordSanitisation
  <2>2. p[1] \in OpNames /\ p[2] \in Stages
    BY DEF OpNames, Stages
  <2>3. Starts(s, Begun(p[1], p[2], k))
    BY <2>1, <2>2, BegunKnows DEF Starts
  <2> QED BY <2>2, <2>3, BegunKnows
<1>2. ASSUME NEW k \in Serials, Change(s, k) PROVE \E d \in DeskState : Starts(s, d)
  <2>1. PICK next \in {"Bootstrapped", "InStock"} :
          desk' = [desk EXCEPT ![s] = [Begun("change", "setread", k) EXCEPT !.next = next]]
    BY <1>2 DEF Change, Offered
  <2> DEFINE d == [Begun("change", "setread", k) EXCEPT !.next = next]
  <2>2. d \in DeskState /\ d.op = "change" /\ d.at = "setread" /\ d.id = None
    BY <2>1 DEF Begun, Idle, DeskState, RowStatus, NoRow, KeyStatus, OpNames, Stages
  <2>3. desk' = [desk EXCEPT ![s] = d]
    BY <2>1
  <2> HIDE DEF d
  <2> QED BY <1>2, <2>2, <2>3 DEF Starts, Change
<1>3. ASSUME NEW k \in Serials, ResetKey(s, k) PROVE \E d \in DeskState : Starts(s, d)
  <2>1. PICK cleared \in SUBSET Applets :
          /\ onKey' = [onKey EXCEPT ![k] = @ \ cleared]
          /\ desk' = [desk EXCEPT ![s] = [Begun("reset", "clear", k) EXCEPT !.applets = cleared]]
    BY <1>3 DEF ResetKey
  <2> DEFINE d == [Begun("reset", "clear", k) EXCEPT !.applets = cleared]
  <2>2. d \in DeskState /\ d.op = "reset" /\ d.at = "clear" /\ d.id = None /\ d.key = k /\ d.applets = cleared
    BY <2>1 DEF Begun, Idle, DeskState, RowStatus, NoRow, OpNames, Stages
  <2>3. desk' = [desk EXCEPT ![s] = d]
    BY <2>1
  <2>4. onKey'[k] \cap cleared = {}
    BY <2>1 DEF TablesOK
  <2> HIDE DEF d
  <2> QED BY <1>3, <2>2, <2>3, <2>4 DEF Starts, ResetKey
<1>4. ASSUME NEW k \in Serials, NEW h \in HandOvers, DistributeAsk(s, k, h)
      PROVE  \E d \in DeskState : Starts(s, d)
  <2> DEFINE d == [Begun("distribute", "gate", k) EXCEPT
                     !.seen = status[k], !.next = "Distributed", !.id = h]
  <2>1. status[k] \in RowStatus
    BY DEF TablesOK
  <2>2. d \in DeskState /\ d.op = "distribute" /\ d.at = "gate" /\ d.id = h
    BY <2>1 DEF Begun, Idle, DeskState, RowStatus, NoRow, KeyStatus, OpNames, Stages
  <2>3. desk' = [desk EXCEPT ![s] = d]
    BY <1>4 DEF DistributeAsk
  <2> HIDE DEF d
  <2> QED BY <1>4, <2>2, <2>3 DEF Starts, DistributeAsk
<1>5. ASSUME NEW k \in Serials, NEW i \in Incidents, ReportAsk(s, k, i)
      PROVE  \E d \in DeskState : Starts(s, d)
  <2> DEFINE d == [Begun("report", "file", k) EXCEPT !.id = i]
  <2>1. d \in DeskState /\ d.op = "report" /\ d.at = "file" /\ d.id = i
    BY DEF Begun, Idle, DeskState, RowStatus, NoRow, OpNames, Stages
  <2>2. desk' = [desk EXCEPT ![s] = d]
    BY <1>5 DEF ReportAsk
  <2> HIDE DEF d
  <2> QED BY <1>5, <2>1, <2>2 DEF Starts, ReportAsk
<1>6. ASSUME NEW h \in HandOvers, ReturnMark(s, h) PROVE \E d \in DeskState : Starts(s, d)
  <2> DEFINE d == [Begun("return", "setread", handOver[h].key) EXCEPT !.next = "Returned"]
  <2>1. handOver[h].key \in Serials
    BY <1>6 DEF TablesOK, ReturnMark, Open
  <2>2. d \in DeskState /\ d.op = "return" /\ d.at = "setread" /\ d.id = None
    BY <2>1 DEF Begun, Idle, DeskState, RowStatus, NoRow, KeyStatus, OpNames, Stages
  <2>3. desk' = [desk EXCEPT ![s] = d]
    BY <1>6 DEF ReturnMark
  <2> HIDE DEF d
  <2> QED BY <1>6, <2>2, <2>3 DEF Starts, ReturnMark
<1>7. ASSUME NEW i \in Incidents, CloseIncident(s, i) PROVE \E d \in DeskState : Starts(s, d)
  <2>1. incident[i].key \in Serials
    BY <1>7 DEF TablesOK, CloseIncident
  <2>2. "close" \in OpNames /\ "audit" \in Stages
    BY DEF OpNames, Stages
  <2>3. Starts(s, Begun("close", "audit", incident[i].key))
    BY <1>7, <2>1, <2>2, BegunKnows DEF Starts, CloseIncident
  <2> QED BY <2>1, <2>2, <2>3, BegunKnows
<1> QED BY <1>1, <1>2, <1>3, <1>4, <1>5, <1>6, <1>7 DEF Begin

-----------------------------------------------------------------------------
(* Who writes which table.                                                 *)
LEMMA HandOverWriters ==
  ASSUME NEW s \in Desks, Begin(s) \/ Step(s) \/ Fault(s)
  PROVE  handOver' = handOver \/ DistributeInsert(s) \/ \E h \in HandOvers : ReturnMark(s, h)
BY DEF Begin, Step, Fault, AddAsk, RemoveRead, Change, RunConfirm, ResetKey, RecordSanitisation,
       DistributeAsk, ReportAsk, CloseIncident, AddInsert, RemoveCount, RemoveDelete,
       DistributeGate, SetRead, SetGate, SetUpdate, RunStart, RunWrite, RunRecord, RunStepFails,
       RunCompletes, Settle, ReportFile, RecordReset, AuditRead, Audit, StoreFails, Crash

LEMMA IncidentWriters ==
  ASSUME NEW s \in Desks, Begin(s) \/ Step(s) \/ Fault(s)
  PROVE  incident' = incident \/ ReportFile(s) \/ \E i \in Incidents : CloseIncident(s, i)
BY DEF Begin, Step, Fault, AddAsk, RemoveRead, Change, RunConfirm, ResetKey, RecordSanitisation,
       DistributeAsk, ReportAsk, ReturnMark, AddInsert, RemoveCount, RemoveDelete,
       DistributeGate, DistributeInsert, SetRead, SetGate, SetUpdate, RunStart, RunWrite, RunRecord,
       RunStepFails, RunCompletes, Settle, RecordReset, AuditRead, Audit, StoreFails, Crash

LEMMA StatusWriters ==
  ASSUME NEW s \in Desks, Begin(s) \/ Step(s) \/ Fault(s)
  PROVE  status' = status \/ AddInsert(s) \/ RemoveDelete(s) \/ SetUpdate(s) \/ ReportFile(s)
BY DEF Begin, Step, Fault, AddAsk, RemoveRead, Change, RunConfirm, ResetKey, RecordSanitisation,
       DistributeAsk, ReportAsk, ReturnMark, CloseIncident, RemoveCount,
       DistributeGate, DistributeInsert, SetRead, SetGate, RunStart, RunWrite, RunRecord,
       RunStepFails, RunCompletes, Settle, RecordReset, AuditRead, Audit, StoreFails, Crash

(* An insert finds its id unused, so no row is ever written over.          *)
LEMMA HandOverOnce ==
  ASSUME FreshIds, DesksOK, TablesOK, NEW s \in Desks, Begin(s) \/ Step(s) \/ Fault(s), NEW h \in HandOvers
  PROVE  \/ handOver'[h] = handOver[h]
         \/ DistributeInsert(s) /\ h = desk[s].id /\ handOver[h] = None
         \/ ReturnMark(s, h)
<1>1. CASE DistributeInsert(s)
  BY <1>1 DEF DistributeInsert, FreshIds, Inserting, At, TablesOK
<1>2. ASSUME NEW g \in HandOvers, ReturnMark(s, g)
      PROVE  handOver'[h] = handOver[h] \/ ReturnMark(s, h)
  BY <1>2 DEF ReturnMark, TablesOK
<1> QED BY <1>1, <1>2, HandOverWriters

LEMMA IncidentOnce ==
  ASSUME FreshIds, DesksOK, TablesOK, NEW s \in Desks, Begin(s) \/ Step(s) \/ Fault(s), NEW i \in Incidents
  PROVE  \/ incident'[i] = incident[i]
         \/ ReportFile(s) /\ i = desk[s].id /\ incident[i] = None
         \/ CloseIncident(s, i)
<1>1. CASE ReportFile(s)
  BY <1>1 DEF ReportFile, FreshIds, At, TablesOK
<1>2. ASSUME NEW j \in Incidents, CloseIncident(s, j)
      PROVE  incident'[i] = incident[i] \/ CloseIncident(s, i)
  BY <1>2 DEF CloseIncident, TablesOK
<1> QED BY <1>1, <1>2, IncidentWriters

LEMMA FreshInit == Init => FreshIds
BY IdleKnows, RegisterAssumption DEF Init, FreshIds, Inserting

LEMMA FreshInductive ==
  ASSUME FreshIds, DesksOK, TablesOK, NEW s \in Desks, Begin(s) \/ Step(s) \/ Fault(s)
  PROVE  FreshIds'
<1> USE RegisterAssumption
<1>1. CASE Begin(s)
  <2>1. PICK d \in DeskState : Starts(s, d)
    BY <1>1, BeginShape
  <2>2. \A r \in Desks : desk'[r] = IF r = s THEN d ELSE desk[r]
    BY <2>1 DEF Starts, DesksOK
  <2>3. ASSUME NEW r \in Desks, r # s, Inserting(r) PROVE handOver'[desk[r].id] = None
    <3>1. handOver[desk[r].id] = None /\ desk[r].id \in HandOvers
      BY <2>3 DEF FreshIds, DesksOK, Knows, Inserting
    <3>2. ~DistributeInsert(s)
      BY <2>1, IdleKnows DEF Starts, DistributeInsert, At
    <3> QED BY <1>1, <3>1, <3>2, HandOverOnce DEF ReturnMark, Open
  <2>4. ASSUME NEW r \in Desks, r # s, desk[r].at = "file" PROVE incident'[desk[r].id] = None
    <3>1. incident[desk[r].id] = None /\ desk[r].id \in Incidents
      BY <2>4 DEF FreshIds, DesksOK, Knows
    <3>2. ~ReportFile(s)
      BY <2>1, IdleKnows DEF Starts, ReportFile, At
    <3> QED BY <1>1, <3>1, <3>2, IncidentOnce DEF CloseIncident
  <2> QED BY <2>1, <2>2, <2>3, <2>4 DEF FreshIds, Inserting, Starts
<1>2. CASE Step(s) \/ Fault(s)
  <2>1. PICK d \in DeskState : CarriesOn(s, d)
    BY <1>2, StepShape
  <2>2. \A r \in Desks : desk'[r] = IF r = s THEN d ELSE desk[r]
    BY <2>1 DEF CarriesOn, DesksOK
  <2>3. d.id \in {desk[s].id, None}
    BY <2>1, IdleKnows DEF CarriesOn
  <2>4. ASSUME NEW r \in Desks, r # s, Inserting(r) PROVE handOver'[desk[r].id] = None
    <3>1. handOver[desk[r].id] = None /\ desk[r].id \in HandOvers
      BY <2>4 DEF FreshIds, DesksOK, Knows, Inserting
    <3>2. desk[r].id # desk[s].id
      BY <2>4, <3>1 DEF FreshIds
    <3> QED BY <1>2, <3>1, <3>2, HandOverOnce DEF ReturnMark, Open
  <2>5. ASSUME NEW r \in Desks, r # s, desk[r].at = "file" PROVE incident'[desk[r].id] = None
    <3>1. incident[desk[r].id] = None /\ desk[r].id \in Incidents
      BY <2>5 DEF FreshIds, DesksOK, Knows
    <3>2. desk[r].id # desk[s].id
      BY <2>5, <3>1 DEF FreshIds
    <3> QED BY <1>2, <3>1, <3>2, IncidentOnce DEF CloseIncident
  <2>6. d.op = "distribute" /\ d.at \in {"gate", "insert"} => handOver'[d.id] = None
    <3> SUFFICES ASSUME d.op = "distribute", d.at = "insert" PROVE handOver'[d.id] = None
      BY <2>1 DEF CarriesOn
    <3>1. desk[s].at = "gate" /\ desk[s].op = "distribute" /\ d.id = desk[s].id
      BY <2>1, IdleKnows DEF CarriesOn
    <3>2. handOver[desk[s].id] = None /\ desk[s].id \in HandOvers
      BY <3>1 DEF FreshIds, Inserting, DesksOK, Knows
    <3>3. ~DistributeInsert(s)
      BY <3>1 DEF DistributeInsert, At
    <3> QED BY <1>2, <3>1, <3>2, <3>3, HandOverOnce DEF ReturnMark, Open
  <2> QED BY <2>1, <2>2, <2>3, <2>4, <2>5, <2>6 DEF FreshIds, Inserting, CarriesOn
<1> QED BY <1>1, <1>2

-----------------------------------------------------------------------------
(* No desk can part a hand-over from its key, nor a loss from its report.  *)
LEMMA RowsSurvive ==
  ASSUME DesksOK, TablesOK, NEW s \in Desks, Begin(s) \/ Step(s) \/ Fault(s),
         NEW k \in Serials, HasRow(k), ~HasRow(k)'
  PROVE  Mentions(k) = {} /\ handOver' = handOver
<1>1. ~AddInsert(s) /\ ~ReportFile(s)
  BY DEF AddInsert, ReportFile, HasRow, NoRow, TablesOK
<1>2. ~SetUpdate(s)
  BY DEF SetUpdate, HasRow, NoRow, TablesOK, DesksOK, Knows, At, KeyStatus
<1>3. status' # status
  BY DEF HasRow
<1>4. RemoveDelete(s)
  BY <1>1, <1>2, <1>3, StatusWriters
<1> QED BY <1>4 DEF RemoveDelete, HasRow, TablesOK

LEMMA CustodyInductive ==
  ASSUME HandOverHasItsKey, FreshIds, DesksOK, TablesOK, NEW s \in Desks, Begin(s) \/ Step(s) \/ Fault(s)
  PROVE  HandOverHasItsKey'
<1> SUFFICES ASSUME NEW h \in HandOvers, handOver'[h] # None
             PROVE  status'[handOver'[h].key] \notin NoRow
  BY DEF HandOverHasItsKey, HasRow
<1>1. ASSUME handOver[h] # None, handOver'[h] # None, handOver'[h].key = handOver[h].key
      PROVE  status'[handOver'[h].key] \notin NoRow
  <2> DEFINE k == handOver[h].key
  <2>1. k \in Serials /\ status[k] \notin NoRow /\ h \in Mentions(k)
    BY <1>1 DEF HandOverHasItsKey, TablesOK, Mentions, HasRow
  <2> HIDE DEF k
  <2>2. status'[k] \notin NoRow
    BY <2>1, RowsSurvive DEF HasRow
  <2> QED BY <1>1, <2>2 DEF k
<1>2. CASE handOver'[h] = handOver[h]
  BY <1>1, <1>2
<1>3. CASE DistributeInsert(s) /\ h = desk[s].id /\ handOver[h] = None
  <2>1. handOver' = handOver \/ handOver'[h] = [key |-> desk[s].key, back |-> None]
    BY <1>3 DEF DistributeInsert, TablesOK
  <2>2. status'[desk[s].key] \notin NoRow \/ handOver' = handOver
    BY <1>3 DEF DistributeInsert, HasRow
  <2> QED BY <1>3, <2>1, <2>2
<1>4. CASE ReturnMark(s, h)
  <2>1. handOver[h] \in [key : Serials, back : Desks \cup {None}]
    BY <1>4 DEF ReturnMark, TablesOK, Open
  <2>2. handOver'[h] = [handOver[h] EXCEPT !.back = s]
    BY <1>4 DEF ReturnMark, TablesOK
  <2>3. handOver'[h].key = handOver[h].key /\ handOver[h] # None
    BY <1>4, <2>1, <2>2 DEF ReturnMark, Open
  <2> QED BY <1>1, <2>3
<1> QED BY <1>2, <1>3, <1>4, HandOverOnce

LEMMA LossInductive ==
  ASSUME LostIsReported, FreshIds, DesksOK, TablesOK, NEW s \in Desks, Begin(s) \/ Step(s) \/ Fault(s)
  PROVE  LostIsReported'
<1> SUFFICES ASSUME NEW k \in Serials, status'[k] = "Lost"
             PROVE  \E i \in Incidents : incident'[i] # None /\ incident'[i].key = k
  BY DEF LostIsReported
<1> USE RegisterAssumption
<1>1. ASSUME NEW i \in Incidents, incident[i] # None
      PROVE  incident'[i] # None /\ incident'[i].key = incident[i].key
  <2>1. CASE CloseIncident(s, i)
    <3>1. incident[i] \in [key : Serials, closed : Desks \cup {None}]
      BY <1>1 DEF TablesOK
    <3>2. incident'[i] = [incident[i] EXCEPT !.closed = s]
      BY <2>1 DEF CloseIncident, TablesOK
    <3>3. /\ incident'[i].key = incident[i].key
          /\ incident'[i] \in [key : Serials, closed : Desks \cup {None}]
      BY <3>1, <3>2
    <3> QED BY <3>3
  <2> QED BY <1>1, <2>1, IncidentOnce
<1>2. CASE status[k] = "Lost"
  BY <1>1, <1>2 DEF LostIsReported
<1>3. CASE status[k] # "Lost"
  <2>1. ~AddInsert(s) /\ ~RemoveDelete(s) /\ status' # status
    BY <1>3 DEF AddInsert, RemoveDelete, TablesOK
  <2>2. ~SetUpdate(s)
    BY <1>3 DEF SetUpdate, TablesOK, DesksOK, Knows, At
  <2>3. ReportFile(s)
    BY <2>1, <2>2, StatusWriters
  <2>4. k = desk[s].key /\ desk[s].id \in Incidents
    BY <1>3, <2>3 DEF ReportFile, TablesOK, DesksOK, Knows, At
  <2>5. incident'[desk[s].id] = [key |-> k, closed |-> None]
    BY <2>3, <2>4 DEF ReportFile, TablesOK
  <2>6. [key |-> k, closed |-> None] \in [key : Serials, closed : Desks \cup {None}]
    OBVIOUS
  <2> QED BY <2>4, <2>5, <2>6
<1> QED BY <1>2, <1>3

-----------------------------------------------------------------------------
(* The inductive invariant of the tables.                                  *)
RegisterInv == TablesOK /\ DesksOK /\ FreshIds /\ HandOverHasItsKey /\ LostIsReported

LEMMA RegisterInit == Init => RegisterInv
<1> SUFFICES ASSUME Init PROVE RegisterInv
  OBVIOUS
<1>1. HandOverHasItsKey
  BY DEF Init, HandOverHasItsKey
<1>2. LostIsReported
  BY DEF Init, LostIsReported
<1> QED BY <1>1, <1>2, TablesInit, DesksInit, FreshInit DEF RegisterInv

LEMMA RegisterInductive == RegisterInv /\ [Next]_vars => RegisterInv'
<1> SUFFICES ASSUME RegisterInv, [Next]_vars PROVE RegisterInv'
  OBVIOUS
<1> USE DEF RegisterInv
<1>1. TablesOK' /\ DesksOK'
  BY TypeInductive
<1>2. ASSUME NEW s \in Desks, Begin(s) \/ Step(s) \/ Fault(s) PROVE RegisterInv'
  BY <1>1, <1>2, FreshInductive, CustodyInductive, LossInductive
<1>3. CASE UNCHANGED vars \/ \E s \in Desks : Refresh(s)
  <2>1. UNCHANGED <<status, handOver, incident, desk>>
    BY <1>3 DEF Refresh, vars
  <2>2. FreshIds'
    BY <2>1 DEF FreshIds, Inserting
  <2>3. HandOverHasItsKey' /\ LostIsReported'
    BY <2>1 DEF HandOverHasItsKey, HasRow, LostIsReported
  <2> QED BY <1>1, <2>2, <2>3
<1> QED BY <1>2, <1>3 DEF Next

(* No interleaving of removals, intakes, hand-overs and status moves       *)
(* leaves a hand-over naming a serial with no row.                         *)
THEOREM CustodyKept == Spec => []HandOverHasItsKey
<1>1. RegisterInv => HandOverHasItsKey
  BY DEF RegisterInv
<1> QED BY <1>1, RegisterInit, RegisterInductive, PTL DEF Spec

(* No interleaving makes a key Lost without a report that names it: the    *)
(* only statement that writes Lost is in the transaction that files one,   *)
(* and no report is ever overwritten or moved to another key.              *)
THEOREM LossExplained == Spec => []LostIsReported
<1>1. RegisterInv => LostIsReported
  BY DEF RegisterInv
<1> QED BY <1>1, RegisterInit, RegisterInductive, PTL DEF Spec

(* A returned hand-over is never reopened, re-stamped or overwritten by    *)
(* any desk: record ids are fresh, and a return finds its record open.     *)
THEOREM ReturnsStand == Spec => ReturnIsFinal
<1>1. ASSUME RegisterInv, [Next]_vars
      PROVE  [\A h \in HandOvers : handOver[h] # None /\ ~Open(h) => handOver'[h] = handOver[h]]_vars
  <2>1. ASSUME NEW s \in Desks, Begin(s) \/ Step(s) \/ Fault(s), NEW h \in HandOvers,
               handOver[h] # None, ~Open(h)
        PROVE  handOver'[h] = handOver[h]
    BY <1>1, <2>1, HandOverOnce DEF RegisterInv, ReturnMark
  <2>2. ASSUME NEW s \in Desks, Refresh(s) PROVE handOver' = handOver
    BY <2>2 DEF Refresh
  <2> QED BY <1>1, <2>1, <2>2 DEF Next
<1> QED BY <1>1, RegisterInit, RegisterInductive, PTL DEF Spec, ReturnIsFinal

(* Nor is a closed incident: of two desks closing it one finds it open.    *)
THEOREM ClosuresStand == Spec => ClosureIsFinal
<1>1. ASSUME RegisterInv, [Next]_vars
      PROVE  [\A i \in Incidents : incident[i] # None /\ incident[i].closed # None =>
                incident'[i] = incident[i]]_vars
  <2>1. ASSUME NEW s \in Desks, Begin(s) \/ Step(s) \/ Fault(s), NEW i \in Incidents,
               incident[i] # None, incident[i].closed # None
        PROVE  incident'[i] = incident[i]
    BY <1>1, <2>1, IncidentOnce DEF RegisterInv, CloseIncident
  <2>2. ASSUME NEW s \in Desks, Refresh(s) PROVE incident' = incident
    BY <2>2 DEF Refresh
  <2> QED BY <1>1, <2>1, <2>2 DEF Next
<1> QED BY <1>1, RegisterInit, RegisterInductive, PTL DEF Spec, ClosureIsFinal

(* Whichever desks race on whatever list, what was returned or closed      *)
(* stays as it was written.                                                *)
THEOREM RecordsStandFinal == Spec => RecordsAreFinal
BY ReturnsStand, ClosuresStand DEF RecordsAreFinal

-----------------------------------------------------------------------------
(* What is on a key is on record.  Only the desk whose port holds the key  *)
(* writes it, and that desk records each write before the next.            *)
OnePort == \A s, d \in Desks : \A k \in Serials : UsesHardware(s, k) /\ UsesHardware(d, k) => s = d

Recording(s, k, a) ==
  desk[s].key = k /\ desk[s].op = "run" /\ desk[s].at = "record" /\ a \in desk[s].applets

ResidueTracked ==
  \A k \in Serials : k \in torn \/
    \A a \in onKey[k] : a \in outstanding[k] \/ \E s \in Desks : Recording(s, k, a)

ResetIsClean == \A s \in Desks : desk[s].at = "clear" => onKey[desk[s].key] \cap desk[s].applets = {}

ResidueInv == OnePort /\ ResidueTracked /\ ResetIsClean

LEMMA OnePortInductive ==
  ASSUME OnePort, DesksOK, TablesOK, NEW s \in Desks, Begin(s) \/ Step(s) \/ Fault(s)
  PROVE  OnePort'
<1>1. ASSUME NEW d \in DeskState, Starts(s, d) PROVE OnePort'
  <2>1. \A r \in Desks : desk'[r] = IF r = s THEN d ELSE desk[r]
    BY <1>1 DEF Starts, DesksOK
  <2>2. ASSUME NEW r \in Desks, r # s, NEW k \in Serials, UsesHardware(r, k)
        PROVE  ~(d.key = k /\ d.op \in {"run", "reset"})
    BY <1>1, <2>2 DEF Starts, PortFree
  <2> QED BY <2>1, <2>2 DEF OnePort, UsesHardware
<1>2. ASSUME NEW d \in DeskState, CarriesOn(s, d) PROVE OnePort'
  <2>1. \A r \in Desks : desk'[r] = IF r = s THEN d ELSE desk[r]
    BY <1>2 DEF CarriesOn, DesksOK
  <2>2. d.op \in {"run", "reset"} => d.op = desk[s].op /\ d.key = desk[s].key
    BY <1>2, IdleKnows DEF CarriesOn
  <2> QED BY <2>1, <2>2 DEF OnePort, UsesHardware
<1> QED BY <1>1, <1>2, BeginShape, StepShape

LEMMA OnKeyWriters ==
  ASSUME NEW s \in Desks, Begin(s) \/ Step(s) \/ Fault(s)
  PROVE  \/ onKey' = onKey
         \/ RunWrite(s) \/ RunStepFails(s) \/ \E k \in Serials : ResetKey(s, k)
BY DEF Begin, Step, Fault, AddAsk, RemoveRead, Change, RunConfirm, RecordSanitisation,
       DistributeAsk, ReportAsk, ReturnMark, CloseIncident, AddInsert, RemoveCount, RemoveDelete,
       DistributeGate, DistributeInsert, SetRead, SetGate, SetUpdate, RunStart, RunRecord,
       RunCompletes, Settle, ReportFile, RecordReset, AuditRead, Audit, StoreFails, Crash

LEMMA OutstandingWriters ==
  ASSUME NEW s \in Desks, Begin(s) \/ Step(s) \/ Fault(s)
  PROVE  \/ outstanding' = outstanding
         \/ RunRecord(s) \/ RecordReset(s) \/ \E k \in Serials : RecordSanitisation(s, k)
BY DEF Begin, Step, Fault, AddAsk, RemoveRead, Change, RunConfirm, ResetKey,
       DistributeAsk, ReportAsk, ReturnMark, CloseIncident, AddInsert, RemoveCount, RemoveDelete,
       DistributeGate, DistributeInsert, SetRead, SetGate, SetUpdate, RunStart, RunWrite,
       RunStepFails, RunCompletes, Settle, ReportFile, AuditRead, Audit, StoreFails, Crash

(* torn only grows.                                                        *)
LEMMA TornGrows ==
  ASSUME NEW s \in Desks, Begin(s) \/ Step(s) \/ Fault(s)
  PROVE  torn \subseteq torn'
BY DEF Begin, Step, Fault, AddAsk, RemoveRead, Change, RunConfirm, ResetKey, RecordSanitisation,
       DistributeAsk, ReportAsk, ReturnMark, CloseIncident, AddInsert, RemoveCount, RemoveDelete,
       DistributeGate, DistributeInsert, SetRead, SetGate, SetUpdate, RunStart, RunWrite, RunRecord,
       RunStepFails, RunCompletes, Settle, ReportFile, RecordReset, AuditRead, Audit, StoreFails, Crash, Tear

(* The desk that holds the key is the only one whose step adds to it.      *)
LEMMA OnlyTheHolderWrites ==
  ASSUME OnePort, DesksOK, TablesOK, NEW s \in Desks, Begin(s) \/ Step(s) \/ Fault(s),
         NEW r \in Desks \ {s}, NEW k \in Serials, UsesHardware(r, k)
  PROVE  onKey'[k] \subseteq onKey[k]
<1>1. ASSUME RunWrite(s) \/ RunStepFails(s) PROVE onKey'[k] = onKey[k]
  <2>1. desk[s].op = "run" /\ desk[s].key \in Serials
    BY <1>1 DEF RunWrite, RunStepFails, At, DesksOK, Knows
  <2>2. desk[s].key # k
    BY <2>1 DEF OnePort, UsesHardware
  <2> QED BY <1>1, <2>1, <2>2 DEF RunWrite, RunStepFails, TablesOK
<1>2. ASSUME NEW j \in Serials, ResetKey(s, j) PROVE onKey'[k] \subseteq onKey[k]
  BY <1>2 DEF ResetKey, TablesOK
<1> QED BY <1>1, <1>2, OnKeyWriters

LEMMA ResetCleanInductive ==
  ASSUME ResetIsClean, OnePort, DesksOK, TablesOK, NEW s \in Desks, Begin(s) \/ Step(s) \/ Fault(s)
  PROVE  ResetIsClean'
<1>1. ASSUME NEW r \in Desks \ {s}, desk[r].at = "clear"
      PROVE  onKey'[desk[r].key] \cap desk[r].applets = {}
  <2>1. desk[r].key \in Serials /\ UsesHardware(r, desk[r].key)
    BY <1>1 DEF DesksOK, Knows, UsesHardware
  <2>2. onKey'[desk[r].key] \subseteq onKey[desk[r].key]
    BY <2>1, OnlyTheHolderWrites
  <2> QED BY <1>1, <2>2 DEF ResetIsClean
<1>2. ASSUME NEW d \in DeskState, Starts(s, d) PROVE ResetIsClean'
  <2>1. \A r \in Desks : desk'[r] = IF r = s THEN d ELSE desk[r]
    BY <1>2 DEF Starts, DesksOK
  <2> QED BY <1>1, <1>2, <2>1 DEF ResetIsClean, Starts
<1>3. ASSUME NEW d \in DeskState, CarriesOn(s, d) PROVE ResetIsClean'
  <2>1. \A r \in Desks : desk'[r] = IF r = s THEN d ELSE desk[r]
    BY <1>3 DEF CarriesOn, DesksOK
  <2> QED BY <1>1, <1>3, <2>1 DEF ResetIsClean, CarriesOn
<1> QED BY <1>2, <1>3, BeginShape, StepShape

(* A desk that was not recording when it stepped took no cover away.       *)
LEMMA CoverSurvives ==
  ASSUME DesksOK, TablesOK, NEW s \in Desks, Begin(s) \/ Step(s) \/ Fault(s),
         NEW r \in Desks, NEW k \in Serials, NEW a \in Applets, Recording(r, k, a), r # s
  PROVE  Recording(r, k, a)'
<1>1. PICK d \in DeskState : desk' = [desk EXCEPT ![s] = d]
  BY BeginShape, StepShape DEF Starts, CarriesOn
<1>2. desk'[r] = desk[r]
  BY <1>1 DEF DesksOK
<1> QED BY <1>2 DEF Recording

LEMMA ResidueInductive ==
  ASSUME ResidueInv, DesksOK, TablesOK, NEW s \in Desks, Begin(s) \/ Step(s) \/ Fault(s)
  PROVE  ResidueTracked'
<1> SUFFICES ASSUME NEW k \in Serials, k \notin torn', NEW a \in onKey'[k]
             PROVE  a \in outstanding'[k] \/ \E r \in Desks : Recording(r, k, a)'
  BY DEF ResidueTracked
<1>0. TablesOK' /\ k \notin torn /\ a \in Applets
  <2>1. TablesOK'
    BY TablesBegin, TablesStep, TablesFault
  <2>2. a \in Applets
    BY <2>1 DEF TablesOK
  <2> QED BY <2>1, <2>2, TornGrows
<1>1. CASE a \in outstanding[k]
  <2>1. CASE outstanding' = outstanding \/ RunRecord(s)
    BY <1>1, <2>1 DEF RunRecord, TablesOK
  <2>2. CASE RecordReset(s)
    <3>1. desk[s].at = "clear" /\ onKey' = onKey
      BY <2>2 DEF RecordReset, At
    <3>2. desk[s].key = k => a \notin desk[s].applets
      BY <3>1 DEF ResidueInv, ResetIsClean
    <3> QED BY <1>1, <2>2, <3>2 DEF RecordReset, TablesOK
  <2>3. ASSUME NEW j \in Serials, RecordSanitisation(s, j) PROVE a \in outstanding'[k]
    BY <1>1, <2>3 DEF RecordSanitisation, TablesOK
  <2> QED BY <2>1, <2>2, <2>3, OutstandingWriters
<1>2. CASE a \in onKey[k] /\ a \notin outstanding[k]
  <2>1. PICK r \in Desks : Recording(r, k, a)
    BY <1>0, <1>2 DEF ResidueInv, ResidueTracked
  <2>2. CASE r # s
    BY <1>0, <2>1, <2>2, CoverSurvives
  <2>3. CASE r = s
    <3>1. desk[s].at = "record" /\ desk[s].op = "run" /\ desk[s].key = k /\ a \in desk[s].applets
      BY <2>1, <2>3 DEF Recording
    <3>2. ~Fault(s)
      BY <1>0, <3>1 DEF Fault, StoreFails, Crash, Tear, HalfDone
    <3>3. ~Begin(s)
      BY <3>1, BeginShape, IdleKnows DEF Starts
    <3>4. RunRecord(s)
      BY <3>1, <3>2, <3>3 DEF Step, At, AddInsert, RemoveCount, RemoveDelete, DistributeGate,
         DistributeInsert, SetRead, SetGate, SetUpdate, RunStart, RunWrite, RunStepFails,
         RunCompletes, Settle, ReportFile, RecordReset, AuditRead, Audit
    <3> QED BY <3>1, <3>4 DEF RunRecord, TablesOK
  <2> QED BY <2>2, <2>3
<1>3. CASE a \notin onKey[k]
  <2>1. ~\E j \in Serials : ResetKey(s, j)
    BY <1>3 DEF ResetKey, TablesOK
  <2>2. ~RunStepFails(s)
    <3>1. SUFFICES ASSUME RunStepFails(s) PROVE FALSE
      OBVIOUS
    <3>2. onKey' # onKey
      BY <1>3
    <3>3. torn' = torn \cup {desk[s].key} /\ desk[s].key # k
      BY <1>0, <3>1, <3>2 DEF RunStepFails
    <3> QED BY <1>3, <3>1, <3>3 DEF RunStepFails, TablesOK
  <2>3. RunWrite(s)
    BY <1>3, <2>1, <2>2, OnKeyWriters
  <2>4. PICK b \in Applets : /\ onKey' = [onKey EXCEPT ![desk[s].key] = @ \cup {b}]
                             /\ desk' = [desk EXCEPT ![s].at = "record", ![s].applets = @ \cup {b}]
    BY <2>3 DEF RunWrite
  <2>5. desk[s].key = k /\ a = b
    BY <1>3, <2>4 DEF TablesOK
  <2>6. desk[s].op = "run" /\ desk[s] \in DeskState
    BY <2>3 DEF RunWrite, At, DesksOK, Knows
  <2>7. desk'[s] = [desk[s] EXCEPT !.at = "record", !.applets = @ \cup {b}]
    BY <2>4 DEF DesksOK
  <2>8. Recording(s, k, a)'
    BY <2>5, <2>6, <2>7 DEF Recording, DeskState
  <2> QED BY <2>8
<1> QED BY <1>1, <1>2, <1>3

(* Whatever a run has put on a key, the register counts it as outstanding  *)
(* unless an operation on that key was cut short: with any number of desks *)
(* running, resetting and sanitising keys, no reset record and no status   *)
(* move hides a write from the sanitised gate.                             *)
THEOREM ResidueRecorded == Spec => []ResidueIsOnRecord
<1>1. Init => ResidueInv
  BY IdleKnows, RegisterAssumption
     DEF Init, ResidueInv, OnePort, ResidueTracked, ResetIsClean, UsesHardware
<1>2. RegisterInv /\ ResidueInv /\ [Next]_vars => ResidueInv'
  <2> SUFFICES ASSUME RegisterInv, ResidueInv, [Next]_vars PROVE ResidueInv'
    OBVIOUS
  <2>1. ASSUME NEW s \in Desks, Begin(s) \/ Step(s) \/ Fault(s) PROVE ResidueInv'
    BY <2>1, OnePortInductive, ResetCleanInductive, ResidueInductive DEF RegisterInv, ResidueInv
  <2>2. CASE UNCHANGED vars \/ \E s \in Desks : Refresh(s)
    <3>1. UNCHANGED <<onKey, outstanding, torn, desk>>
      BY <2>2 DEF Refresh, vars
    <3> QED BY <3>1
       DEF ResidueInv, OnePort, ResidueTracked, ResetIsClean, UsesHardware, Recording
  <2> QED BY <2>1, <2>2 DEF Next
<1>3. RegisterInv /\ ResidueInv => ResidueIsOnRecord
  BY DEF ResidueInv, ResidueTracked, ResidueIsOnRecord, Recording, At
<1> QED BY <1>1, <1>2, <1>3, RegisterInit, RegisterInductive, PTL DEF Spec

-----------------------------------------------------------------------------
(* The trail: what an operation says when it ends is so from the statement *)
(* that made it so, and no desk makes it otherwise.                        *)
IsSo(op, k) ==
  /\ op = "remove" => status[k] = "removed"
  /\ op = "distribute" => Mentions(k) # {}
  /\ op = "return" => \E h \in Mentions(k) : ~Open(h)
  /\ op = "report" => \E i \in Incidents : incident[i] # None /\ incident[i].key = k
  /\ op = "close" => \E i \in Incidents : /\ incident[i] # None /\ incident[i].key = k
                                          /\ incident[i].closed # None

(* An operation is due its entry from that statement on.                   *)
Due(s) ==
  /\ desk[s].at # "idle"
  /\ desk[s].op = "remove" => desk[s].at \in {"audit", "append"}
  /\ desk[s].op = "distribute" => desk[s].at \notin {"gate", "insert"}
  /\ desk[s].op = "report" => desk[s].at # "file"

DueIsSo ==
  \A s \in Desks : /\ Due(s) => IsSo(desk[s].op, desk[s].key)
                   /\ desk[s].op = "remove" => desk[s].at \in {"count", "delete", "audit", "append"}

LEMMA SoStays ==
  ASSUME FreshIds, DesksOK, TablesOK, NEW s \in Desks, Begin(s) \/ Step(s) \/ Fault(s),
         NEW k \in Serials, NEW op, IsSo(op, k)
  PROVE  IsSo(op, k)'
<1> USE RegisterAssumption
<1>1. status[k] = "removed" => status'[k] = "removed"
  BY StatusWriters DEF AddInsert, RemoveDelete, SetUpdate, ReportFile, TablesOK, HasRow, NoRow
<1>2. ASSUME NEW h \in HandOvers, handOver[h] # None
      PROVE  handOver'[h] # None /\ handOver'[h].key = handOver[h].key
             /\ (handOver[h].back # None => handOver'[h].back # None)
  <2>1. handOver[h] \in [key : Serials, back : Desks \cup {None}]
    BY <1>2 DEF TablesOK
  <2>2. CASE ReturnMark(s, h)
    <3>1. handOver'[h] = [handOver[h] EXCEPT !.back = s]
      BY <2>2 DEF ReturnMark, TablesOK
    <3>2. handOver'[h] \in [key : Serials, back : Desks \cup {None}]
          /\ handOver'[h].key = handOver[h].key /\ handOver'[h].back = s
      BY <2>1, <3>1
    <3> QED BY <3>2
  <2> QED BY <1>2, <2>2, HandOverOnce
<1>3. ASSUME NEW i \in Incidents, incident[i] # None
      PROVE  incident'[i] # None /\ incident'[i].key = incident[i].key
             /\ (incident[i].closed # None => incident'[i].closed # None)
  <2>1. incident[i] \in [key : Serials, closed : Desks \cup {None}]
    BY <1>3 DEF TablesOK
  <2>2. CASE CloseIncident(s, i)
    <3>1. incident'[i] = [incident[i] EXCEPT !.closed = s]
      BY <2>2 DEF CloseIncident, TablesOK
    <3>2. incident'[i] \in [key : Serials, closed : Desks \cup {None}]
          /\ incident'[i].key = incident[i].key /\ incident'[i].closed = s
      BY <2>1, <3>1
    <3> QED BY <3>2
  <2> QED BY <1>3, <2>2, IncidentOnce
<1>4. Mentions(k) \subseteq Mentions(k)'
  BY <1>2 DEF Mentions
<1>5. \A h \in Mentions(k) : ~Open(h) => ~Open(h)'
  BY <1>2 DEF Mentions, Open
<1> QED BY <1>1, <1>3, <1>4, <1>5 DEF IsSo

(* What an operator starts is due nothing yet, but for the return and the  *)
(* closing, whose statement is the first.                                  *)
LEMMA BeginDue ==
  ASSUME DesksOK, TablesOK, NEW s \in Desks, Begin(s)
  PROVE  /\ (Due(s) => IsSo(desk[s].op, desk[s].key))'
         /\ desk'[s].op = "remove" => desk'[s].at = "count"
<1> USE RegisterAssumption
<1> DEFINE Goal == /\ (Due(s) => IsSo(desk[s].op, desk[s].key))'
                   /\ desk'[s].op = "remove" => desk'[s].at = "count"
<1>1. ASSUME NEW k \in Serials, AddAsk(s, k) \/ RunConfirm(s, k) \/ RecordSanitisation(s, k) PROVE Goal
  <2>1. desk'[s].op \in {"add", "run", "sanitise"}
    BY <1>1, BegunKnows DEF AddAsk, RunConfirm, RecordSanitisation, DesksOK, OpNames, Stages
  <2> QED BY <2>1 DEF IsSo
<1>2. ASSUME NEW k \in Serials, RemoveRead(s, k) PROVE Goal
  <2>1. desk'[s].op = "remove" /\ desk'[s].at = "count"
    BY <1>2, BegunKnows DEF RemoveRead, DesksOK, OpNames, Stages
  <2> QED BY <2>1 DEF Due
<1>3. ASSUME NEW k \in Serials, Change(s, k) \/ ResetKey(s, k) PROVE Goal
  <2>1. desk'[s].op \in {"change", "reset"}
    <3>1. ASSUME NEW x, desk' = [desk EXCEPT ![s] = [Begun("change", "setread", k) EXCEPT !.next = x]]
          PROVE  desk'[s].op = "change"
      BY <3>1 DEF DesksOK, Begun, Idle
    <3>2. ASSUME NEW x, desk' = [desk EXCEPT ![s] = [Begun("reset", "clear", k) EXCEPT !.applets = x]]
          PROVE  desk'[s].op = "reset"
      BY <3>2 DEF DesksOK, Begun, Idle
    <3> QED BY <1>3, <3>1, <3>2 DEF Change, ResetKey
  <2> QED BY <2>1 DEF IsSo
<1>4. ASSUME NEW k \in Serials, NEW h \in HandOvers, DistributeAsk(s, k, h) PROVE Goal
  <2>1. desk'[s].op = "distribute" /\ desk'[s].at = "gate"
    BY <1>4 DEF DistributeAsk, DesksOK, Begun, Idle
  <2> QED BY <2>1 DEF Due
<1>5. ASSUME NEW k \in Serials, NEW i \in Incidents, ReportAsk(s, k, i) PROVE Goal
  <2>1. desk'[s].op = "report" /\ desk'[s].at = "file"
    BY <1>5 DEF ReportAsk, DesksOK, Begun, Idle
  <2> QED BY <2>1 DEF Due
<1>6. ASSUME NEW h \in HandOvers, ReturnMark(s, h) PROVE Goal
  <2>1. handOver[h] \in [key : Serials, back : Desks \cup {None}]
    BY <1>6 DEF TablesOK, ReturnMark, Open
  <2>2. handOver'[h] = [handOver[h] EXCEPT !.back = s]
    BY <1>6 DEF ReturnMark, TablesOK
  <2>3. handOver'[h] \in [key : Serials, back : Desks \cup {None}]
        /\ handOver'[h].key = handOver[h].key /\ handOver'[h].back = s
    BY <2>1, <2>2
  <2>4. desk'[s].op = "return" /\ desk'[s].key = handOver[h].key
    BY <1>6 DEF ReturnMark, DesksOK, Begun, Idle
  <2>5. h \in Mentions(desk[s].key)' /\ ~Open(h)'
    BY <2>3, <2>4 DEF Mentions, Open
  <2> QED BY <2>4, <2>5 DEF IsSo
<1>7. ASSUME NEW i \in Incidents, CloseIncident(s, i) PROVE Goal
  <2>1. incident[i] \in [key : Serials, closed : Desks \cup {None}]
    BY <1>7 DEF TablesOK, CloseIncident
  <2>2. incident'[i] = [incident[i] EXCEPT !.closed = s]
    BY <1>7 DEF CloseIncident, TablesOK
  <2>3. incident'[i] \in [key : Serials, closed : Desks \cup {None}]
        /\ incident'[i].key = incident[i].key /\ incident'[i].closed = s
    BY <2>1, <2>2
  <2>4. desk'[s].op = "close" /\ desk'[s].key = incident[i].key
    BY <1>7, <2>1, BegunKnows DEF CloseIncident, DesksOK, OpNames, Stages
  <2> QED BY <2>3, <2>4 DEF IsSo
<1> QED BY <1>1, <1>2, <1>3, <1>4, <1>5, <1>6, <1>7 DEF Begin

(* A handler that goes on keeps what it was due, and comes to be due only  *)
(* by the delete, the insert or the report.                                *)
LEMMA StepDue ==
  ASSUME DueIsSo, FreshIds, DesksOK, TablesOK, NEW s \in Desks, Step(s) \/ Fault(s)
  PROVE  /\ (Due(s) => IsSo(desk[s].op, desk[s].key))'
         /\ desk'[s].op = "remove" => desk'[s].at \in {"count", "delete", "audit", "append"}
<1> USE RegisterAssumption
<1>1. PICK d \in DeskState : CarriesOn(s, d)
  BY StepShape
<1>2. desk'[s] = d
  BY <1>1 DEF CarriesOn, DesksOK
<1>3. CASE d = Idle
  BY <1>2, <1>3, IdleKnows DEF IsSo
<1>4. CASE d # Idle
  <2>0. desk[s].at # "idle" /\ desk[s].key \in Serials
    <3>1. ASSUME Fault(s) PROVE desk[s].at # "idle"
      BY <1>2, <1>4, <3>1 DEF Fault, StoreFails, Crash, HalfDone, GoIdle, At, DesksOK
    <3>2. ASSUME Step(s) PROVE desk[s].at # "idle"
      BY <3>2 DEF Step, At, AddInsert, RemoveCount, RemoveDelete, DistributeGate, DistributeInsert,
           SetRead, SetGate, SetUpdate, RunStart, RunWrite, RunRecord, RunStepFails, RunCompletes, Settle,
           ReportFile, RecordReset, AuditRead, Audit
    <3> QED BY <3>1, <3>2 DEF DesksOK, Knows
  <2>1. d.op = desk[s].op /\ d.key = desk[s].key
    BY <1>1, <1>4 DEF CarriesOn
  <2>2. CASE desk[s].op \notin {"remove", "distribute", "report"} \/ Due(s)
    <3>1. Due(s)
      BY <2>0, <2>2 DEF Due
    <3>2. PICK k \in Serials, op \in OpNames \cup {"idle"} : k = desk[s].key /\ op = desk[s].op
      BY <2>0 DEF DesksOK, DeskState
    <3>3. IsSo(op, k)
      BY <3>1, <3>2 DEF DueIsSo
    <3>4. IsSo(op, k)' /\ desk'[s].op = op /\ desk'[s].key = k
      BY <1>2, <2>1, <3>2, <3>3, SoStays
    <3>5. op = "remove" => d.at \in {"audit", "append"}
      <4> SUFFICES ASSUME op = "remove" PROVE d.at \in {"audit", "append"}
        OBVIOUS
      <4>1. desk[s].op = "remove" /\ desk[s].at \in {"audit", "append"}
        BY <3>1, <3>2 DEF Due
      <4>2. AuditRead(s) \/ Audit(s) \/ Fault(s)
        BY <4>1 DEF Step, At, AddInsert, RemoveCount, RemoveDelete, DistributeGate, DistributeInsert,
             SetRead, SetGate, SetUpdate, RunStart, RunWrite, RunRecord, RunStepFails, RunCompletes, Settle,
             ReportFile, RecordReset
      <4> QED BY <1>2, <1>4, <2>0, <4>1, <4>2
            DEF AuditRead, Audit, Fault, StoreFails, Crash, GoTo, GoIdle, DesksOK, DeskState
    <3> QED BY <1>2, <3>4, <3>5 DEF IsSo
  <2>3. CASE desk[s].op = "remove" /\ ~Due(s)
    <3>1. desk[s].at \in {"count", "delete"}
      BY <2>3 DEF DueIsSo, Due
    <3>2. RemoveCount(s) \/ RemoveDelete(s) \/ Fault(s)
      BY <2>3, <3>1 DEF Step, At, AddInsert, DistributeGate, DistributeInsert, SetRead, SetGate, SetUpdate,
           RunStart, RunWrite, RunRecord, RunStepFails, RunCompletes, Settle, ReportFile, RecordReset,
           AuditRead, Audit
    <3>3. ~Fault(s)
      BY <1>2, <1>4, <2>3, <3>1 DEF Fault, StoreFails, Crash, GoIdle, DesksOK
    <3>4. CASE RemoveCount(s)
      BY <1>2, <1>4, <2>1, <2>3, <3>4 DEF RemoveCount, GoTo, GoIdle, DesksOK, DeskState, Due
    <3>5. CASE RemoveDelete(s)
      <4>2. status'[desk[s].key] = "removed" /\ d.at = "audit"
        BY <1>2, <1>4, <2>0, <3>5 DEF RemoveDelete, GoTo, GoIdle, DesksOK, DeskState, TablesOK
      <4> QED BY <1>2, <2>1, <2>3, <4>2 DEF IsSo
    <3> QED BY <3>2, <3>3, <3>4, <3>5
  <2>4. CASE desk[s].op = "distribute" /\ ~Due(s)
    <3>1. desk[s].at \in {"gate", "insert"}
      BY <2>0, <2>4 DEF Due
    <3>2. DistributeGate(s) \/ DistributeInsert(s) \/ Fault(s)
      BY <2>4, <3>1 DEF Step, At, AddInsert, RemoveCount, RemoveDelete, SetRead, SetGate, SetUpdate,
           RunStart, RunWrite, RunRecord, RunStepFails, RunCompletes, Settle, ReportFile, RecordReset,
           AuditRead, Audit
    <3>3. ~Fault(s)
      BY <1>2, <1>4, <2>4, <3>1 DEF Fault, StoreFails, Crash, HalfDone, At, GoIdle, DesksOK
    <3>4. CASE DistributeGate(s)
      BY <1>2, <1>4, <2>1, <2>4, <3>4 DEF DistributeGate, GoTo, GoIdle, DesksOK, DeskState, Due
    <3>5. CASE DistributeInsert(s)
      <4>1. desk[s].id \in HandOvers /\ desk[s].key \in Serials
        BY <2>4, <3>1 DEF DesksOK, Knows, DeskState
      <4>2. handOver'[desk[s].id] = [key |-> desk[s].key, back |-> None]
        BY <1>2, <1>4, <3>5, <4>1 DEF DistributeInsert, GoIdle, DesksOK, TablesOK
      <4>3. /\ handOver'[desk[s].id] \in [key : Serials, back : Desks \cup {None}]
            /\ handOver'[desk[s].id].key = desk[s].key
        BY <4>1, <4>2
      <4>4. desk[s].id \in {h \in HandOvers : handOver'[h] # None /\ handOver'[h].key = desk[s].key}
        BY <4>1, <4>3
      <4> QED BY <1>2, <2>1, <2>4, <4>4 DEF IsSo, Mentions
    <3> QED BY <3>2, <3>3, <3>4, <3>5
  <2>5. CASE desk[s].op = "report" /\ ~Due(s)
    <3>1. desk[s].at = "file"
      BY <2>0, <2>5 DEF Due
    <3>2. ReportFile(s) \/ Fault(s)
      BY <2>5, <3>1 DEF Step, At, AddInsert, RemoveCount, RemoveDelete, DistributeGate, DistributeInsert,
           SetRead, SetGate, SetUpdate, RunStart, RunWrite, RunRecord, RunStepFails, RunCompletes, Settle,
           RecordReset, AuditRead, Audit
    <3>3. ~Fault(s)
      BY <1>2, <1>4, <2>5, <3>1 DEF Fault, StoreFails, Crash, HalfDone, At, GoIdle, DesksOK
    <3>4. desk[s].id \in Incidents /\ desk[s].key \in Serials
      BY <2>5, <3>1 DEF DesksOK, Knows, DeskState
    <3>5. incident'[desk[s].id] = [key |-> desk[s].key, closed |-> None]
      BY <3>2, <3>3, <3>4 DEF ReportFile, TablesOK
    <3>6. /\ incident'[desk[s].id] \in [key : Serials, closed : Desks \cup {None}]
          /\ incident'[desk[s].id].key = desk[s].key
      BY <3>4, <3>5
    <3> QED BY <1>2, <2>1, <2>5, <3>4, <3>6 DEF IsSo
  <2> QED BY <2>2, <2>3, <2>4, <2>5
<1> QED BY <1>3, <1>4

LEMMA DueInductive ==
  ASSUME DueIsSo, FreshIds, DesksOK, TablesOK, NEW s \in Desks, Begin(s) \/ Step(s) \/ Fault(s)
  PROVE  DueIsSo'
<1>1. /\ (Due(s) => IsSo(desk[s].op, desk[s].key))'
      /\ desk'[s].op = "remove" => desk'[s].at \in {"count", "delete", "audit", "append"}
  BY BeginDue, StepDue
<1>2. \A r \in Desks \ {s} : desk'[r] = desk[r]
  BY BeginShape, StepShape DEF Starts, CarriesOn, DesksOK
<1>3. ASSUME NEW r \in Desks \ {s} PROVE (Due(r) => IsSo(desk[r].op, desk[r].key))'
  <2> SUFFICES ASSUME Due(r)' PROVE IsSo(desk[r].op, desk[r].key)'
    OBVIOUS
  <2>1. desk'[r] = desk[r] /\ Due(r)
    BY <1>2 DEF Due
  <2>2. PICK k \in Serials, op \in OpNames \cup {"idle"} : k = desk[r].key /\ op = desk[r].op
    BY <2>1 DEF Due, DesksOK, DeskState, Knows
  <2>3. IsSo(op, k)
    BY <2>1, <2>2 DEF DueIsSo
  <2>4. IsSo(op, k)' /\ desk'[r].op = op /\ desk'[r].key = k
    BY <2>1, <2>2, <2>3, SoStays
  <2> QED BY <2>4 DEF IsSo
<1> QED BY <1>1, <1>2, <1>3 DEF DueIsSo

LEMMA TrailWriters ==
  ASSUME TablesOK, NEW s \in Desks, Begin(s) \/ Step(s) \/ Fault(s)
  PROVE  \/ trail'.entries = trail.entries
         \/ /\ trail'.entries = trail.entries \cup {<<AuditEvent[desk[s].op], desk[s].key>>}
            /\ desk[s].at = "append"
<1>1. CASE trail' = trail
  BY <1>1
<1>2. CASE AuditRead(s) \/ Audit(s) \/ Fault(s)
  BY <1>2 DEF AuditRead, Audit, Fault, StoreFails, Crash, Forget, TablesOK, At
<1>3. CASE Begin(s)
  BY <1>1, <1>3 DEF Begin, AddAsk, RemoveRead, Change, RunConfirm, ResetKey, RecordSanitisation,
       DistributeAsk, ReportAsk, ReturnMark, CloseIncident
<1>4. CASE Step(s)
  BY <1>1, <1>2, <1>4 DEF Step, AddInsert, RemoveCount, RemoveDelete,
       DistributeGate, DistributeInsert, SetRead, SetGate, SetUpdate, RunStart, RunWrite, RunRecord,
       RunStepFails, RunCompletes, Settle, ReportFile, RecordReset
<1> QED BY <1>2, <1>3, <1>4

(* The entries, each said of the operation it is written by.               *)
Told == {"remove", "distribute", "return", "report", "close"}

TrailByOperation ==
  \A k \in Serials, op \in Told : <<AuditEvent[op], k>> \in trail.entries => IsSo(op, k)

LEMMA EventNames ==
  /\ AuditEvent["remove"] = "key.removed" /\ AuditEvent["distribute"] = "key.distributed"
  /\ AuditEvent["return"] = "key.returned" /\ AuditEvent["report"] = "key.reported_lost"
  /\ AuditEvent["close"] = "key.incident_closed"
BY DEF AuditEvent

LEMMA TrailSaysSo == TrailByOperation => TrailIsTrue
<1> SUFFICES ASSUME TrailByOperation PROVE TrailIsTrue
  OBVIOUS
<1>1. \A k \in Serials : <<"key.removed", k>> \in trail.entries => IsSo("remove", k)
  BY EventNames DEF TrailByOperation, Told
<1>2. \A k \in Serials : <<"key.distributed", k>> \in trail.entries => IsSo("distribute", k)
  BY EventNames DEF TrailByOperation, Told
<1>3. \A k \in Serials : <<"key.returned", k>> \in trail.entries => IsSo("return", k)
  BY EventNames DEF TrailByOperation, Told
<1>4. \A k \in Serials : <<"key.reported_lost", k>> \in trail.entries => IsSo("report", k)
  BY EventNames DEF TrailByOperation, Told
<1>5. \A k \in Serials : <<"key.incident_closed", k>> \in trail.entries => IsSo("close", k)
  BY EventNames DEF TrailByOperation, Told
<1> QED BY <1>1, <1>2, <1>3, <1>4, <1>5 DEF TrailIsTrue, IsSo

LEMMA EventsDiffer == \A op \in Told, other \in OpNames : AuditEvent[op] = AuditEvent[other] => op = other
BY DEF AuditEvent, Told, OpNames

LEMMA TrailInductive ==
  ASSUME TrailByOperation, DueIsSo, FreshIds, DesksOK, TablesOK, NEW s \in Desks, Begin(s) \/ Step(s) \/ Fault(s)
  PROVE  TrailByOperation'
<1> SUFFICES ASSUME NEW k \in Serials, NEW op \in Told, <<AuditEvent[op], k>> \in trail'.entries
             PROVE  IsSo(op, k)'
  BY DEF TrailByOperation
<1>1. CASE <<AuditEvent[op], k>> \in trail.entries
  BY <1>1, SoStays DEF TrailByOperation
<1>2. CASE <<AuditEvent[op], k>> \notin trail.entries
  <2>1. <<AuditEvent[op], k>> = <<AuditEvent[desk[s].op], desk[s].key>> /\ desk[s].at = "append"
    BY <1>2, TrailWriters
  <2>2. op = desk[s].op /\ k = desk[s].key
    BY <2>1, EventsDiffer DEF DesksOK, Knows
  <2>3. Due(s)
    BY <2>1, <2>2 DEF Due
  <2>4. IsSo(op, k)
    BY <2>2, <2>3 DEF DueIsSo
  <2> QED BY <2>4, SoStays
<1> QED BY <1>1, <1>2

(* Every entry of the trail is about something that is in the tables, or   *)
(* was until its key was removed: record() is the last call of a handler,  *)
(* and no other desk undoes what it speaks of before or after it (app.rs,  *)
(* store/mod.rs append_audit).                                             *)
THEOREM TrailStandsTrue == Spec => []TrailIsTrue
<1>1. Init => DueIsSo /\ TrailByOperation
  BY IdleKnows DEF Init, DueIsSo, Due, TrailByOperation
<1>2. RegisterInv /\ DueIsSo /\ TrailByOperation /\ [Next]_vars => DueIsSo' /\ TrailByOperation'
  <2> SUFFICES ASSUME RegisterInv, DueIsSo, TrailByOperation, [Next]_vars PROVE DueIsSo' /\ TrailByOperation'
    OBVIOUS
  <2>1. ASSUME NEW s \in Desks, Begin(s) \/ Step(s) \/ Fault(s) PROVE DueIsSo' /\ TrailByOperation'
    BY <2>1, DueInductive, TrailInductive DEF RegisterInv
  <2>2. CASE UNCHANGED vars \/ \E s \in Desks : Refresh(s)
    <3>1. UNCHANGED <<status, handOver, incident, trail, desk>>
      BY <2>2 DEF Refresh, vars
    <3> QED BY <3>1 DEF DueIsSo, Due, TrailByOperation, IsSo, Mentions, Open
  <2> QED BY <2>1, <2>2 DEF Next
<1> QED BY <1>1, <1>2, TrailSaysSo, RegisterInit, RegisterInductive, PTL DEF Spec
=============================================================================
