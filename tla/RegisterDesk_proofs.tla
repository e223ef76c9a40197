------------------------- MODULE RegisterDesk_proofs -------------------------
(***************************************************************************)
(* What the shared register keeps as long as one workstation has it open,  *)
(* whichever operations it performs, wherever they fail or are cut short.  *)
(* Each of these is lost between two desks.                                *)
(***************************************************************************)
EXTENDS Register_proofs

OneDesk == \A c, d \in Desks : c = d

Setting == {"setread", "setgate", "setupdate"}

(* The stages an operation goes through, and what it carries into them.    *)
Course(d) ==
  /\ d.at \in {"count", "delete"} => d.op = "remove"
  /\ d.at = "file" => d.op = "report"
  /\ d.op = "return" => d.at \in Setting \cup {"audit", "append"}
  /\ d.op = "close" => d.at \in {"audit", "append"}
  /\ d.op = "report" => d.at \in {"file", "audit", "append"}
  /\ d.op = "distribute" => d.at \in Setting \cup {"gate", "insert", "audit", "append"}
  /\ d.op = "return" /\ d.at \in Setting => d.next = "Returned"
  /\ d.at \in Setting => (d.next = "Distributed" <=> d.op = "distribute")

(* What it has asked is still so: nobody else writes.                      *)
StillSo(d) ==
  /\ d.at \in {"count", "delete", "file"} => HasRow(d.key)
  /\ d.at = "file" => MoveAllowed(status[d.key], "Lost")
  /\ d.at \in {"setgate", "setupdate"} =>
       d.seen = status[d.key] /\ HasRow(d.key) /\ MoveAllowed(d.seen, d.next)
  /\ d.at = "setupdate" => GateAllows(d.seen, d.next, outstanding[d.key])
  /\ d.op = "distribute" /\ d.at \in Setting =>
       d.id \in HandOvers /\ d.id \in Mentions(d.key) /\ Open(d.id)

TailIsRead(s) == desk[s].at = "append" => s \in trail.tail

Kept(s) == Course(desk[s]) /\ StillSo(desk[s]) /\ TailIsRead(s)

-----------------------------------------------------------------------------
(* The fields a step leaves alone.                                         *)
LEMMA GoToDesk ==
  ASSUME DesksOK, NEW s \in Desks, NEW stage \in Stages, GoTo(s, stage)
  PROVE  /\ desk'[s].at = stage /\ desk'[s].op = desk[s].op /\ desk'[s].key = desk[s].key
         /\ desk'[s].id = desk[s].id /\ desk'[s].seen = desk[s].seen /\ desk'[s].next = desk[s].next
<1>1. desk[s] \in DeskState
  BY DEF DesksOK
<1>2. desk'[s] = [desk[s] EXCEPT !.at = stage]
  BY DEF GoTo, DesksOK
<1> QED BY <1>1, <1>2 DEF DeskState

LEMMA IdleKeeps ==
  ASSUME NEW s \in Desks, desk'[s] = Idle
  PROVE  Course(desk'[s]) /\ StillSo(desk[s])' /\ TailIsRead(s)'
BY IdleKnows DEF Course, StillSo, TailIsRead, Setting

LEMMA GoIdleKeeps == ASSUME DesksOK, NEW s \in Desks, GoIdle(s) PROVE Kept(s)'
BY IdleKeeps DEF GoIdle, DesksOK, Kept

(* An operation that has only its entry left to write needs nothing more.  *)
LEMMA ToAuditKeeps ==
  ASSUME DesksOK, NEW s \in Desks, GoTo(s, "audit"), desk[s].at # "idle"
  PROVE  Kept(s)'
<1>1. "audit" \in Stages
  BY DEF Stages
<1>2. desk'[s].at = "audit"
  BY <1>1, GoToDesk
<1> QED BY <1>2 DEF Kept, Course, StillSo, TailIsRead, Setting

LEMMA RefusedKeeps ==
  ASSUME DesksOK, NEW s \in Desks, desk[s].at # "idle", SetRefused(s)
  PROVE  Kept(s)'
BY GoIdleKeeps, ToAuditKeeps DEF SetRefused

-----------------------------------------------------------------------------
LEMMA BeginKeeps ==
  ASSUME DesksOK, TablesOK, NEW s \in Desks, Begin(s)
  PROVE  Kept(s)'
<1>1. ASSUME NEW k \in Serials, AddAsk(s, k) \/ RunConfirm(s, k) \/ RecordSanitisation(s, k) PROVE Kept(s)'
  <2>1. /\ desk'[s].at \in {"insert", "start", "audit"} /\ desk'[s].op \in {"add", "run", "sanitise"}
    BY <1>1, BegunKnows DEF AddAsk, RunConfirm, RecordSanitisation, DesksOK, OpNames, Stages
  <2> QED BY <2>1 DEF Kept, Course, StillSo, TailIsRead, Setting
<1>2. ASSUME NEW k \in Serials, RemoveRead(s, k) PROVE Kept(s)'
  <2>1. desk'[s].op = "remove" /\ desk'[s].at = "count" /\ desk'[s].key = k
    BY <1>2, BegunKnows DEF RemoveRead, DesksOK, OpNames, Stages
  <2>2. HasRow(k)'
    BY <1>2 DEF RemoveRead, HasRow
  <2> QED BY <2>1, <2>2 DEF Kept, Course, StillSo, TailIsRead, Setting
<1>3. ASSUME NEW k \in Serials, Change(s, k) PROVE Kept(s)'
  <2>1. PICK next \in {"Bootstrapped", "InStock"} :
          desk' = [desk EXCEPT ![s] = [Begun("change", "setread", k) EXCEPT !.next = next]]
    BY <1>3 DEF Change, Offered
  <2>2. desk'[s].op = "change" /\ desk'[s].at = "setread" /\ desk'[s].next # "Distributed"
    BY <2>1 DEF DesksOK, Begun, Idle
  <2> QED BY <2>2 DEF Kept, Course, StillSo, TailIsRead, Setting
<1>4. ASSUME NEW k \in Serials, ResetKey(s, k) PROVE Kept(s)'
  <2>1. PICK cleared : desk' = [desk EXCEPT ![s] = [Begun("reset", "clear", k) EXCEPT !.applets = cleared]]
    BY <1>4 DEF ResetKey
  <2>2. desk'[s].op = "reset" /\ desk'[s].at = "clear"
    BY <2>1 DEF DesksOK, Begun, Idle
  <2> QED BY <2>2 DEF Kept, Course, StillSo, TailIsRead, Setting
<1>5. ASSUME NEW k \in Serials, NEW h \in HandOvers, DistributeAsk(s, k, h) PROVE Kept(s)'
  <2>1. desk'[s].op = "distribute" /\ desk'[s].at = "gate"
    BY <1>5 DEF DistributeAsk, DesksOK, Begun, Idle
  <2> QED BY <2>1 DEF Kept, Course, StillSo, TailIsRead, Setting
<1>6. ASSUME NEW k \in Serials, NEW i \in Incidents, ReportAsk(s, k, i) PROVE Kept(s)'
  <2>1. desk'[s].op = "report" /\ desk'[s].at = "file" /\ desk'[s].key = k
    BY <1>6 DEF ReportAsk, DesksOK, Begun, Idle
  <2>2. HasRow(k)' /\ MoveAllowed(status'[k], "Lost")
    BY <1>6 DEF ReportAsk, HasRow
  <2> QED BY <2>1, <2>2 DEF Kept, Course, StillSo, TailIsRead, Setting
<1>7. ASSUME NEW h \in HandOvers, ReturnMark(s, h) PROVE Kept(s)'
  <2>1. desk'[s].op = "return" /\ desk'[s].at = "setread" /\ desk'[s].next = "Returned"
    BY <1>7 DEF ReturnMark, DesksOK, Begun, Idle
  <2> QED BY <2>1 DEF Kept, Course, StillSo, TailIsRead, Setting
<1>8. ASSUME NEW i \in Incidents, CloseIncident(s, i) PROVE Kept(s)'
  <2>1. desk'[s].op = "close" /\ desk'[s].at = "audit"
    BY <1>8 DEF CloseIncident, DesksOK, Begun, Idle
  <2> QED BY <2>1 DEF Kept, Course, StillSo, TailIsRead, Setting
<1> QED BY <1>1, <1>2, <1>3, <1>4, <1>5, <1>6, <1>7, <1>8 DEF Begin

LEMMA StepKeeps ==
  ASSUME DesksOK, TablesOK, NEW s \in Desks, Kept(s), Step(s) \/ Fault(s)
  PROVE  Kept(s)'
<1> USE DEF At
<1>0. desk[s] \in DeskState /\ Knows(desk[s])
  BY DEF DesksOK
<1>1. CASE GoIdle(s)
  BY <1>1, GoIdleKeeps
<1>2. CASE GoTo(s, "audit") /\ desk[s].at # "idle"
  BY <1>2, ToAuditKeeps
<1>3. CASE RemoveCount(s) /\ GoTo(s, "delete")
  <2>1. desk'[s].at = "delete" /\ desk'[s].op = "remove" /\ desk'[s].key = desk[s].key /\ HasRow(desk[s].key)
    BY <1>3, GoToDesk DEF RemoveCount, Kept, Course, StillSo, Stages
  <2>2. HasRow(desk[s].key)'
    BY <1>3, <2>1 DEF RemoveCount, HasRow
  <2> QED BY <2>1, <2>2 DEF Kept, Course, StillSo, TailIsRead, Setting
<1>4. CASE DistributeGate(s) /\ GoTo(s, "insert")
  <2>1. desk'[s].at = "insert" /\ desk'[s].op = "distribute"
    BY <1>0, <1>4, GoToDesk DEF DistributeGate, Knows, Stages
  <2> QED BY <2>1 DEF Kept, Course, StillSo, TailIsRead, Setting
<1>5. CASE DistributeInsert(s) /\ GoTo(s, "setread")
  <2>1. /\ desk'[s].at = "setread" /\ desk'[s].op = "distribute" /\ desk'[s].key = desk[s].key
        /\ desk'[s].id = desk[s].id /\ desk'[s].next = "Distributed"
        /\ desk[s].id \in HandOvers /\ desk[s].key \in Serials
    BY <1>0, <1>5, GoToDesk DEF DistributeInsert, Knows, Stages
  <2>2. handOver'[desk[s].id] = [key |-> desk[s].key, back |-> None]
    BY <1>5, <2>1, <1>0 DEF DistributeInsert, GoIdle, Idle, TablesOK, DesksOK
  <2>3. handOver'[desk[s].id] # None
    BY <2>1, <2>2, RegisterAssumption
  <2>4. (desk[s].id \in Mentions(desk[s].key))' /\ Open(desk[s].id)'
    BY <2>1, <2>2, <2>3 DEF Mentions, Open
  <2> QED BY <2>1, <2>4 DEF Kept, Course, StillSo, TailIsRead, Setting
<1>6. CASE SetRead(s) /\ desk' = [desk EXCEPT ![s].at = "setgate", ![s].seen = status[desk[s].key]]
  <2>1. desk'[s] = [desk[s] EXCEPT !.at = "setgate", !.seen = status[desk[s].key]]
    BY <1>6 DEF DesksOK
  <2>2. /\ desk'[s].at = "setgate" /\ desk'[s].seen = status[desk[s].key] /\ desk'[s].op = desk[s].op
        /\ desk'[s].key = desk[s].key /\ desk'[s].id = desk[s].id /\ desk'[s].next = desk[s].next
    BY <1>0, <2>1 DEF DeskState
  <2>3. HasRow(desk[s].key) /\ MoveAllowed(status[desk[s].key], desk[s].next)
    <3>1. ~SetRefused(s)
      BY <1>0, <1>6, <2>2, IdleKnows, GoToDesk DEF SetRefused, GoIdle, DesksOK, Stages
    <3> QED BY <1>6, <3>1 DEF SetRead
  <2>4. UNCHANGED <<status, handOver, outstanding>>
    BY <1>6 DEF SetRead
  <2> QED BY <1>6, <2>2, <2>3, <2>4 DEF SetRead, Kept, Course, StillSo, TailIsRead, Setting, HasRow, Mentions, Open
<1>7. CASE SetGate(s) /\ GoTo(s, "setupdate") /\ GateAllows(desk[s].seen, desk[s].next, outstanding[desk[s].key])
  <2>1. /\ desk'[s].at = "setupdate" /\ desk'[s].seen = desk[s].seen /\ desk'[s].op = desk[s].op
        /\ desk'[s].key = desk[s].key /\ desk'[s].id = desk[s].id /\ desk'[s].next = desk[s].next
    BY <1>7, GoToDesk DEF Stages
  <2>2. UNCHANGED <<status, handOver, outstanding>>
    BY <1>7 DEF SetGate
  <2> QED BY <1>7, <2>1, <2>2 DEF SetGate, Kept, Course, StillSo, TailIsRead, Setting, HasRow, Mentions, Open
<1>8. CASE RunStart(s) \/ RunWrite(s) \/ RunRecord(s) \/ RunCompletes(s)
  <2>1. desk'[s].op = "run" /\ desk'[s].at \in {"write", "record", "settle"}
    <3>1. CASE RunStart(s)
      BY <1>0, <3>1 DEF RunStart, Knows, DesksOK, DeskState
    <3>2. CASE RunWrite(s)
      BY <1>0, <3>2 DEF RunWrite, Knows, DesksOK, DeskState
    <3>3. CASE RunRecord(s) \/ RunCompletes(s)
      BY <1>0, <3>3, GoToDesk DEF RunRecord, RunCompletes, Knows, Stages
    <3> QED BY <1>8, <3>1, <3>2, <3>3
  <2> QED BY <2>1 DEF Kept, Course, StillSo, TailIsRead, Setting
<1>9. CASE Settle(s) /\ desk' = [desk EXCEPT ![s].at = "setread", ![s].next = "Bootstrapped"]
  <2>1. desk'[s].op = "run" /\ desk'[s].at = "setread" /\ desk'[s].next = "Bootstrapped"
    BY <1>0, <1>9 DEF Settle, Knows, DesksOK, DeskState
  <2> QED BY <2>1 DEF Kept, Course, StillSo, TailIsRead, Setting
<1>10. CASE AuditRead(s)
  <2>1. desk'[s].at = "append" /\ desk'[s].op = desk[s].op /\ desk'[s].next = desk[s].next
    BY <1>10, GoToDesk DEF AuditRead, Stages
  <2>2. s \in trail'.tail
    BY <1>10 DEF AuditRead, TablesOK
  <2> QED BY <2>1, <2>2 DEF Kept, Course, StillSo, TailIsRead, Setting
<1>11. CASE SetRefused(s) /\ desk[s].at # "idle"
  BY <1>11, RefusedKeeps
<1>12. CASE Step(s)
  <2>1. CASE AddInsert(s) \/ RemoveCount(s) \/ RemoveDelete(s) \/ DistributeGate(s) \/ DistributeInsert(s)
    BY <1>1, <1>2, <1>3, <1>4, <1>5, <2>1
       DEF AddInsert, RemoveCount, RemoveDelete, DistributeGate, DistributeInsert
  <2>2. CASE SetRead(s) \/ SetGate(s) \/ SetUpdate(s)
    BY <1>2, <1>6, <1>7, <1>11, <2>2 DEF SetRead, SetGate, SetUpdate
  <2>3. CASE \/ RunStepFails(s) \/ Settle(s) \/ ReportFile(s) \/ RecordReset(s) \/ Audit(s)
    BY <1>1, <1>2, <1>9, <2>3 DEF RunStepFails, Settle, ReportFile, RecordReset, Audit
  <2> QED BY <1>8, <1>10, <1>12, <2>1, <2>2, <2>3 DEF Step
<1>13. CASE Fault(s)
  BY <1>1, <1>2, <1>13 DEF Fault, StoreFails, Crash, HalfDone
<1> QED BY <1>12, <1>13

-----------------------------------------------------------------------------
(* A key that is Distributed is with somebody, or its return is being      *)
(* taken in.                                                               *)
AtHand(k) == \E h \in Mentions(k) : Open(h)
Returning(s, k) == desk[s].op = "return" /\ desk[s].key = k /\ desk[s].at \in Setting

HeldOrComing ==
  \A k \in Serials \ torn : status[k] = "Distributed" => AtHand(k) \/ \E s \in Desks : Returning(s, k)

(* The only way to be Distributed is the hand-over just recorded.          *)
LEMMA HandedOver ==
  ASSUME DesksOK, TablesOK, NEW s \in Desks, Kept(s), Begin(s) \/ Step(s) \/ Fault(s),
         NEW k \in Serials, status[k] # "Distributed", status'[k] = "Distributed"
  PROVE  AtHand(k)'
<1>1. SetUpdate(s) /\ desk[s].key = k /\ desk[s].next = "Distributed"
  BY StatusWriters DEF AddInsert, RemoveDelete, SetUpdate, ReportFile, TablesOK
<1>2. desk[s].id \in Mentions(k) /\ Open(desk[s].id)
  BY <1>1 DEF SetUpdate, At, Kept, Course, StillSo, Setting
<1>3. handOver' = handOver
  BY <1>1 DEF SetUpdate
<1> QED BY <1>2, <1>3 DEF AtHand, Mentions, Open

(* A hand-over stays open until it is returned.                            *)
LEMMA AtHandUntilReturned ==
  ASSUME FreshIds, DesksOK, TablesOK, NEW s \in Desks, Begin(s) \/ Step(s) \/ Fault(s),
         NEW k \in Serials, AtHand(k)
  PROVE  AtHand(k)' \/ Returning(s, k)'
<1>1. PICK h \in HandOvers : handOver[h] # None /\ handOver[h].key = k /\ Open(h)
  BY DEF AtHand, Mentions
<1>2. CASE handOver'[h] = handOver[h]
  BY <1>1, <1>2 DEF AtHand, Mentions, Open
<1>3. CASE ReturnMark(s, h)
  <2>1. desk'[s].op = "return" /\ desk'[s].at = "setread" /\ desk'[s].key = k
    BY <1>1, <1>3 DEF ReturnMark, DesksOK, Begun, Idle
  <2> QED BY <2>1 DEF Returning, Setting
<1> QED BY <1>1, <1>2, <1>3, HandOverOnce

(* A return under way ends with the key Returned, or is cut short.         *)
LEMMA ReturnGoesThrough ==
  ASSUME DesksOK, TablesOK, NEW s \in Desks, Kept(s), Begin(s) \/ Step(s) \/ Fault(s),
         NEW k \in Serials \ torn', status[k] = "Distributed", status'[k] = "Distributed", Returning(s, k)
  PROVE  Returning(s, k)'
<1> USE DEF At
<1>0. desk[s].op = "return" /\ desk[s].key = k /\ desk[s].at \in Setting /\ desk[s].next = "Returned"
  BY DEF Returning, Kept, Course
<1>1. MoveAllowed("Distributed", "Returned") /\ GateAllows("Distributed", "Returned", outstanding[k])
  BY DEF MoveAllowed, CanTransition, Successors, GateAllows, IsReissue
<1>2. CASE Begin(s)
  <2>1. desk[s] = Idle
    BY <1>2, BeginShape DEF Starts
  <2> QED BY <1>0, <2>1, IdleKnows DEF Setting
<1>3. CASE Fault(s)
  <2>1. HalfDone(s)
    BY <1>0 DEF HalfDone, Setting
  <2> QED BY <1>0, <1>3, <2>1 DEF Fault, StoreFails, Crash, Tear
<1>4. CASE Step(s)
  <2>1. SetRead(s) \/ SetGate(s) \/ SetUpdate(s)
    BY <1>0, <1>4 DEF Step, Setting, AddInsert, RemoveCount, RemoveDelete, DistributeGate, DistributeInsert,
         RunStart, RunWrite, RunRecord, RunStepFails, RunCompletes, Settle, ReportFile, RecordReset, AuditRead, Audit
  <2>2. HasRow(k)
    BY DEF HasRow, NoRow
  <2>3. CASE SetRead(s)
    <3>1. desk' = [desk EXCEPT ![s].at = "setgate", ![s].seen = status[k]]
      BY <1>0, <1>1, <2>2, <2>3 DEF SetRead
    <3>2. desk'[s].op = desk[s].op /\ desk'[s].key = desk[s].key /\ desk'[s].at = "setgate"
      BY <3>1 DEF DesksOK, DeskState
    <3> QED BY <1>0, <3>2 DEF Returning, Setting
  <2>4. CASE SetGate(s)
    <3>1. desk[s].seen = "Distributed"
      BY <1>0, <2>4 DEF SetGate, Kept, StillSo
    <3>2. GoTo(s, "setupdate")
      BY <1>0, <1>1, <2>4, <3>1 DEF SetGate
    <3> QED BY <1>0, <3>2, GoToDesk DEF Returning, Setting, Stages
  <2>5. CASE SetUpdate(s)
    BY <1>0, <2>2, <2>5 DEF SetUpdate, TablesOK
  <2> QED BY <2>1, <2>3, <2>4, <2>5
<1> QED BY <1>2, <1>3, <1>4

LEMMA HeldInductive ==
  ASSUME OneDesk, HeldOrComing, FreshIds, DesksOK, TablesOK, NEW s \in Desks, Kept(s),
         Begin(s) \/ Step(s) \/ Fault(s)
  PROVE  HeldOrComing'
<1> SUFFICES ASSUME NEW k \in Serials \ torn', status'[k] = "Distributed"
             PROVE  AtHand(k)' \/ Returning(s, k)'
  BY DEF HeldOrComing
<1>1. k \notin torn
  BY TornGrows
<1>2. CASE status[k] # "Distributed"
  BY <1>2, HandedOver
<1>3. CASE status[k] = "Distributed"
  <2>1. AtHand(k) \/ Returning(s, k)
    BY <1>1, <1>3 DEF HeldOrComing, OneDesk
  <2> QED BY <1>3, <2>1, AtHandUntilReturned, ReturnGoesThrough
<1> QED BY <1>2, <1>3

-----------------------------------------------------------------------------
(* What is so and was not is due its entry; what is due has it when the    *)
(* handler ends, or was cut short.                                         *)
Pending(s, op, k) == Due(s) /\ desk[s].op = op /\ desk[s].key = k

SaidOrDue ==
  \A k \in Serials \ torn, op \in Told :
    IsSo(op, k) => <<AuditEvent[op], k>> \in trail.entries \/ \E s \in Desks : Pending(s, op, k)

LEMMA Inserted ==
  ASSUME DesksOK, TablesOK, NEW s \in Desks, DistributeInsert(s), handOver' # handOver
  PROVE  /\ handOver'[desk[s].id].key = desk[s].key /\ handOver'[desk[s].id].back = None
         /\ desk'[s].op = "distribute" /\ desk'[s].at = "setread" /\ desk'[s].key = desk[s].key
<1>1. desk[s].op = "distribute" /\ desk[s].id \in HandOvers
  BY DEF DistributeInsert, At, DesksOK, Knows
<1>2. handOver'[desk[s].id] = [key |-> desk[s].key, back |-> None]
  BY <1>1 DEF DistributeInsert, TablesOK
<1> QED BY <1>1, <1>2, GoToDesk DEF DistributeInsert, Stages

LEMMA MarkedBack ==
  ASSUME DesksOK, TablesOK, NEW s \in Desks, NEW h \in HandOvers, ReturnMark(s, h)
  PROVE  /\ handOver[h] # None /\ handOver'[h].key = handOver[h].key
         /\ desk'[s].op = "return" /\ desk'[s].at = "setread" /\ desk'[s].key = handOver[h].key
<1>1. handOver[h] \in [key : Serials, back : Desks \cup {None}]
  BY DEF ReturnMark, Open, TablesOK
<1>2. handOver'[h] = [handOver[h] EXCEPT !.back = s]
  BY DEF ReturnMark, TablesOK
<1> QED BY <1>1, <1>2 DEF ReturnMark, Open, DesksOK, Begun, Idle

LEMMA Filed ==
  ASSUME DesksOK, TablesOK, NEW s \in Desks, ReportFile(s)
  PROVE  /\ desk[s].id \in Incidents /\ desk[s].key \in Serials
         /\ incident'[desk[s].id].key = desk[s].key /\ incident'[desk[s].id].closed = None
         /\ desk'[s].at = "audit" /\ desk'[s].key = desk[s].key /\ desk'[s].op = desk[s].op
<1>1. desk[s].id \in Incidents /\ desk[s].key \in Serials
  BY DEF ReportFile, At, DesksOK, Knows
<1>2. incident'[desk[s].id] = [key |-> desk[s].key, closed |-> None]
  BY <1>1 DEF ReportFile, TablesOK
<1> QED BY <1>1, <1>2, GoToDesk DEF ReportFile, Stages

LEMMA MarkedClosed ==
  ASSUME DesksOK, TablesOK, NEW s \in Desks, NEW i \in Incidents, CloseIncident(s, i)
  PROVE  /\ incident[i] # None /\ incident'[i].key = incident[i].key
         /\ desk'[s].op = "close" /\ desk'[s].at = "audit" /\ desk'[s].key = incident[i].key
<1>1. incident[i] \in [key : Serials, closed : Desks \cup {None}]
  BY DEF CloseIncident, TablesOK
<1>2. incident'[i] = [incident[i] EXCEPT !.closed = s]
  BY DEF CloseIncident, TablesOK
<1> QED BY <1>1, <1>2 DEF CloseIncident, DesksOK, Begun, Idle

LEMMA SoArises ==
  ASSUME FreshIds, DesksOK, TablesOK, NEW s \in Desks, Kept(s), Begin(s) \/ Step(s) \/ Fault(s),
         NEW k \in Serials, NEW op \in Told, ~IsSo(op, k), IsSo(op, k)'
  PROVE  Pending(s, op, k)'
<1> USE RegisterAssumption DEF At
<1>0. desk[s] \in DeskState /\ Knows(desk[s])
  BY DEF DesksOK
<1>1. CASE op = "remove"
  <2>1. RemoveDelete(s) /\ desk[s].key = k /\ GoTo(s, "audit")
    <3>1. status[k] # "removed" /\ status'[k] = "removed"
      BY <1>1 DEF IsSo
    <3>2. ASSUME SetUpdate(s) PROVE FALSE
      <4>1. desk[s].next \in KeyStatus
        BY <1>0, <3>2 DEF SetUpdate, Knows
      <4> QED BY <3>1, <3>2, <4>1 DEF SetUpdate, TablesOK, KeyStatus
    <3>3. RemoveDelete(s)
      BY <3>1, <3>2, StatusWriters DEF AddInsert, ReportFile, TablesOK
    <3> QED BY <3>1, <3>3 DEF RemoveDelete, TablesOK
  <2>2. desk[s].op = "remove"
    BY <2>1 DEF RemoveDelete, Kept, Course
  <2> QED BY <1>1, <2>1, <2>2, GoToDesk DEF Pending, Due, Stages
<1>2. CASE op = "distribute"
  <2>1. PICK h \in HandOvers : handOver'[h] # None /\ handOver'[h].key = k
    BY <1>2 DEF IsSo, Mentions
  <2>2. ~(handOver[h] # None /\ handOver[h].key = k)
    BY <1>2 DEF IsSo, Mentions
  <2>3. DistributeInsert(s) /\ h = desk[s].id /\ handOver' # handOver
    BY <2>1, <2>2, HandOverOnce, MarkedBack
  <2>4. handOver'[h].key = desk[s].key
    BY <2>3, Inserted
  <2> QED BY <1>2, <2>1, <2>3, <2>4, Inserted DEF Pending, Due
<1>3. CASE op = "return"
  <2>1. PICK h \in HandOvers : handOver'[h] # None /\ handOver'[h].key = k /\ handOver'[h].back # None
    BY <1>3 DEF IsSo, Mentions, Open
  <2>2. ~(handOver[h] # None /\ handOver[h].key = k /\ handOver[h].back # None)
    BY <1>3 DEF IsSo, Mentions, Open
  <2>3. ASSUME DistributeInsert(s), h = desk[s].id, handOver' # handOver PROVE FALSE
    BY <2>1, <2>3, Inserted
  <2>4. ReturnMark(s, h)
    BY <2>1, <2>2, <2>3, HandOverOnce
  <2> QED BY <1>3, <2>1, <2>4, MarkedBack DEF Pending, Due
<1>4. CASE op = "report"
  <2>1. PICK i \in Incidents : incident'[i] # None /\ incident'[i].key = k
    BY <1>4 DEF IsSo
  <2>2. ~(incident[i] # None /\ incident[i].key = k)
    BY <1>4 DEF IsSo
  <2>3. ReportFile(s) /\ i = desk[s].id
    BY <2>1, <2>2, IncidentOnce, MarkedClosed
  <2>4. desk[s].op = "report"
    BY <2>3, <1>0 DEF ReportFile, Kept, Course, Knows
  <2> QED BY <1>4, <2>1, <2>3, <2>4, Filed DEF Pending, Due
<1>5. CASE op = "close"
  <2>1. PICK i \in Incidents : incident'[i] # None /\ incident'[i].key = k /\ incident'[i].closed # None
    BY <1>5 DEF IsSo
  <2>2. ~(incident[i] # None /\ incident[i].key = k /\ incident[i].closed # None)
    BY <1>5 DEF IsSo
  <2>3. CloseIncident(s, i)
    BY <2>1, <2>2, IncidentOnce, Filed
  <2> QED BY <1>5, <2>1, <2>3, MarkedClosed DEF Pending, Due
<1> QED BY <1>1, <1>2, <1>3, <1>4, <1>5 DEF Told

(* An entry is appended with the reading of the last row still current.    *)
LEMMA DueIsSaid ==
  ASSUME DesksOK, TablesOK, NEW s \in Desks, Kept(s), Begin(s) \/ Step(s) \/ Fault(s),
         NEW k \in Serials \ torn', NEW op \in Told, Pending(s, op, k)
  PROVE  <<AuditEvent[op], k>> \in trail'.entries \/ Pending(s, op, k)'
<1> USE DEF At
<1>0. desk[s] \in DeskState /\ Knows(desk[s]) /\ Due(s) /\ desk[s].op = op /\ desk[s].key = k
  BY DEF DesksOK, Pending
<1>1. desk[s].at \in {"audit", "append"} \cup Setting
  BY <1>0 DEF Due, Kept, Course, Told
<1>2. op \notin {"return", "distribute"} => desk[s].at \in {"audit", "append"}
  BY <1>0 DEF Due, Kept, Course, Told
<1>3. CASE Begin(s)
  <2>1. desk[s] = Idle
    BY <1>3, BeginShape DEF Starts
  <2> QED BY <1>1, <2>1, IdleKnows DEF Setting
<1>4. CASE Fault(s)
  <2>1. HalfDone(s)
    BY <1>0, <1>1 DEF HalfDone, Setting, Told
  <2> QED BY <1>0, <1>4, <2>1 DEF Fault, StoreFails, Crash, Tear
<1>5. CASE Step(s) /\ desk[s].at \in Setting
  <2>1. op \in {"return", "distribute"}
    BY <1>2, <1>5 DEF Setting
  <2>2. SetRead(s) \/ SetGate(s) \/ SetUpdate(s)
    BY <1>0, <1>5, <2>1 DEF Step, Setting, AddInsert, RemoveCount, RemoveDelete, DistributeGate, DistributeInsert,
         RunStart, RunWrite, RunRecord, RunStepFails, RunCompletes, Settle, ReportFile, RecordReset, AuditRead, Audit
  <2>3. desk'[s].op = op /\ desk'[s].key = k /\ desk'[s].at \in {"setgate", "setupdate", "audit"}
    <3>1. CASE desk' = [desk EXCEPT ![s].at = "setgate", ![s].seen = status[desk[s].key]]
      BY <1>0, <3>1 DEF DesksOK, DeskState
    <3>2. CASE \E stage \in {"setupdate", "audit"} : GoTo(s, stage)
      BY <1>0, <3>2, GoToDesk DEF Stages
    <3> QED BY <1>0, <2>1, <2>2, <3>1, <3>2 DEF SetRead, SetGate, SetUpdate, SetRefused
  <2> QED BY <2>1, <2>3 DEF Pending, Due
<1>6. CASE Step(s) /\ desk[s].at = "audit"
  <2>1. AuditRead(s)
    BY <1>0, <1>6 DEF Step, AddInsert, RemoveCount, RemoveDelete, DistributeGate, DistributeInsert,
         SetRead, SetGate, SetUpdate,
         RunStart, RunWrite, RunRecord, RunStepFails, RunCompletes, Settle, ReportFile, RecordReset, Audit
  <2>2. desk'[s].op = op /\ desk'[s].key = k /\ desk'[s].at = "append"
    BY <1>0, <2>1, GoToDesk DEF AuditRead, Stages
  <2> QED BY <2>2 DEF Pending, Due
<1>7. CASE Step(s) /\ desk[s].at = "append"
  <2>1. Audit(s)
    BY <1>0, <1>7 DEF Step, AddInsert, RemoveCount, RemoveDelete, DistributeGate, DistributeInsert,
         SetRead, SetGate, SetUpdate,
         RunStart, RunWrite, RunRecord, RunStepFails, RunCompletes, Settle, ReportFile, RecordReset, AuditRead
  <2>2. s \in trail.tail
    BY <1>7 DEF Kept, TailIsRead
  <2>3. trail'.entries = trail.entries \cup {<<AuditEvent[op], k>>}
    BY <1>0, <2>1, <2>2 DEF Audit
  <2> QED BY <2>3
<1> QED BY <1>1, <1>3, <1>4, <1>5, <1>6, <1>7

LEMMA SaidInductive ==
  ASSUME OneDesk, SaidOrDue, FreshIds, DesksOK, TablesOK, NEW s \in Desks, Kept(s),
         Begin(s) \/ Step(s) \/ Fault(s)
  PROVE  SaidOrDue'
<1> SUFFICES ASSUME NEW k \in Serials \ torn', NEW op \in Told, IsSo(op, k)'
             PROVE  <<AuditEvent[op], k>> \in trail'.entries \/ Pending(s, op, k)'
  BY DEF SaidOrDue
<1>1. k \notin torn
  BY TornGrows
<1>2. CASE ~IsSo(op, k)
  BY <1>2, SoArises
<1>3. CASE <<AuditEvent[op], k>> \in trail.entries
  BY <1>3, TrailWriters
<1>4. CASE Pending(s, op, k)
  BY <1>4, DueIsSaid
<1> QED BY <1>1, <1>2, <1>3, <1>4 DEF SaidOrDue, OneDesk

-----------------------------------------------------------------------------
(* The inductive invariant of the only desk.                               *)
SoloInv ==
  /\ RegisterInv /\ ResidueInv
  /\ \A s \in Desks : Kept(s)
  /\ HeldOrComing /\ SaidOrDue

LEMMA SoloInit == Init => SoloInv
<1> SUFFICES ASSUME Init PROVE SoloInv
  OBVIOUS
<1>1. ResidueInv
  BY IdleKnows, RegisterAssumption
     DEF Init, ResidueInv, OnePort, ResidueTracked, ResetIsClean, UsesHardware
<1>2. \A s \in Desks : Kept(s)
  BY IdleKnows DEF Init, Kept, Course, StillSo, TailIsRead, Setting
<1>3. HeldOrComing /\ SaidOrDue
  BY DEF Init, HeldOrComing, SaidOrDue, IsSo, Mentions, Told
<1> QED BY <1>1, <1>2, <1>3, RegisterInit DEF SoloInv

LEMMA SoloInductive == ASSUME OneDesk, SoloInv, [Next]_vars PROVE SoloInv'
<1>1. RegisterInv'
  BY RegisterInductive DEF SoloInv
<1>2. ASSUME NEW s \in Desks, Begin(s) \/ Step(s) \/ Fault(s) PROVE SoloInv'
  <2> USE DEF SoloInv, RegisterInv
  <2>1. ResidueInv'
    BY <1>2, OnePortInductive, ResetCleanInductive, ResidueInductive DEF ResidueInv
  <2>2. Kept(s)'
    BY <1>2, BeginKeeps, StepKeeps
  <2>3. \A d \in Desks : Kept(d)'
    BY <2>2 DEF OneDesk
  <2>4. HeldOrComing' /\ SaidOrDue'
    BY <1>2, HeldInductive, SaidInductive
  <2> QED BY <1>1, <2>1, <2>3, <2>4
<1>3. CASE UNCHANGED vars \/ \E s \in Desks : Refresh(s)
  <2>1. UNCHANGED <<status, handOver, incident, outstanding, trail, onKey, desk, torn>>
    BY <1>3 DEF Refresh, vars
  <2>2. ResidueInv'
    BY <2>1 DEF SoloInv, ResidueInv, OnePort, ResidueTracked, ResetIsClean, UsesHardware, Recording
  <2>3. (\A s \in Desks : Kept(s))'
    BY <2>1 DEF SoloInv, Kept, Course, StillSo, TailIsRead, HasRow, Mentions, Open
  <2>4. HeldOrComing' /\ SaidOrDue'
    BY <2>1 DEF SoloInv, HeldOrComing, AtHand, Returning, SaidOrDue, Pending, Due, IsSo, Mentions, Open
  <2> QED BY <1>1, <2>2, <2>3, <2>4 DEF SoloInv
<1> QED BY <1>2, <1>3 DEF Next

LEMMA SoloStands == ASSUME OneDesk PROVE Spec => []SoloInv
<1>1. SoloInv /\ [Next]_vars => SoloInv'
  BY SoloInductive
<1> QED BY <1>1, SoloInit, PTL DEF Spec

(* At a single desk a key on the register as Distributed is in somebody's  *)
(* hands, unless its return is under way or was cut short between the      *)
(* record and the status: record first, status after (app.rs               *)
(* submit_distribution, store/mod.rs mark_returned).                       *)
THEOREM DistributedIsHeldAtOneDesk == ASSUME OneDesk PROVE Spec => []DistributedIsHeld
<1>1. SoloInv => DistributedIsHeld
  BY DEF SoloInv, HeldOrComing, AtHand, Returning, DistributedIsHeld
<1> QED BY <1>1, SoloStands, PTL

(* And the trail leaves nothing out: no hand-over, return, loss or removal *)
(* that was not cut short lacks its entry (app.rs record, store/mod.rs     *)
(* append_audit).                                                          *)
THEOREM TrailIsCompleteAtOneDesk == ASSUME OneDesk PROVE Spec => []TrailIsComplete
<1>1. ASSUME SoloInv, NEW k \in Serials \ torn, \A s \in Desks : desk[s].key # k, NEW op \in Told, IsSo(op, k)
      PROVE  <<AuditEvent[op], k>> \in trail.entries
  BY <1>1 DEF SoloInv, SaidOrDue, Pending
<1>2. ASSUME SoloInv, NEW k \in Serials \ torn, \A s \in Desks : desk[s].key # k
      PROVE  /\ status[k] = "removed" => <<"key.removed", k>> \in trail.entries
             /\ Mentions(k) # {} => <<"key.distributed", k>> \in trail.entries
             /\ (\E h \in Mentions(k) : ~Open(h)) => <<"key.returned", k>> \in trail.entries
             /\ status[k] = "Lost" => <<"key.reported_lost", k>> \in trail.entries
  <2>1. status[k] = "removed" => <<"key.removed", k>> \in trail.entries
    BY <1>1, <1>2, EventNames DEF IsSo, Told
  <2>2. Mentions(k) # {} => <<"key.distributed", k>> \in trail.entries
    BY <1>1, <1>2, EventNames DEF IsSo, Told
  <2>3. (\E h \in Mentions(k) : ~Open(h)) => <<"key.returned", k>> \in trail.entries
    BY <1>1, <1>2, EventNames DEF IsSo, Told
  <2>4. status[k] = "Lost" => <<"key.reported_lost", k>> \in trail.entries
    BY <1>1, <1>2, EventNames DEF IsSo, Told, SoloInv, RegisterInv, LostIsReported
  <2> QED BY <2>1, <2>2, <2>3, <2>4
<1>3. SoloInv => TrailIsComplete
  BY <1>2 DEF TrailIsComplete
<1> QED BY <1>3, SoloStands, PTL

-----------------------------------------------------------------------------
(* A status that is written is the one asked about, and the gate's answer  *)
(* still stands.                                                           *)
LEMMA MovesAsAsked ==
  ASSUME SoloInv, NEW s \in Desks, SetUpdate(s)
  PROVE  /\ desk[s].key \in Serials /\ HasRow(desk[s].key) /\ desk[s].next \in KeyStatus
         /\ status' = [status EXCEPT ![desk[s].key] = desk[s].next]
         /\ MoveAllowed(status[desk[s].key], desk[s].next)
         /\ GateAllows(status[desk[s].key], desk[s].next, outstanding[desk[s].key])
<1>1. Kept(s) /\ Knows(desk[s]) /\ desk[s].at = "setupdate"
  BY DEF SoloInv, RegisterInv, DesksOK, SetUpdate, At
<1>2. HasRow(desk[s].key)
  BY <1>1 DEF Kept, StillSo
<1> QED BY <1>1, <1>2 DEF Kept, StillSo, Knows, SetUpdate

LEMMA LedgerStep ==
  ASSUME OneDesk, SoloInv, [Next]_vars
  PROVE  [Ledger!Next]_<<status, outstanding>>
<1> USE DEF Ledger!Next
<1>0. TablesOK /\ DesksOK
  BY DEF SoloInv, RegisterInv
<1>1. ASSUME NEW s \in Desks, AddInsert(s) PROVE Ledger!Next \/ UNCHANGED <<status, outstanding>>
  <2>1. desk[s].key \in Serials
    BY <1>0, <1>1 DEF AddInsert, At, DesksOK, Knows
  <2> QED BY <1>1, <2>1 DEF AddInsert, Ledger!Enter
<1>2. ASSUME NEW s \in Desks, RemoveDelete(s) PROVE Ledger!Next \/ UNCHANGED <<status, outstanding>>
  <2>1. desk[s].key \in Serials /\ HasRow(desk[s].key)
    BY <1>0, <1>2 DEF RemoveDelete, At, DesksOK, Knows, SoloInv, Kept, StillSo
  <2> QED BY <1>2, <2>1 DEF RemoveDelete, Ledger!Remove, Ledger!Gone, HasRow, NoRow
<1>3. ASSUME NEW s \in Desks, SetUpdate(s) PROVE Ledger!Next \/ UNCHANGED <<status, outstanding>>
  <2> DEFINE k == desk[s].key  next == desk[s].next
  <2>1. /\ k \in Serials /\ HasRow(k) /\ next \in KeyStatus /\ status' = [status EXCEPT ![k] = next]
        /\ MoveAllowed(status[k], next) /\ GateAllows(status[k], next, outstanding[k]) /\ outstanding' = outstanding
    BY <1>3, MovesAsAsked DEF SetUpdate
  <2> HIDE DEF k, next
  <2>2. CASE status[k] = next
    BY <1>0, <2>1, <2>2 DEF TablesOK
  <2>3. CASE status[k] # next
    <3>1. Ledger!Move(k, next)
      BY <2>1, <2>3 DEF Ledger!Move, Ledger!Gone, HasRow, NoRow, MoveAllowed, CanTransition,
         Ledger!CanTransition, Ledger!Successors, Successors, GateAllows, Ledger!GateAllows, IsReissue, Ledger!IsReissue
    <3> QED BY <2>1, <3>1 DEF KeyStatus, Ledger!KeyStatus
  <2> QED BY <2>2, <2>3
<1>4. ASSUME NEW s \in Desks, ReportFile(s) PROVE Ledger!Next \/ UNCHANGED <<status, outstanding>>
  <2> DEFINE k == desk[s].key
  <2>1. k \in Serials /\ HasRow(k) /\ MoveAllowed(status[k], "Lost")
    BY <1>0, <1>4 DEF ReportFile, At, DesksOK, Knows, SoloInv, Kept, StillSo
  <2>2. status' = [status EXCEPT ![k] = "Lost"] /\ outstanding' = outstanding
    BY <1>4, <2>1 DEF ReportFile
  <2> HIDE DEF k
  <2>3. CASE status[k] = "Lost"
    BY <1>0, <2>1, <2>2, <2>3 DEF TablesOK
  <2>4. CASE status[k] # "Lost"
    <3>1. Ledger!Move(k, "Lost")
      BY <2>1, <2>2, <2>4 DEF Ledger!Move, Ledger!Gone, HasRow, NoRow, MoveAllowed, CanTransition,
         Ledger!CanTransition, Ledger!Successors, Successors, Ledger!GateAllows, Ledger!IsReissue
    <3> QED BY <2>1, <3>1 DEF Ledger!KeyStatus
  <2> QED BY <2>3, <2>4
<1>5. ASSUME NEW s \in Desks, RunRecord(s) \/ RecordReset(s) PROVE Ledger!Next
  <2>1. desk[s].key \in Serials /\ desk[s].applets \in SUBSET Applets
    BY <1>0, <1>5 DEF RunRecord, RecordReset, At, DesksOK, Knows, DeskState
  <2> QED BY <1>5, <2>1 DEF RunRecord, RecordReset, Ledger!Written, Ledger!Cleared
<1>6. ASSUME NEW s \in Desks, NEW k \in Serials, RecordSanitisation(s, k) PROVE Ledger!Next
  <2>1. PICK cleared \in SUBSET Applets : outstanding' = [outstanding EXCEPT ![k] = @ \ cleared]
    BY <1>6 DEF RecordSanitisation
  <2> QED BY <1>6, <2>1 DEF RecordSanitisation, Ledger!Cleared
<1>7. ASSUME NEW s \in Desks, Begin(s) \/ Step(s) \/ Fault(s) PROVE Ledger!Next \/ UNCHANGED <<status, outstanding>>
  BY <1>1, <1>2, <1>3, <1>4, <1>5, <1>6, <1>7, StatusWriters, OutstandingWriters
<1>8. CASE UNCHANGED vars \/ \E s \in Desks : Refresh(s)
  BY <1>8 DEF Refresh, vars
<1> QED BY <1>7, <1>8 DEF Next

(* The several statements of an operation add up to one lawful, gated step *)
(* of the ledger, or to none, wherever they are cut short (store/mod.rs    *)
(* set_key_status, settle_key_status, delete_key, report_incident).        *)
THEOREM LedgerIsKept == ASSUME OneDesk PROVE Spec => KeepsTheLedger
<1>1. Init => Ledger!Init
  BY DEF Init, Ledger!Init
<1>2. SoloInv /\ [Next]_vars => [Ledger!Next]_<<status, outstanding>>
  BY LedgerStep
<1> QED BY <1>1, <1>2, SoloStands, PTL DEF Spec, KeepsTheLedger, Ledger!Spec

(* No key goes to somebody else with what a run put on it: the gate asks   *)
(* the record, and the record holds whatever is on the key.                *)
THEOREM ReissueIsCleanAtOneDesk == ASSUME OneDesk PROVE Spec => ReissueIsClean
<1>1. ASSUME SoloInv, [Next]_vars, NEW k \in Serials, HasRow(k), IsReissue(status[k], status'[k]), k \notin torn
      PROVE  onKey[k] = {}
  <2>1. PICK s \in Desks : Begin(s) \/ Step(s) \/ Fault(s)
    BY <1>1 DEF Next, vars, Refresh, IsReissue
  <2>2. SetUpdate(s)
    BY <1>1, <2>1, StatusWriters DEF AddInsert, RemoveDelete, ReportFile, IsReissue, SoloInv, RegisterInv, TablesOK, HasRow, NoRow
  <2>3. desk[s].key = k /\ outstanding[k] = {}
    BY <1>1, <2>2, MovesAsAsked DEF SoloInv, RegisterInv, TablesOK, GateAllows, IsReissue
  <2>4. \A d \in Desks : desk[d].at = "setupdate"
    BY <2>2 DEF OneDesk, SetUpdate, At
  <2> QED BY <1>1, <2>3, <2>4 DEF SoloInv, ResidueInv, ResidueTracked, Recording
<1>2. SoloInv /\ [Next]_vars =>
        [\A k \in Serials : HasRow(k) /\ IsReissue(status[k], status'[k]) /\ k \notin torn => onKey[k] = {}]_vars
  BY <1>1
<1> QED BY <1>2, SoloStands, PTL DEF Spec, ReissueIsClean
=============================================================================
