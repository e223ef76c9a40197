-------------------------------- MODULE Batch --------------------------------
(* A box of keys done in one sitting (batch/, app.rs): the batch counts and *)
(* keeps the positions, the wizard runs the procedure, and what became of   *)
(* each run is folded in as it ends.  Put down, it is resumed from what was *)
(* stored, by this workstation or another.                                  *)
EXTENDS FiniteSets, FiniteSetsExt, Naturals, Sequences

CONSTANTS BtDesks, Boxed,
          Lists,      \* pairing lists: sequences of [serial, holder], "none" where not given
          Expected,     \* how many keys a stock batch expects
          BtVersions,
          Rows, BtFaults  \* bounds: positions, and writes that fail, of either shape

ASSUME BatchAssumption == Expected \in Nat \ {0} /\ Rows \in Nat

VARIABLES box,       \* the batch as stored; its rows are keyed by position
          hand,      \* each workstation: the batch it has up, the key it is on, its wizard
          resumable, \* the unfinished batch as each workstation read it
          said,      \* batch.* and term.generated entries
          faults     \* writes that failed so far

batchVars == <<box, hand, resumable, said, faults>>

NoSerial == "none"
NoRun == [serial |-> NoSerial, version |-> NoSerial, ok |-> FALSE]
NoBox == [shape |-> "none", version |-> NoSerial, rows |-> {}, finished |-> FALSE]
NoHand == [current |-> NoBox, list |-> <<>>, position |-> 0, serial |-> NoSerial,
           version |-> NoSerial, run |-> NoRun, over |-> FALSE]

WaitingRow(at) == [at |-> at, serial |-> NoSerial, holder |-> NoSerial, state |-> "pending", run |-> NoRun]
Paired(list) == [i \in DOMAIN list |-> [WaitingRow(i) EXCEPT !.serial = list[i].serial, !.holder = list[i].holder]]
Stocked == [i \in 1..Expected |-> WaitingRow(i)]

(* batch_entries: the rows in the order of their positions.                 *)
InOrder(rows) == [n \in 1..Cardinality(rows) |->
                    CHOOSE row \in rows : Cardinality({r \in rows : r.at < row.at}) = n - 1]
RowsOf(list) == {list[i] : i \in DOMAIN list}
Open(list) == {i \in DOMAIN list : list[i].state = "pending"}
IsComplete(list) == Open(list) = {}
UnfinishedBatch(b) == IF IsComplete(InOrder(b.rows)) THEN NoBox ELSE b

BatchInit ==
  /\ box = NoBox /\ hand = [d \in BtDesks |-> NoHand] /\ said = {} /\ faults = 0
  /\ resumable = [d \in BtDesks |-> NoBox]

InHand(d) == hand[d].current # NoBox /\ ~hand[d].over
Hands(d, h) == hand' = [hand EXCEPT ![d] = h]
Reloads(d, b) == resumable' = [resumable EXCEPT ![d] = UnfinishedBatch(b)]
Quiet(d) == ~hand[d].over

(* write_batch_entry, by position; the database may refuse.                 *)
Written(b, row) == [b EXCEPT !.rows = {r \in @ : r.at # row.at} \cup {row}]
Writing(b, row) ==
  \/ box' = Written(b, row) /\ UNCHANGED faults
  \/ faults < BtFaults[b.shape] /\ box' = b /\ faults' = faults + 1
Wrote == faults' = faults

StartBatch(d, list, version) ==
  /\ Quiet(d) /\ hand[d].current = NoBox /\ box = NoBox
  /\ LET b == [shape |-> IF list = <<>> THEN "stock" ELSE "assigned", version |-> version,
               rows |-> RowsOf(IF list = <<>> THEN Stocked ELSE Paired(list)), finished |-> FALSE]
     IN box' = b /\ Hands(d, [hand[d] EXCEPT !.current = b, !.list = InOrder(b.rows),
                                             !.position = 0, !.version = version])
  /\ UNCHANGED <<resumable, said, faults>>

(* Mutant: a key that is in the batch already is given the next position.   *)
Places_Unseen(list, shape, k) ==
  LET free == {i \in Open(list) : list[i].serial = NoSerial}
  IN IF free # {} THEN {Min(free)} ELSE IF shape = "stock" THEN {Len(list) + 1} ELSE {}

(* present: where this key goes, if anywhere; a key that has a position     *)
(* keeps it, and one that was settled is a duplicate.                       *)
Places(list, shape, k) ==
  LET own == {i \in DOMAIN list : list[i].serial = k}
      free == {i \in Open(list) : list[i].serial = NoSerial}
  IN IF own # {} THEN {list[i].at : i \in own \cap Open(list)}
     ELSE IF free # {} THEN {Min(free)} ELSE IF shape = "stock" THEN {Len(list) + 1} ELSE {}
Given(list, i, k) == IF i \in DOMAIN list THEN [list EXCEPT ![i].serial = k]
                     ELSE Append(list, [WaitingRow(i) EXCEPT !.serial = k])
(* A position past the end of the list read is the program's panic.         *)
Present(d, k) ==
  /\ InHand(d)
  /\ \E i \in Places(hand[d].list, hand[d].current.shape, k) :
       LET list == Given(hand[d].list, i, k)
       IN /\ i <= Rows /\ Len(list) >= i /\ Writing(box, list[i])
          /\ Hands(d, IF Wrote THEN [hand[d] EXCEPT !.list = list, !.position = i, !.serial = k]
                       ELSE [hand[d] EXCEPT !.list = list])
  /\ UNCHANGED <<resumable, said>>

(* The wizard's own selection stays live beside the batch.                  *)
TypeAnother(d, k) ==
  /\ Quiet(d) /\ hand[d].serial # k /\ Hands(d, [hand[d] EXCEPT !.serial = k])
  /\ UNCHANGED <<box, resumable, said, faults>>
SelectAnother(d, version) ==
  /\ Quiet(d) /\ Hands(d, [hand[d] EXCEPT !.version = version])
  /\ UNCHANGED <<box, resumable, said, faults>>
StartsOver(d) ==
  /\ Quiet(d) /\ hand[d].run # NoRun /\ Hands(d, [hand[d] EXCEPT !.run = NoRun])
  /\ UNCHANGED <<box, resumable, said, faults>>

(* record: the outcome is that of the run the wizard shows.                 *)
OutcomeOf(run) == IF run.ok THEN "done" ELSE "failed"
Settled(list, i, run) == [list EXCEPT ![i].state = OutcomeOf(run), ![i].run = run]

(* drive_run, then record_batch_outcome if a position waits for one.  A run *)
(* that was refused leaves the run before it on the screen.                 *)
RunsOf(d) == {[serial |-> hand[d].serial, version |-> hand[d].version, ok |-> ok] : ok \in BOOLEAN}
              \cup {hand[d].run}
FoldIn(d) ==
  /\ Quiet(d) /\ hand[d].serial # NoSerial
  /\ \E run \in RunsOf(d) :
       LET i == hand[d].position  list == Settled(hand[d].list, i, run)  over == IsComplete(list)
           h == [hand[d] EXCEPT !.run = run]
       IN IF i = 0 THEN /\ Hands(d, h) /\ Reloads(d, box) /\ UNCHANGED <<box, said, faults>>
          ELSE /\ Writing(box, list[i])
               /\ said' = said \cup {<<list[i].state, list[i].serial, list[i].holder>>}
               /\ Hands(d, [h EXCEPT !.list = list, !.position = 0, !.over = over])
               /\ IF over THEN UNCHANGED resumable ELSE Reloads(d, box')

SkipKey(d) ==
  /\ InHand(d) /\ hand[d].position # 0
  /\ LET i == hand[d].position
         list == [hand[d].list EXCEPT ![i].state = "skipped"]
     IN /\ Writing(box, list[i])
        /\ Hands(d, [hand[d] EXCEPT !.list = list, !.position = 0, !.over = IsComplete(list)])
  /\ UNCHANGED <<resumable, said>>

(* finish_batch, once nothing is pending in the batch in hand; a run ends   *)
(* with the lists read again, a position passed over does not.              *)
FinishBatch(d) ==
  /\ hand[d].over
  /\ box' = [box EXCEPT !.finished = TRUE] /\ said' = said \cup {<<"finished", NoSerial, NoSerial>>}
  /\ Hands(d, [hand[d] EXCEPT !.over = FALSE])
  /\ Reloads(d, box) \/ UNCHANGED resumable
  /\ UNCHANGED faults

(* documents::plan: a term for each pair whose key is done.                 *)
Planned_Everyone(list) == {i \in DOMAIN list : list[i].serial # NoSerial /\ list[i].holder # NoSerial}
PlannedTerms(list) == {i \in DOMAIN list : list[i].state = "done" /\ list[i].serial # NoSerial
                                                                 /\ list[i].holder # NoSerial}
GenerateTerms(d) ==
  /\ InHand(d) /\ hand[d].current.shape = "assigned" /\ PlannedTerms(hand[d].list) # {}
  /\ said' = said \cup {<<"term", hand[d].list[i].serial, hand[d].list[i].holder>> :
                          i \in PlannedTerms(hand[d].list)}
  /\ UNCHANGED <<box, hand, resumable, faults>>

(* Mutant: the list of batches to resume is not read again.                 *)
ReadAgain_Not(d) == UNCHANGED resumable

ReadAgain(d) == Reloads(d, box)
CloseBatch(d) ==
  /\ InHand(d)
  /\ Hands(d, [hand[d] EXCEPT !.current = NoBox, !.list = <<>>, !.position = 0]) /\ ReadAgain(d)
  /\ UNCHANGED <<box, said, faults>>
(* The version of the batch is selected again; one that is no longer among  *)
(* those on offer is refused, and nothing changes.                          *)
ResumeBatch(d) ==
  /\ Quiet(d) /\ hand[d].current = NoBox /\ resumable[d] # NoBox
  /\ Hands(d, [hand[d] EXCEPT !.current = resumable[d], !.list = InOrder(resumable[d].rows),
                               !.position = 0, !.version = resumable[d].version])
  /\ UNCHANGED <<box, resumable, said, faults>>

RefreshBatches(d) ==
  /\ Quiet(d) /\ resumable[d] # UnfinishedBatch(box) /\ Reloads(d, box)
  /\ UNCHANGED <<box, hand, said, faults>>
BatchProgramEnds(d) ==
  /\ hand[d] # NoHand /\ Hands(d, NoHand) /\ Reloads(d, box)
  /\ UNCHANGED <<box, said, faults>>

BatchNext == \E d \in BtDesks :
  \/ \E list \in Lists \cup {<<>>}, version \in BtVersions : StartBatch(d, list, version)
  \/ \E k \in Boxed : Present(d, k) \/ TypeAnother(d, k)
  \/ \E version \in BtVersions : SelectAnother(d, version)
  \/ StartsOver(d) \/ FoldIn(d) \/ SkipKey(d) \/ FinishBatch(d) \/ GenerateTerms(d)
  \/ CloseBatch(d) \/ ResumeBatch(d) \/ RefreshBatches(d) \/ BatchProgramEnds(d)

BatchSpec == BatchInit /\ [][BatchNext]_batchVars
-----------------------------------------------------------------------------
(* No key has two positions, whatever is written, refused, put down and     *)
(* resumed (present), and a term is only generated for a key the trail says *)
(* was done, for the person it was paired with (documents.rs).              *)
KeyOnce == \A r, s \in box.rows : r.serial = s.serial /\ r.serial # NoSerial => r.at = s.at
TermsAreOfDone == \A e \in said : e[1] = "term" => <<"done", e[2], e[3]>> \in said
BoxIsTrue == KeyOnce /\ TermsAreOfDone

(* A key's place in the record is settled once (present: a duplicate is     *)
(* refused), across batches put down, resumed and begun again.              *)
BoxStands == [][\A r \in box.rows : r.state # "pending" => r \in box'.rows]_batchVars

(* "Position is stable: it is how a resumed batch lines up with what was    *)
(* written" (docs/data-model.md): a position that has a key stored keeps it.*)
PositionIsStable == [][\A r \in box.rows, s \in box'.rows :
    r.at = s.at /\ r.serial # NoSerial => s.serial = r.serial]_batchVars

(* What is folded in is "the run that just finished" (record_batch_outcome),*)
(* one on the key the wizard is on, and not the run of the key before; and  *)
(* the key the wizard is on is the position's.                              *)
FoldedIsLast == [][\A r \in box'.rows \ box.rows :
    r.state = "done" => r.run.serial \in {hand[d].serial : d \in BtDesks}]_batchVars
DoneIsItsKeys == \A r \in box.rows : r.state = "done" => r.run.serial = r.serial

(* The version is the one the whole box gets (docs/data-model.md).          *)
BoxGetsOne == \A r \in box.rows : r.run.ok => r.run.version = box.version

(* finished_at is set when nothing is left pending (docs/data-model.md).    *)
FinishedIsSaid == box # NoBox /\ (\A d \in BtDesks : Quiet(d)) /\ UnfinishedBatch(box) = NoBox
                    => box.finished
=============================================================================
