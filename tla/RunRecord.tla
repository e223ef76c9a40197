----------------------------- MODULE RunRecord -----------------------------
(***************************************************************************)
(* What the register promises about one procedure's runs: a run moves      *)
(* forward a step at a time, keeps what it has done, completes only with   *)
(* everything the procedure requires, and once closed is never reopened.   *)
(***************************************************************************)
CONSTANTS
  Runs,      \* ids of run rows
  Steps,     \* the steps of the procedure
  Needed,    \* those it cannot do without
  None       \* no row yet

VARIABLE row

Fresh == [i \in Steps |-> "Pending"]
Underway(r) == row[r] # None /\ row[r].status \in {"Running", "Failed"}
Row(status, steps) == [status |-> status, steps |-> steps]

Init == row = [r \in Runs |-> None]

Begin(r) ==
  /\ row[r] = None
  /\ row' = [row EXCEPT ![r] = Row("Running", Fresh)]

(* A dry run is filed as a plan, which can only be closed.                 *)
Plan(r) ==
  /\ row[r] = None
  /\ row' = [row EXCEPT ![r] = Row("Planned", [i \in Steps |-> "Skipped"])]

(* One step moves, and not one that is Done.                               *)
Progress(r) ==
  /\ Underway(r)
  /\ \E i \in Steps, status \in {"Running", "Done", "Failed", "Skipped"} :
       /\ row[r].steps[i] # "Done"
       /\ row' = [row EXCEPT ![r] = Row("Running", [row[r].steps EXCEPT ![i] = status])]

(* An interrupted or a failed run is taken up where it stopped.            *)
TakeUp(r) ==
  /\ Underway(r)
  /\ row' = [row EXCEPT ![r].status = "Running"]

Finish(r) ==
  /\ Underway(r)
  /\ \/ /\ \A i \in Needed : row[r].steps[i] = "Done"
        /\ row' = [row EXCEPT ![r].status = "Completed"]
     \/ row' = [row EXCEPT ![r].status = "Failed"]

Close(r) ==
  /\ Underway(r) \/ (row[r] # None /\ row[r].status = "Planned")
  /\ row' = [row EXCEPT ![r].status = "Aborted"]

Next == \E r \in Runs : Begin(r) \/ Plan(r) \/ Progress(r) \/ TakeUp(r) \/ Finish(r) \/ Close(r)

Spec == Init /\ [][Next]_row
=============================================================================
