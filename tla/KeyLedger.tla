----------------------------- MODULE KeyLedger -----------------------------
(***************************************************************************)
(* What the register promises about a key, with every operation a single   *)
(* step: it moves only along the lifecycle table, and only a key with      *)
(* nothing outstanding on it is reissued.                                  *)
(***************************************************************************)
EXTENDS KeyLifecycle

CONSTANTS Serials, Applets
VARIABLES status, outstanding

Gone == {"absent", "removed"}

Init ==
  /\ status = [k \in Serials |-> "absent"]
  /\ outstanding = [k \in Serials |-> {}]

Enter(k) ==
  /\ status[k] = "absent"
  /\ status' = [status EXCEPT ![k] = "InStock"]
  /\ UNCHANGED outstanding

Remove(k) ==
  /\ status[k] \notin Gone
  /\ status' = [status EXCEPT ![k] = "removed"]
  /\ UNCHANGED outstanding

Move(k, next) ==
  /\ status[k] \notin Gone
  /\ CanTransition(status[k], next)
  /\ GateAllows(status[k], next, outstanding[k])
  /\ status' = [status EXCEPT ![k] = next]
  /\ UNCHANGED outstanding

Written(k, applets) ==
  /\ outstanding' = [outstanding EXCEPT ![k] = @ \cup applets]
  /\ UNCHANGED status

Cleared(k, applets) ==
  /\ outstanding' = [outstanding EXCEPT ![k] = @ \ applets]
  /\ UNCHANGED status

Next == \E k \in Serials :
  \/ Enter(k) \/ Remove(k)
  \/ \E next \in KeyStatus : Move(k, next)
  \/ \E applets \in SUBSET Applets : Written(k, applets) \/ Cleared(k, applets)

Spec == Init /\ [][Next]_<<status, outstanding>>
=============================================================================
