---------------------------- MODULE KeyLifecycle ----------------------------
(***************************************************************************)
(* The life of one key as the domain defines it: the statuses, the moves   *)
(* between them, and which of those moves put the key in somebody else's   *)
(* hands and so need it sanitised first.  Pure operators only; the modules *)
(* that keep the register's state build on them.                           *)
(***************************************************************************)
EXTENDS Naturals

KeyStatus == {"InStock", "Bootstrapped", "Distributed", "Returned", "Lost", "Retired"}

(* The statuses a key may move to from each status.                        *)
Successors ==
  [InStock      |-> {"Bootstrapped", "Retired", "Lost"},
   Bootstrapped |-> {"Distributed", "InStock", "Retired", "Lost"},
   Distributed  |-> {"Returned", "Lost", "Retired"},
   Returned     |-> {"InStock", "Bootstrapped", "Distributed", "Retired"},
   Lost         |-> {"Returned", "Retired"},
   Retired      |-> {}]

CanTransition(from, to) == to \in Successors[from]

(* Staying put is never a transition and never refused.                    *)
MoveAllowed(from, to) == from = to \/ CanTransition(from, to)

(* The moves that hand a key on to somebody else: anything into stock, a   *)
(* second procedure on a key that is not fresh from stock, and a returned  *)
(* key handed straight out again.                                          *)
IsReissue(from, to) ==
  /\ from # to
  /\ \/ to = "InStock"
     \/ to = "Bootstrapped" /\ from # "InStock"
     \/ to = "Distributed" /\ from = "Returned"

(* The sanitised gate, given the applets a run wrote and nobody reset.     *)
GateAllows(from, to, outstanding) == IsReissue(from, to) => outstanding = {}
=============================================================================
