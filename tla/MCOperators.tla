----------------------------- MODULE MCOperators -----------------------------
(* Two workstations and two names.  The first budget is for one desk that   *)
(* guesses, the second for two that manage each other's accounts.           *)
EXTENDS OperatorAuth, TLC

GuessOrManage == {[open |-> 1, enrol |-> 1, rule |-> 0, guess |-> 8],
                  [open |-> 2, enrol |-> 2, rule |-> 1, guess |-> 0]}
Sym == Permutations(Desks) \cup Permutations(Names)
=============================================================================
