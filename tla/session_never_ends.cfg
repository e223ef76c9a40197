SPECIFICATION AuthSpec
CONSTANTS
  Desks = {d1, d2}
  Names = {ana, bob}
  Split = FALSE
  Window = 1
  LockAfter = 1
  TimeoutAfter = 2
  First = 1
  Second = 2
  Third = 3
  Budgets <- GuessOrManage
  Nobody = Nobody
  Absent = Absent
INVARIANT IdleSessionEnds
SYMMETRY Sym
CHECK_DEADLOCK FALSE
