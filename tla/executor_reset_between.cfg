SPECIFICATION Spec
CONSTANTS
  Reports = TRUE
  LostReplies = FALSE
  HalfWrites = FALSE
  Desks = {d1}
  Runs = {r1}
  Procedure <- Whole
  Budget = 2
  Ops = {"run", "resume", "reset"}
  Faults = {}
  None = None
INVARIANT CompletedIsOnTheKey
CHECK_DEADLOCK FALSE
