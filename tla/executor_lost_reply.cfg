SPECIFICATION Spec
CONSTANTS
  Reports = TRUE
  LostReplies = TRUE
  HalfWrites = FALSE
  Desks = {d1}
  Runs = {r1}
  Procedure <- Signing
  Budget = 2
  Ops = {"run"}
  Faults = {}
  None = None
INVARIANT SkippedWroteNothing
CHECK_DEADLOCK FALSE
