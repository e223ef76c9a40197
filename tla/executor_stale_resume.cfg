SPECIFICATION Spec
CONSTANTS
  Reports = TRUE
  LostReplies = TRUE
  HalfWrites = FALSE
  Desks = {d1}
  Runs = {r1}
  Procedure <- Mixed
  Budget = 2
  Ops = {"run", "resume"}
  Faults = {"io"}
  None = None
PROPERTY DoneStands
CHECK_DEADLOCK FALSE
