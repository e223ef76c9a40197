SPECIFICATION Spec
CONSTANTS
  Reports = TRUE
  LostReplies = TRUE
  HalfWrites = FALSE
  Desks = {d1}
  Runs = {r1}
  Procedure <- Managed
  Budget = 1
  Ops = {"run", "resume"}
  Faults = {}
  None = None
PROPERTY RequestStands
CHECK_DEADLOCK FALSE
