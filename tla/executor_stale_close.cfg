SPECIFICATION Spec
CONSTANTS
  Reports = TRUE
  LostReplies = FALSE
  HalfWrites = FALSE
  Desks = {d1, d2}
  Runs = {r1}
  Procedure <- Signing
  Budget = 2
  Ops = {"run", "resume", "abandon"}
  Faults = {}
  None = None
PROPERTY AbandonKeepsSteps
CHECK_DEADLOCK FALSE
