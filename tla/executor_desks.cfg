SPECIFICATION Spec
CONSTANTS
  Reports = TRUE
  LostReplies = FALSE
  HalfWrites = FALSE
  Desks = {d1, d2}
  Runs = {r1, r2}
  Procedure <- Pins
  Budget = 1
  Ops = {"run", "resume", "holder", "reset"}
  Faults = {}
  None = None
PROPERTIES HolderPinStands
SYMMETRY Symmetry
CHECK_DEADLOCK FALSE
