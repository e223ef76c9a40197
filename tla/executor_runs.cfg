SPECIFICATION Spec
CONSTANTS
  Reports = TRUE
  LostReplies = TRUE
  HalfWrites = TRUE
  Desks = {d1}
  Runs = {r1, r2}
  Procedure <- Signing
  Budget = 1
  Ops = {"run", "resume", "holder", "reset"}
  Faults = {"crash"}
  None = None
INVARIANTS CompletedIsApplied WriteIsAhead
PROPERTIES RequestStands KeepsTheRecord
SYMMETRY Symmetry
CHECK_DEADLOCK FALSE
