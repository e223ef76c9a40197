SPECIFICATION Spec
CONSTANTS
  Reports = TRUE
  LostReplies = FALSE
  HalfWrites = TRUE
  Desks = {d1}
  Runs = {r1}
  Procedure <- Managed
  Budget = 2
  Ops = {"run", "resume", "dryrun", "abandon", "holder", "reset"}
  Faults = {}
  None = None
INVARIANTS FailureStops OneWrongGuess
CHECK_DEADLOCK FALSE
