SPECIFICATION FairSpec
CONSTANTS
  Reports = FALSE
  LostReplies = TRUE
  HalfWrites = TRUE
  Desks = {d1}
  Runs = {r1}
  Procedure <- Tokens
  Budget = 2
  Ops = {"run", "abandon", "holder"}
  Faults = {"io", "unread"}
  None = None
INVARIANTS SecretsAreShown RecordIsAudited
PROPERTIES RunsEnd
CHECK_DEADLOCK FALSE
