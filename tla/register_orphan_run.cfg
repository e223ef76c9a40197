SPECIFICATION Spec
CONSTANTS
  Desks = {d1, d2}
  Serials = {k1}
  HandOvers = {}
  Incidents = {}
  Applets = {piv}
  Ops = {"add", "remove", "run"}
  Faults = {}
  None = None
INVARIANT RunHasItsKey
CHECK_DEADLOCK FALSE
