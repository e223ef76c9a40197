SPECIFICATION Spec
CONSTANTS
  Desks = {d1, d2}
  Serials = {k1, k2}
  HandOvers = {h1}
  Incidents = {i1}
  Applets = {}
  Ops = {"add", "distribute", "return", "change", "report"}
  Faults = {}
  None = None
INVARIANT TrailIsComplete
CHECK_DEADLOCK FALSE
