SPECIFICATION Spec
CONSTANTS
  Desks = {d1}
  Serials = {k1}
  HandOvers = {h1, h2}
  Incidents = {}
  Applets = {}
  Ops = {"add", "change", "distribute", "return"}
  Faults = {}
  None = None
INVARIANT OneOpenHandOver
CHECK_DEADLOCK FALSE
