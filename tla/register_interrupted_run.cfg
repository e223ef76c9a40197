SPECIFICATION Spec
CONSTANTS
  Desks = {d1}
  Serials = {k1}
  HandOvers = {h1}
  Incidents = {}
  Applets = {piv}
  Ops = {"add", "change", "distribute", "return", "run"}
  Faults = {"crash"}
  None = None
PROPERTY NothingIsReissuedDirty
CHECK_DEADLOCK FALSE
