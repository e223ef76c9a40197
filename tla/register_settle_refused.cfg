SPECIFICATION Spec
CONSTANTS
  Desks = {d1}
  Serials = {k1}
  HandOvers = {h1}
  Incidents = {}
  Applets = {piv}
  Ops = {"add", "change", "distribute", "return", "run", "reset"}
  Faults = {}
  None = None
PROPERTY CleanRunSettles
CHECK_DEADLOCK FALSE
