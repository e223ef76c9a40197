SPECIFICATION Spec
CONSTANTS
  Desks = {d1, d2}
  Serials = {k1}
  HandOvers = {h1}
  Incidents = {}
  Applets = {piv}
  Ops = {"add", "change", "distribute", "return"}
  Faults = {}
  None = None
PROPERTY MovesAreLegal
CHECK_DEADLOCK FALSE
