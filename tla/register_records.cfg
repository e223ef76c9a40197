SPECIFICATION Spec
CONSTANTS
  Desks = {d1, d2}
  Serials = {k1}
  HandOvers = {h1, h2}
  Incidents = {i1}
  Applets = {}
  Ops = {"add", "remove", "distribute", "return", "change", "report", "close"}
  Faults = {}
  None = None
SYMMETRY Symmetry
INVARIANTS TypeOK HandOverHasItsKey LostIsReported TrailIsTrue
PROPERTY RecordsAreFinal
CHECK_DEADLOCK FALSE
