SPECIFICATION Spec
CONSTANTS
  Desks = {d1}
  Serials = {k1}
  HandOvers = {h1, h2}
  Incidents = {i1}
  Applets = {piv, fido2}
  Ops = {"add", "remove", "distribute", "return", "change", "run", "report", "close", "reset", "sanitise"}
  Faults = {"crash", "io", "partial"}
  None = None
SYMMETRY Symmetry
INVARIANTS DistributedIsHeld TrailIsComplete ResidueIsOnRecord
PROPERTIES KeepsTheLedger ReissueIsClean
CHECK_DEADLOCK FALSE
