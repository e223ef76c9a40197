SPECIFICATION OfficeSpec
CONSTANTS
  TplDesks = {}
  Procs = {"s"}
  Standard = "s"
  Reshaped = {}
  Files <- Imported
  LastVersion = 1
  Applied = 1
  PaperDesks = {}
  Handovers = {}
  Days = 0
  Wordings = 0
  BtDesks = {d1}
  Boxed = {"k1", "k2", "k3"}
  Lists = {}
  Expected = 1
  BtVersions = {"v1"}
  Rows = 3
  BtFaults <- FailedAppends
  CwDesks = {}
  Filed = {}
  Reports = {}
  Repairs = {}
  Subjects = {}
  Edits = 0
PROPERTY PositionIsStable
CHECK_DEADLOCK FALSE
