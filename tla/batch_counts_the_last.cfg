SPECIFICATION OfficeSpec
CONSTANTS
  TplDesks = {t1}
  Procs = {"s", "a"}
  Standard = "s"
  Reshaped = {}
  Files <- Imported
  LastVersion = 2
  Applied = 1
  PaperDesks = {p1}
  Handovers = {h1}
  Days = 2
  Wordings = 1
  BtDesks = {d1}
  Boxed = {"k1", "k2"}
  Lists <- Pairs
  Expected = 1
  BtVersions = {"v1"}
  Rows = 2
  BtFaults <- FailedWrites
  CwDesks = {c1, c2}
  Filed = {"k1", "k2"}
  Reports = {i1}
  Repairs = {r1}
  Subjects = {s1}
  Edits = 3
PROPERTY FoldedIsLast
CHECK_DEADLOCK FALSE
