SPECIFICATION DeskSpec
CONSTANTS
  Programs = {"p1", "p2", "p3"}
  Copies = {"a", "b"}
  At <- TwoCopies
  Opens = 1
  TakeOvers = 1
  Mishaps = 1
  None = None
  Garbled = Garbled
  Stations = {s1}
  Passwords = {no, pw}
  NoPassword = no
  NoFile = NoFile
  Entries = {1, 2}
  Runs = {r1, r2}
  Unreadable = {r2}
  OldSchema = {1, 4, 9}
  Keep = 1
  Changes = 2
  Starts = 1
  LastFile = 3
  Days = 1
  Deaths = 1
  Faults = 2
  Words = {"a", "b"}
  MaxTrail = 3
  MaxLost = 2
  MaxRewrites = 1
  Free = 1
  Wrongs = 3
  Callers = {"u1", "u2"}
  Asks = 1
  Lives = 1
  Services = 2
INVARIANTS
  OneWriter
  NoOrphanLock
  StepsBecomeRows
  MirrorTells
  MountsAreReturned
  HelperIsTrue
PROPERTIES
  TwoWritersEnd
  AskersAreAnswered
  NothingIsLost
  ToldIsTrue
CHECK_DEADLOCK FALSE
