SPECIFICATION MCSpec
CONSTANTS
  t1 = t1
  t2 = t2
  UI = UI
  NoThread = NoThread
  Threads <- MCThreads
  Parts = {"receiver", "writer"}
  MaxBufs = 4
  MaxSockets = 2
  MaxDatagrams = 2
  Observers = 1
  EmptyComes = TRUE
  WriteFails = TRUE
  BufSize = 3
  Lengths <- MCLengths
  MaxFileBufs = 5
  MaxImports = 3
  MaxStops = 2
  MaxMessages = 0
  MaxWrites = 0
  Kinds = {}
  MaxObjects = 0
  PortThreads <- OneThread
CHECK_DEADLOCK FALSE
INVARIANTS TypesOK BufsWhole Reading NothingLost
PROPERTIES LockReleased
