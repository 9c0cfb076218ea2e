SPECIFICATION MCSpec
CONSTANTS
  t1 = t1
  t2 = t2
  UI = UI
  NoThread = NoThread
  Threads <- MCThreads
  Parts = {"dialog", "reader", "loner"}
  MaxBufs = 2
  MaxSockets = 1
  MaxDatagrams = 0
  Observers = 1
  EmptyComes = TRUE
  WriteFails = TRUE
  BufSize = 2
  Lengths <- MCLengths
  MaxFileBufs = 2
  MaxImports = 0
  MaxStops = 0
  MaxMessages = 1
  MaxWrites = 1
  Kinds = {"recv", "tcp", "client"}
  MaxObjects = 2
  PortThreads <- OneThread
CHECK_DEADLOCK FALSE
INVARIANTS TypesOK ListsInStep Accounted Alive
PROPERTIES ThreadsEnd ComesToRest
