SPECIFICATION MCSpec
CONSTANTS
  t1 = t1
  t2 = t2
  UI = UI
  Threads <- MCThreads
  Parts = {"listener", "worker", "connections", "methods"}
  MaxSockets = 3
  MaxClients = 3
  InitSockets = 2
  MaxWorkers = 1
  InitWorkers = 0
  FreshErrors <- MCFreshErrors
  MaxSessions = 2
  MaxMessages = 1
  MaxAnswers = 2
  Echo = FALSE
  Asked = {"OPTIONS", "ANNOUNCE", "SETUP"}
  LineBufSize = 4
  LongLine = 4
  SeqWidth = 2
  MaxRequests = 2
  MaxConnections = 2
CHECK_DEADLOCK FALSE
INVARIANTS TypesOK ListsWhole Listening ReleasedClean NeverLeavesIdle Faithful
PROPERTIES Drains Released
