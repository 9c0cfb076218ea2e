SPECIFICATION Spec
CONSTANTS
  Acceptor = acceptor
  Workers = {w1, w2}
  Sockets = {s1, s2}
  NoSocket = NoSocket
  MaxClients = 2
  InitClients = 1
  ClientBlock = 1
  MaxOpers = 6
  InitOpers = 1
  OperBlock = 1
  MaxPackets = 6
  MaxAccepts = 2
  MaxReceives = 1
  MaxTraffic = 3
  UserStops = FALSE
SYMMETRY Symmetry
CHECK_DEADLOCK FALSE
INVARIANTS DocumentedType
