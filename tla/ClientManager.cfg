SPECIFICATION Spec
CONSTANTS
  Threads = {t1, t2, t3}
  Sockets = {s1, s2, s3}
  NoSocket = NoSocket
  MaxClients = 4
  InitClients = 2
  ClientBlock = 2
SYMMETRY Symmetry
INVARIANTS StubOwnership SocketOwnership
