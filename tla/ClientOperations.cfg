SPECIFICATION Spec
CONSTANTS
  Threads = {t1, t2}
  Workers = {t1}
  Clients = {c1, c2}
  NoClient = NoClient
  MaxOpers = 2
  InitOpers = 1
  OperBlock = 1
  MaxPackets = 2
SYMMETRY Symmetry
INVARIANTS OperOwnership
