SPECIFICATION MCSpec
CONSTANTS
  h1 = h1
  h2 = h2
  h3 = h3
  h4 = h4
  h5 = h5
  h6 = h6
  t1 = t1
  t2 = t2
  n1 = n1
  n2 = n2
  Nodes <- MCNodes
  NoNode = NoNode
  MaxPackets = 2
  Threads <- MCThreads
  Null = Null
  Handles <- MCHandles
  N = 2
  MaxWait = 2
  MaxRounds = 2
  NoBlock = NoBlock
  BlockSize = 4096
  Num = 2
  MaxBlocks = 2
  MaxStarts = 1
CHECK_DEADLOCK FALSE
INVARIANTS TypeOK HandlesOwned OutliveThreads OnePlace OwnBlock
PROPERTIES StopReturns
