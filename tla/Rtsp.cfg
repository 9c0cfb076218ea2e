SPECIFICATION HeaderSpec
CONSTANTS
  HeaderTokens <- MCTokens
  TransportLists <- MCLists
  TransportJunk <- MCJunk
  MaxTransports = 2
  MaxHeaders = 2
  Several <- FewLists
  TimeChars <- MCTokens
  TimeStarts <- MCStarts
  TimeEnds <- MCEnds
  NoTime = NoTime
  Second = 100
  Milli = 10
  Max64 = 40000000
CHECK_DEADLOCK FALSE
INVARIANTS Ends Parsed Exact
