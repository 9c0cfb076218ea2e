SPECIFICATION FairSpec
CONSTANTS
  Pushers = {p1}
  Poppers = {q1, q2}
  Elements = {e1, e2}
  NoElement = NoElement
  MaxNodes = 2
CONSTRAINT NotOverlapped
INVARIANTS NodeOwnership ListIntact
PROPERTIES IsFifo CallsReturn
