SPECIFICATION Spec
CONSTANTS
  Pushers = {p1}
  Poppers = {q1, q2}
  Elements = {e1}
  NoElement = NoElement
  MaxNodes = 2
INVARIANTS NoCrash
