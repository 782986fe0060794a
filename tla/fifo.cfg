CONSTANTS
  Items = {a, b}
  Null = Null
  Size = 4
SPECIFICATION RingSpec
INVARIANT RingInv
PROPERTY ImplementsFifo
CHECK_DEADLOCK FALSE
