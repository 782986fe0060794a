CONSTANTS
  Clients = {c1, c2}
  Controllers = {c1}
  MaxSources = 2
  FifoLength = 2
SPECIFICATION Spec
INVARIANTS  Settled
PROPERTY AllGone
CHECK_DEADLOCK FALSE
