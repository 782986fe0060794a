SPECIFICATION NetworkSpec
CONSTANTS
  Hosts = {c1, c2}
  Talkers = {c1}
  MaxPackets = 2
  MaxMessages = 2
  Parts = 2
INVARIANTS
  MessagesKept
PROPERTIES
  EverythingParsed
  ConnectionEnds
CHECK_DEADLOCK FALSE
