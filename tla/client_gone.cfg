SPECIFICATION Spec
CONSTANTS
  Clients = {c1}
  MaxId = 1
  Members = {"mute", "position", "position_fixed"}
  Settings = {"reference_orientation", "processing_state", "amplitude_reference_distance"}
  Requests <- SomeRequests
  MaxRequests = 1
  Orientations = {0}
  MaxTurns = 1
INVARIANT NotSubscribedWhenGone
CHECK_DEADLOCK FALSE
