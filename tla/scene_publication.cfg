SPECIFICATION Spec
CONSTANTS
  Clients = {c1, c2}
  MaxId = 2
  Members = {"mute", "position", "position_fixed"}
  Settings = {"reference_orientation", "processing_state", "amplitude_reference_distance"}
  Requests <- SomeRequests
  MaxRequests = 2
  Orientations = {0}
  MaxTurns = 1
SYMMETRY AnyClient
INVARIANTS
  
  ClientsFollowScene
  LevelsOfSources
CHECK_DEADLOCK FALSE
