SPECIFICATION InterfaceSpec
CONSTANTS
  MaxId = 3
  Loudspeakers = TRUE
  SourceIds = {1, 2}
  TIMESPAN = 2
  Skip = 1
  MaxTime = 2
  MINVOLUME = 1
  MAXVOLUME = 3
  MaxSources = 3
  Addresses = {"a", "b", "c"}
INVARIANTS
  LastIsSelected
  ShownAreChanged
  MissingOnlyIfDisturbed
  LevelsBelong
  RequestStands
PROPERTY ControlsShow
CHECK_DEADLOCK FALSE
