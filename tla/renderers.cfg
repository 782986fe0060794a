SPECIFICATION RenderersSpec
CONSTANTS
  None = None
  NotGiven = NotGiven
  BlockSize = 3
  MaxDelay = 5
  InitialDelay = 4
  Setups <- SomeSetups
  LaplaceRows = 211
  ResponseSize = 2
  Positions <- SomePositions
  Models = {"point", "plane"}
  Orientations = {0, 90}
  References <- TwoReferences
  Offsets <- SomeOffsets
  MaxChanges = 2
  Partitions = 3
  EmptyPartition = EmptyPartition
  Null = Null
  Indices = {1, 2}
  Factors = {0, 1}
  Weights = {0, 1, 2}
  Files <- SomeFiles
  BlockSizes = {1, 2}
  MaxChannels = 2
INVARIANTS
  EngineFits
  DelayedExactly
  BehindOrInFront
  PairEncloses
  HalfComplex
  InTimeUnlessOverwritten
PROPERTIES
  Continuous
  NoClicks
