CONSTANTS
  Partitions = 3
  EmptyPartition = EmptyPartition
  Null = Null
  Blocks = {x, y}
  Silence = Silence
  Garbage = Garbage
  Filters <- MCFilters
SPECIFICATION Spec
INVARIANTS SpectraUpToDate FilterInTime 
