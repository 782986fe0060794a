SPECIFICATION Spec
CONSTANTS
  None = None
  Cwds <- TwoCwds
  SceneNames <- TwoScenes
  SceneRequests <- SceneElements
  SourceRequests <- SourceElements
  AudioPaths <- Audio
  Spontaneous <- OneFile
  Channels <- Files
  Written <- HandWritten
  MaxId = 2
  MaxRequests = 2
  MaxSaves = 1
  MaxRuns = 2
INVARIANTS
  FilesFound
  
CHECK_DEADLOCK FALSE
