CONSTANTS
  Missing = Missing
  Uninitialized = Uninitialized
  Azimuths = {0, 1}
  MaxReports = 2
  MaxRequests = 1
  MaxCalibrations = 1
  Inputs <- AllInputs
  Outputs = 2
  Hardware <- HardwareSets
  Visitors <- SomeVisitors
  Targets <- SomeTargets
  Scenes <- SomeScenes
  MaxSources = 2
  MaxLoads = 2
SPECIFICATION Program
 
PROPERTY AsAsked
PROPERTY Calibrated
PROPERTY Terminates
CHECK_DEADLOCK FALSE
