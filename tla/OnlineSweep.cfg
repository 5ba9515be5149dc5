SPECIFICATION FairSpec
CONSTANTS
  Method = "eagle"
  MinGamma = 0
  MaxGamma = 4
  MaxStep = 1
  MaxNumSeqs = 4
  Budget = 64
  Async = TRUE
  ControlInterval = 2
  Window = 1
  WarmupSamples = 1
  ReturnIncumbent = FALSE
  Batches = {2}
  Changes = {"refill", "stall"}
  Holds = {"off"}
PROPERTIES
  SweepReachesAllArms
