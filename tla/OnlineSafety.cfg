SPECIFICATION Spec
CONSTANTS
  Method = "eagle3"
  MinGamma = 1
  MaxGamma = 3
  MaxStep = 1
  MaxNumSeqs = 4
  Budget = 12
  Async = TRUE
  ControlInterval = 2
  Window = 1
  WarmupSamples = 1
  ReturnIncumbent = FALSE
  Batches = {2, 4}
  Changes = {"grow", "restart"}
  Holds = {"off", "native"}
INVARIANTS
  TypeOK
  FramesFit
PROPERTIES
  StepBounded
