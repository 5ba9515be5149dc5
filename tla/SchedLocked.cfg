SPECIFICATION FairSpec
CONSTANTS
  Requests = {r1, r2, r3}
  MaxRunning = 2
  KvSlots = 2
  RefillBatch = 2
  MaxInflight = 2
  PromptChunks = 2
  Gammas = {1, 2, 3}
  NativeGamma = 2
  InitialGamma = 2
  Async = TRUE
  Stateful = TRUE
  RuntimeSwitching = FALSE
  StatefulLock = FALSE
  Online = TRUE
  Sticky = FALSE
  NativeRefill = FALSE
  IsolateRefill = TRUE
  HostResizes = TRUE
  Preemption = FALSE
  CohortTarget = 2
  CohortWait = 1
  QuietTime = 1
  MaxWait = 2
INVARIANTS
  LockedCohortWidth
PROPERTIES
  AdmissionProgress
