SPECIFICATION Spec
CONSTANTS
  Requests = {r1, r2, r3, r4}
  MaxRunning = 3
  KvSlots = 4
  RefillBatch = 2
  MaxInflight = 2
  PromptChunks = 2
  Gammas = {0, 1, 2, 3}
  NativeGamma = 2
  InitialGamma = 3
  Async = TRUE
  Stateful = FALSE
  RuntimeSwitching = FALSE
  StatefulLock = FALSE
  Online = FALSE
  Sticky = TRUE
  NativeRefill = FALSE
  IsolateRefill = TRUE
  HostResizes = TRUE
  Preemption = TRUE
  CohortTarget = 0
  CohortWait = 0
  QuietTime = 0
  MaxWait = 0
INVARIANTS
  TypeOK
  RunningWithinCapacity
  PlaceholdersMatchDrafts
PROPERTIES
  StickyTargetOnly
  StableCreditsOwnDrafts
SYMMETRY RequestSymmetry
