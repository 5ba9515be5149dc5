SPECIFICATION Spec
CONSTANTS
    MaxSeqs = 4
    ExtraBuckets = {}
    HostSizes <- MCHostSizes
    Configs <- MCConfigs
    MaxFrames = 2
INVARIANTS
    TypeOK
    TargetUnsteered
    GraphCoversBatch
    PaddingKeepsRows
    ReplayUpdated
CHECK_DEADLOCK FALSE
