SPECIFICATION Spec
CONSTANTS
    Deployments <- MCDeployments
    Entries <- MCEntries
    MaxReplays = 3
    MaxFailures = 1
INVARIANTS
    TypeOK
    ReplayReadsItsUpdate
    StreamExclusive
PROPERTIES
    FailureReported
    ReplaysFinish
CHECK_DEADLOCK FALSE
