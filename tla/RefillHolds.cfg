SPECIFICATION Spec
CONSTANTS
    Capacity = 2
    Gammas = {0, 2}
    Configs <- MCConfigs
    MaxRequests = 3
    MaxInflight = 2
INVARIANTS
    TypeOK
    DenialsBounded
PROPERTIES
    WaitingServed
