SPECIFICATION Spec
CONSTANTS
    Requests = {r1, r2, r3}
    Width = 2
    MaxSteps = 3
INVARIANTS
    CountsOfOwnRequest
    MovesFromOwnState
SYMMETRY Symmetric
CHECK_DEADLOCK FALSE
