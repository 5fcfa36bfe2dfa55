SPECIFICATION Spec
CONSTANTS
    a = a
    b = b
    w1 = w1
    w2 = w2
    Objects <- TwoFiles
    Workers <- TwoWorkers
    Claims <- FiveClaims
    NoClaim = 0
    Limit = 2
    MaxScans = 0
    MaxFaults = 2
VIEW Anonymous
SYMMETRY Symmetric
INVARIANTS
    ClaimStatusAgrees
PROPERTIES
    LiveRowsStay
    CheckpointsOnlyAdvance
    LateWorkersCannotComplete
CHECK_DEADLOCK FALSE
