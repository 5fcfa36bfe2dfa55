SPECIFICATION FairSpec
CONSTANTS
    a = a
    b = b
    w1 = w1
    w2 = w2
    Objects = {a}
    Workers <- TwoWorkers
    Claims <- FourClaims
    NoClaim = 0
    Limit = 2
    MaxScans = 1
    MaxFaults = 1
INVARIANT
    TypeOK
PROPERTIES
    FilesAreProcessed
    GoneFilesAreRetired
    RowsAreCompleted
CHECK_DEADLOCK FALSE
