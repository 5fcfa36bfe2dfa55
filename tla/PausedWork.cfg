SPECIFICATION Spec
CONSTANTS
    C6 = C6
    C7 = C7
    C12 = C12
    server = server
    command = command
    t1 = t1
    t2 = t2
    none = none
    Nobody = none
    Projector = C12
    Processes <- Both
    Commands <- OneCommand
    Threads <- OneThread
    Home <- HomeOfOne
    Owners <- SentTo
    Jobs <- TwoCorrections
    Place <- ByIdTwo
    Capacity = 3
    MaxRevision = 2
    MaxStops = 2
    MaxFaults = 1
INVARIANTS
    TypeOK
    PassedMeansExecuted
    AppliedMeansAllOwners
CHECK_DEADLOCK FALSE
