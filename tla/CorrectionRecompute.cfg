SPECIFICATION FairSpec
CONSTANTS
    C6 = C6
    C7 = C7
    C12 = C12
    server = server
    command = command
    t1 = t1
    t2 = t2
    none = none
    Nobody = none
    Projector = C12
    Processes <- Server
    Commands = {}
    Threads <- TwoThreads
    Home <- HomeOfTwo
    Owners <- SentTo
    Jobs <- TwoCorrections
    Place <- ByIdTwo
    Capacity = 3
    MaxRevision = 2
    MaxStops = 1
    MaxFaults = 1
INVARIANTS
    JobsKeepTheirCorrection
    RunningHasOneRunner
PROPERTIES
    HierarchyWaitsForOwners
    SubmissionsReturn
CHECK_DEADLOCK FALSE
