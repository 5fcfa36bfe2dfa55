SPECIFICATION FairSpec
CONSTANTS
    C6 = C6
    C7 = C7
    C12 = C12
    server = server
    command = command
    t1 = t1
    t2 = t2
    none = none
    Nobody = none
    Projector = C12
    Processes <- Server
    Commands = {}
    Threads <- OneThread
    Home <- HomeOfOne
    Owners <- SentTo
    Jobs <- TwoCorrections
    Place <- ByIdTwo
    Capacity = 4
    MaxRevision = 2
    MaxStops = 1
    MaxFaults = 0
PROPERTY
    OutstandingOwnersResume
CHECK_DEADLOCK FALSE
