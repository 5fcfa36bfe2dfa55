SPECIFICATION Spec
CONSTANTS
    C6 = C6
    C7 = C7
    C12 = C12
    server = server
    command = command
    t1 = t1
    t2 = t2
    none = none
    Nobody = none
    Projector = C12
    Processes <- Server
    Commands = {}
    Threads <- OneThread
    Home <- HomeOfOne
    Owners <- SentToThree
    Jobs <- OneCorrection
    Place <- ByIdOne
    Capacity = 4
    MaxRevision = 1
    MaxStops = 0
    MaxFaults = 0
INVARIANT
    ProjectionAwaitsOwners
CHECK_DEADLOCK FALSE
