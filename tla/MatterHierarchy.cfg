SPECIFICATION FairSpec
CONSTANTS
    ma = ma
    mb = mb
    mc = mc
    p1 = p1
    p2 = p2
    none = none
    top = top
    file = file
    page = page
    Matters <- ThreeMatters
    Root = top
    Processes <- TwoProcesses
    Requests <- Asks
    Members <- TwoMembers
    What <- Asked
    Workloads <- Given
    NoRequest = none
    MaxFaults = 1
INVARIANTS
    TypeOK
    Forest
    CurrentMeansAgrees
    SplitsAreComplete
PROPERTIES
    BatchesArePublished
    PendingEdgesSettle
CHECK_DEADLOCK FALSE
