SPECIFICATION FairSpec
CONSTANTS
    h1 = h1
    h2 = h2
    none = none
    annotate = annotate
    validate = validate
    failed = failed
    Hosts <- TwoHosts
    Observations <- TwoObservations
    Planned <- TwoPlanned
    HostPlans <- FewPlans
    Failures <- OneFailure
    Reports <- TwoReports
    MaxTasks = 2
    None = none
    MaxFaults = 1
INVARIANTS
    TypeOK
    ReceiptsAreEarned
PROPERTIES
    ObservationsSettle
CHECK_DEADLOCK FALSE
