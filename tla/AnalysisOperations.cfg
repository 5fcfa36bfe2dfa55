SPECIFICATION FairSpec
CONSTANTS
    w1 = w1
    w2 = w2
    nobody = nobody
    found = found
    other = other
    Workers <- TwoWorkers
    Times <- TwoTimes
    Answers <- TwoAnswers
    Workloads <- FewWorkloads
    Nobody = nobody
    PageLimit = 2
    MaxFaults = 1
INVARIANTS
    TypeOK
    AppliedFindingsAreCurrent
    OwnersWriteOnce
    RebasedOutputsAreInvalidated
    OneFollowUp
PROPERTIES
    PassedResultsAreApplied
CHECK_DEADLOCK FALSE
