SPECIFICATION RunFairSpec
CONSTANTS
    j1 = j1
    j2 = j2
    j3 = j3
    j4 = j4
    c1 = c1
    c3 = c3
    c2 = c2
    Jobs <- MCFourJobs
    ContractOf <- MCThreeContracts
    MaxConcurrency = 2
    FailureThreshold = 3
    FailureCap = 4
INVARIANTS
    OneCrawlPerContract
PROPERTIES
    JobsFinish
    RecoveryCloses
