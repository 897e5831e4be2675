SPECIFICATION Spec
CONSTANTS
    PoolSize <- MCPoolSize
    TotalJobs <- MCTotalJobs
    Address <- MCAddress
    Answers <- MCAnswers
    CfgQuorums <- MCQuorums
    CfgMaxProxyRetries = 4
    CfgDialConcurrency = 0
    UsedEarlier = {1, 5}
    OpenJobs <- MCOpenJobs
INVARIANTS
    TypeOK
    NoFalseOpen
    FindsOpen
    RetryBudget
PROPERTIES
    NoRedial
    KeepsPromise
