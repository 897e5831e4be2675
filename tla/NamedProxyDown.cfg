SPECIFICATION Spec
CONSTANTS
    PoolSize <- MCPoolSize
    TotalJobs <- MCTotalJobs
    Address <- MCAddress
    Answers <- NamedAnswers
    CfgQuorums = {1}
    CfgMaxProxyRetries = 0
    CfgDialConcurrency = 2
    UsedEarlier = {}
    OpenJobs <- MCOpenJobs
INVARIANTS
    RefutedByTarget
