SPECIFICATION Spec
CONSTANTS
    PoolSize <- MCPoolSize
    TotalJobs <- MCTotalJobs
    Address <- MCAddress
    Answers <- OneServerAnswers
    CfgQuorums = {1}
    CfgMaxProxyRetries = 0
    CfgDialConcurrency = 2
    UsedEarlier = {0}
    OpenJobs <- MCOpenJobs
INVARIANTS
    NoFalseUnreachable
