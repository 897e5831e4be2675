SPECIFICATION Spec
CONSTANTS
    PoolSize <- MCPoolSize
    TotalJobs <- MCTotalJobs
    Address <- MCAddress
    Answers <- OneServerAnswers
    CfgQuorums = {2}
    CfgMaxProxyRetries = 0
    CfgDialConcurrency = 2
    UsedEarlier = {}
    OpenJobs <- MCOpenJobs
INVARIANTS
    DistinctServersAgree
