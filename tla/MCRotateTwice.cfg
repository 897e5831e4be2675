SPECIFICATION SpecTwice
CONSTANTS
    PoolSize <- MCPoolSize
    TotalJobs <- MCTotalJobs
    Address <- MCAddress
    Answers <- MCAnswers
    CfgQuorums = {1}
    CfgMaxProxyRetries = 0
    CfgDialConcurrency = 2
    UsedEarlier = {}
    OpenJobs <- MCOpenJobs
INVARIANTS
    Deterministic
