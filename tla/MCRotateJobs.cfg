SPECIFICATION Spec
CONSTANTS
    PoolSize <- MCPoolSize
    TotalJobs <- MCTotalJobs
    Address <- MCAddress
    Answers <- MCAnswers
    CfgQuorums <- MCQuorums
    CfgMaxProxyRetries = 0
    CfgDialConcurrency = 2
    UsedEarlier = {1}
    OpenJobs <- MCOpenJobs
INVARIANTS
    RefusalIsReal
    DeadReportedOnce
    QuietAfterReturn
PROPERTIES
    Terminates
