SPECIFICATION Spec
CHECK_DEADLOCK FALSE
CONSTANTS
    NumCalls = 2
    Answers <- MCAnswers
    Countries <- MCCountries
    Country <- MCCountry
    PerCountry = 1
    DialConc = 1
    Hosts = {"h1", "h2"}
    Keys <- MCKeys
    Findings <- MCFindings
    Pools <- MCPools
    SortModes = {"Port up", "Most proxies"}
    MaxEvents = 3
    MaxHosts = 9
    MaxProxies = 6
INVARIANTS
    TypeOK
    OneOwner
    VotesAreEvidence
    StoreIsFindings
    SelectionIsStored
    PaneIsCurrent
    ChunksPartition
PROPERTIES
    ChecksSettle
