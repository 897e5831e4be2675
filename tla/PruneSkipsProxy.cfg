SPECIFICATION Spec
CHECK_DEADLOCK FALSE
CONSTANTS
    Links = {1}
    MethodReplies <- MCReplies
    ConnectReplies <- MCGrants
    Socks4Codes = {90}
    Local = {"DNS resolution failed"}
    Kind <- MCKind
    RelayLinks = {1}
    MaxData = 1
    Jobs = {1}
    Concurrency = 1
    ResultsRoom = 1
    List <- MCList
    Threads = 1
    IPs = {"ip1"}
    NmapFlags <- MCNmapFlags
    Commands = {"flat"}
    ArgLists <- MCArgLists
    PoolFiles <- MCFiles
    Address <- MCAddress
    Mortal = {"c"}
    NmapInstalled = {TRUE}
    MaxLines = 1
    MaxPort = 6
    MaxParsedPorts = 9
    Bits = 3
    PortLists <- MCPortLists
    Specs <- MCSpecs
INVARIANTS
    EachConsumesNext
