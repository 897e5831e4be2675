SPECIFICATION Spec
CHECK_DEADLOCK FALSE
CONSTANTS
    Links = {1, 2}
    MethodReplies <- MCMethods
    ConnectReplies <- MCConnects
    Socks4Codes <- MCCodes
    Local = {"DNS resolution failed"}
    Kind <- MCKind
    RelayLinks = {1}
    MaxData = 1
    Jobs = {1, 2, 3}
    Concurrency = 2
    ResultsRoom = 1
    List <- MCList
    Threads = 2
    IPs = {"ip1"}
    NmapFlags <- MCNmapFlags
    Commands = {"flat", "scan nmap", "scan builtin", "validate"}
    ArgLists <- MCArgLists
    PoolFiles <- MCFiles
    Address <- MCAddress
    Mortal = {"C"}
    NmapInstalled = {TRUE, FALSE}
    MaxLines = 1
    MaxPort = 6
    MaxParsedPorts = 9
    Bits = 3
    PortLists <- MCPortLists
    Specs <- MCSpecs
INVARIANTS
    TypeOK
    ArgsAreKept
    OkIsGranted
    RefusalIsServers
    CleanTunnel
    LastWords
    NoSendAfterClose
    ConnectScanIsWhole
    ListAddsUp
    RoundRobin
    AllTargetsTaken
    DeadStayOut
    ReportIsWhole
    SpecsRoundTrip
    TargetsExpand
PROPERTIES
    InterruptEnds
    HandlersEnd
