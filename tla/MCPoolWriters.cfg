SPECIFICATION Spec
CHECK_DEADLOCK FALSE
CONSTANTS
    Proxies <- MCProxies
    Address <- MCAddress
    Works <- MCWorks
    Egress <- MCEgress
    Mortal <- MCMortal
    Texts <- MCTexts
    Threads = 1
    Queue = 2
    Options <- MCOptions
    MaxParses = 2
    MaxTimers = 1
    MaxActs = 4
INVARIANTS
    TypeOK
    PoolIsSound
    QuietWhenOff
    LossNeedsOverlap
PROPERTIES
    SettlesDown
