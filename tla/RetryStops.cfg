SPECIFICATION Spec
CHECK_DEADLOCK FALSE
CONSTANTS
    Proxies <- MCProxies
    Address <- MCAddress
    Works <- MCWorks
    Egress <- MCEgress
    Mortal <- MCMortal
    Texts <- MCTexts
    Threads = 2
    Queue = 1
    Options <- MCOptions
    MaxParses = 2
    MaxTimers = 1
    MaxActs = 3
PROPERTIES
    RetryKicksOff
