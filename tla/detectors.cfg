CONSTANTS
    Families <- AllFamilies
    Alphabet <- SmallAlphabet
    MaxStream <- SmallStream
    Cap <- SmallCaps
    MaxEvents = 7
    MinEvents = 3
    Slack = 1
    MinMedian = 10
    MaxMedian = 3600
    Tol = 250000
    Ttl = 5
    TunnelWindow = 4
    TunnelMin = 2
    TunnelShare = 500000
    TunnelBytes = 60
    TunnelAge = 3
    MaxAnswers = 2
    MinAnswers = 2
    FluxWindow = 5
    FluxKept = 2
    VolumeWindow = 3
    MinBytes = 10
    MinDiversity = 2
    SyncWindow = 3
    MinHosts = 2
SPECIFICATION Spec
INVARIANTS NeverInflates AlertsAreJustified AlertsAreFresh
CHECK_DEADLOCK FALSE
