CONSTANTS
    d1 = d1
    d2 = d2
    d3 = d3
    t1 = t1
    t2 = t2
    Threads = {t1, t2}
    Decisions = {d1, d2, d3}
    Shape <- TwoDenies
    Start <- Neighbours
    MaxSid = 1
    Postures = {"OFF", "SHADOW"}
    HomeNets <- Nets
    MaxCalls = 3
    MaxRestarts = 1
SPECIFICATION Spec
INVARIANTS FileMatchesLedger NeverBroadens
PROPERTY RemovalsSettle
CHECK_DEADLOCK FALSE
