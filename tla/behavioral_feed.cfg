CONSTANTS
    v1 = v1
    v2 = v2
    i1 = i1
    i2 = i2
    Values = {v1, v2}
    Indicators = {i1, i2}
    Ingested = {i2}
    ValueOf <- TwoIndicators
    Contents <- AboutV1
    MaxLinesPerPass = 2
    MaxRetained = 1
    PerTarget = 1
    Ttl = 0
    MaxLines = 2
    MaxResets = 1
    MaxMishaps = 1
SPECIFICATION Spec
INVARIANTS TypeOK CheckpointIsFolded DetectionsConserved
PROPERTIES TailCatchesUp ParkedIsAttached
CHECK_DEADLOCK FALSE
