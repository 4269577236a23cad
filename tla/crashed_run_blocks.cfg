SPECIFICATION EagerSpec
CONSTANTS
    d1 = d1
    d2 = d2
    w1 = w1
    w2 = w2
    Documents = {d1, d2}
    Chunkless = {}
    Workers = {w1, w2}
    TriggerMinimum = 1
    EngineMinimum = 1
    ClusterFloor = 1
    MaxLabelCalls = 1
    MaxClusters = 2
    MaxRequests = 2
    MaxFaults = 1
CHECK_DEADLOCK FALSE
PROPERTY OrphanSuperseded
