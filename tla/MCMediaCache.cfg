SPECIFICATION FairSpec
CONSTANTS
    r1 = r1
    r2 = r2
    r3 = r3
    Keys = {"a", "b", "c", "d", "e", "x"}
    Bytes <- UnitBytes
    Broken = {"x"}
    Setups <- MCSetups
    CapacityBytes = 1
    MaxRequestBytes = 2
    Threads = 2
    QueueCapacity = 1
INVARIANTS
    CacheStateAgrees
    FrameOutlivesTasks
    PromptIsComplete
PROPERTIES
    PreparationEnds
