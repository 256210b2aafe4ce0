SPECIFICATION FairSpec
CONSTANTS
    Tasks = {t1, t2, t3, t4}
    Workers = {w1, w2}
    QueueCapacity = 2
CHECK_DEADLOCK FALSE
INVARIANTS
    NoSleeperIsForgotten
PROPERTIES
    CallsReturn
    ImplementsTaskQueue
