SPECIFICATION FairSpec
CONSTANTS
    NumRequests = 4
    MaxConcurrency = 3
    Shapes <- MixedShapes
    Continues <- Conversation
    Rewrites <- Edits
    Hurried = {2}
    Cancellable = {3}
    MainPages = 5
    BackendPages = 5
    PageSize = 3
    PrefillChunk = 3
    MaxContext = 16
    SpeculativeBackend = "Mtp"
    DraftWindow = 1
INVARIANTS
    AdmissionNeverFaults
    HeadKeepsItsReservation
    FrontierIsEarliest
    SchedulerStateAgrees
    PoolsNeverOvercommitted
    ServiceWorkSuffices
PROPERTIES
    EveryRequestEnds
