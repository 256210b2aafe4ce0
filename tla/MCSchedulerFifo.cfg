SPECIFICATION Spec
CONSTANTS
    NumRequests = 3
    MaxConcurrency = 2
    Shapes <- LiveShapes
    Continues <- NoContinuations
    Rewrites <- NoContinuations
    Hurried = {}
    Cancellable = {}
    MainPages = 3
    BackendPages = 0
    PageSize = 4
    PrefillChunk = 4
    MaxContext = 12
    SpeculativeBackend = "None"
    DraftWindow = 0
PROPERTIES
    AdmittedInFifoOrder
