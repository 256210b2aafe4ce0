SPECIFICATION FairServiceSpec
CONSTANTS
    Requests = {r1, r2, r3}
    MaxConcurrency = 1
    MaxOutstanding = 2
INVARIANTS
    CapacityAccounting
    ExactlyOneOwner
    NoOutputLost
    IngressCoversExecutor
    LateOverloadNeedsLingerer
PROPERTIES
    AcceptedRequestCompletes
    EveryRequestIsAnswered
    ImplementsRequestService
