SPECIFICATION Spec
CONSTANTS
    p = p
    q = q
    r = r
    s = s
    t = t
    Responses = {p, q, r, s, t}
    Unstored = {t}
    EnvelopeBytes <- MCEnvelopes
    NodeBytes <- MCNodes
    MaxRecords = 2
    MaxBytes = 6
    MaxUses = 4
CHECK_DEADLOCK FALSE
SYMMETRY SmallAlike
INVARIANTS
    StoreWithinLimits
    AnsweredIsStored
PROPERTIES
    EvictsByNeedAndRecency
