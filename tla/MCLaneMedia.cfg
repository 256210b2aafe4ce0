SPECIFICATION Spec
CONSTANTS
    Lanes = {0}
    Tokens = {"a", "b"}
    Media = "m"
    PrefillChunk = 2
    Setups <- MediaSuffix
INVARIANTS
    ContinuationMatchesLedger
