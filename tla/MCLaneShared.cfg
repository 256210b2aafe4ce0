SPECIFICATION Spec
CONSTANTS
    Lanes = {0, 1}
    Tokens = {"a"}
    Media = "m"
    PrefillChunk = 2
    Setups <- SharedIngress
INVARIANTS
    BackendMatchesLedger
