SPECIFICATION StreamsSpec
CONSTANTS
    MaxPieces <- BothFrontends
CHECK_DEADLOCK FALSE
INVARIANTS
    FilterIsFaithful
    EndTellsWhatWasStreamed
    OneTerminalAndInOrder
    ThinkingFirstKeepsOrder
