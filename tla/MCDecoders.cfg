SPECIFICATION DecodersSpec
CONSTANTS
    Vocabulary = {"start", "message", "eom", "eot", "role", "to", "self", "a", "b", "half", "rest"}
    Spelling <- MuseSpelling
    StartToken = "start"
    MessageToken = "message"
    EomToken = "eom"
    StopTokens = {"eot"}
    PublishStopToken = FALSE
    ParseAtem = TRUE
    Assistant <- MuseAssistant
    Recipient <- MuseRecipient
    Self <- MuseSelf
    StopStrings <- MuseStops
    Rounds <- MuseRounds
    Budget = 7
CHECK_DEADLOCK FALSE
INVARIANTS
    SessionDecodesOutput
    SessionCountsReasoning
