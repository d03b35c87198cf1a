SPECIFICATION ExchangeSpec
CONSTANTS
    Protocols = {"openai", "anthropic", "google", "cohere"}
    MaxPieces = 4
    MaxEvents = 7
    MaxTurns = 3
    MaxKinds = 2
    MaxAsked = 5
    LongTurns = 12
INVARIANTS
    WellFormed
    NothingLost
    UsageComplete
    RequestFaithful
    CachingRespected
    SettingsKept
    AnswerFaithful
CHECK_DEADLOCK FALSE
