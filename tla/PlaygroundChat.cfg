SPECIFICATION FairSpec
CONSTANTS
    MAX_STREAM_RETRIES = 1
    MAX_AGENT_STEPS = 1
    MAX_TOOL_CALLS = 2
    AutoStart = FALSE
    MaxMoves = 1
    MaxEdits = 1
    MaxConversions = 1
    MaxSends = 2
    MaxConversations = 2
    MaxReloads = 1
    MaxLostSaves = 1
    Answers <- Reading
INVARIANTS
    TypeOK
    OneGeneration
    WritesOwnMessage
    NoMixing
    IdleSettled
    LastOfMode
    PairsValid
PROPERTIES
    AnswersKept
    GenerationEnds
CHECK_DEADLOCK FALSE
