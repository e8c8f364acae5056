SPECIFICATION FairSpec
CONSTANTS
    MAX_STREAM_RETRIES = 0
    MAX_AGENT_STEPS = 2
    MAX_TOOL_CALLS = 1
    AutoStart = TRUE
    MaxMoves = 0
    MaxEdits = 0
    MaxConversions = 1
    MaxSends = 2
    MaxConversations = 2
    MaxReloads = 0
    MaxLostSaves = 0
    Answers <- Writing
INVARIANTS
    PairsValid
    ApprovedOnly
PROPERTIES
    RunEnds
CHECK_DEADLOCK FALSE
