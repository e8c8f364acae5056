\* A node with a Suno and a Gemini task of which one is polled at a time, the query of
\* a user, an answer that says 100% too early, a channel that may go, rows without ids and
\* items nobody asked for.
CONSTANTS
    p1 = p1
    p2 = p2
    f1 = f1
    Tasks = {1, 2}
    PlatformOf <- SunoGemini
    Pollers = {p1}
    Fetchers = {f1}
    Quotas = {2}
    Finals = {0}
    SubmitTimes = {1780000000}
    ItemTimes = {1790000000}
    HasIds = {TRUE, FALSE}
    Answers <- LooseAnswers
    Glitches = FALSE
    Outcomes = {"ok"}
    SweepEnabled = TRUE
    SettleMayFail = FALSE
    ChannelsGo = TRUE
    StrayItems = TRUE
    QueryLimit = 1
    MaxCrashes = 0
SPECIFICATION FairSpec
INVARIANTS NeverOverRefunded
PROPERTIES TaskEnds KeepsPolling
CHECK_DEADLOCK FALSE
