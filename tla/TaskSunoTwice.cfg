\* Two nodes and a Suno task.
CONSTANTS
    p1 = p1
    p2 = p2
    f1 = f1
    Tasks = {1}
    PlatformOf <- OneSuno
    Pollers = {p1, p2}
    Fetchers = {}
    Quotas = {1}
    Finals = {0}
    SubmitTimes = {1780000000}
    ItemTimes = {0}
    HasIds = {TRUE}
    Answers <- PlainAnswers
    Glitches = FALSE
    Outcomes = {"ok"}
    SweepEnabled = TRUE
    SettleMayFail = FALSE
    ChannelsGo = FALSE
    StrayItems = FALSE
    QueryLimit = 1
    MaxCrashes = 0
SPECIFICATION Spec
INVARIANTS NeverOverRefunded
CHECK_DEADLOCK FALSE
