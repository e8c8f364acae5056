\* A user queries a Gemini task that has failed before the poller sees it.
CONSTANTS
    p1 = p1
    p2 = p2
    f1 = f1
    Tasks = {1}
    PlatformOf <- OneGemini
    Pollers = {p1}
    Fetchers = {f1}
    Quotas = {1}
    Finals = {0}
    SubmitTimes = {1780000000}
    ItemTimes = {0}
    HasIds = {TRUE}
    Answers <- PlainAnswers
    Glitches = FALSE
    Outcomes = {"ok"}
    SweepEnabled = FALSE
    SettleMayFail = FALSE
    ChannelsGo = FALSE
    StrayItems = FALSE
    QueryLimit = 1
    MaxCrashes = 0
SPECIFICATION Spec
INVARIANTS FailedTaskRefunded
CHECK_DEADLOCK FALSE
