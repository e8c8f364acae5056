\* Two nodes poll and sweep one video task; writes may fail and nodes may die.
CONSTANTS
    p1 = p1
    p2 = p2
    f1 = f1
    Tasks = {1}
    PlatformOf <- OneVideo
    Pollers = {p1, p2}
    Fetchers = {}
    Quotas = {2}
    Finals = {0, 1, 3}
    SubmitTimes = {1700000000, 1780000000}
    ItemTimes = {0}
    HasIds = {TRUE}
    Answers <- AllAnswers
    Glitches = TRUE
    Outcomes = {"ok", "fail", "lost"}
    SweepEnabled = TRUE
    SettleMayFail = FALSE
    ChannelsGo = FALSE
    StrayItems = FALSE
    QueryLimit = 1
    MaxCrashes = 1
SPECIFICATION Spec
SYMMETRY PollerSymmetry
INVARIANTS TypeOK NeverOverRefunded BilledOnce
PROPERTIES TerminalStays
CHECK_DEADLOCK FALSE
