\* One request of any kind, with Reserve, failing writes and a crash.
CONSTANTS
    r1 = r1
    r2 = r2
    Requests = {r1}
    Profiles <- AllProfiles
    WalletStart = 4
    TokenStart = 3
    SubTotal = 4
    TrustQuota = 3
    Actuals = {0, 1, 3, 5}
    ReserveTargets = {3}
    Fees = {0, 1}
    Outcomes = {"ok", "fail"}
    RetryTimes = 1
    RowLocks = FALSE
    Limited = TRUE
    MaxCrashes = 1
SPECIFICATION FairSpec
INVARIANTS TypeOK ChargedExactly SettledOrRefunded
PROPERTIES PreConsumeEnds ErrorsResolved
CHECK_DEADLOCK FALSE
