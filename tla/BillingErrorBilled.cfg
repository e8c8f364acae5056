\* A billable error of a trusted user.
CONSTANTS
    r1 = r1
    r2 = r2
    Requests = {r1}
    Profiles <- TrustProfiles
    WalletStart = 4
    TokenStart = 3
    SubTotal = 1
    TrustQuota = 3
    Actuals = {1}
    ReserveTargets = {}
    Fees = {0, 1}
    Outcomes = {"ok"}
    RetryTimes = 0
    RowLocks = TRUE
    Limited = FALSE
    MaxCrashes = 0
SPECIFICATION Spec
INVARIANTS BillableErrorIsBilled
CHECK_DEADLOCK FALSE
