\* Two requests of one subscription on a database that does not serialise them.
CONSTANTS
    r1 = r1
    r2 = r2
    Requests = {r1, r2}
    Profiles <- SubscriptionProfiles
    WalletStart = 0
    TokenStart = 3
    SubTotal = 3
    TrustQuota = 0
    Actuals = {1}
    ReserveTargets = {}
    Fees = {0}
    Outcomes = {"ok"}
    RetryTimes = 0
    RowLocks = FALSE
    Limited = FALSE
    MaxCrashes = 0
SPECIFICATION Spec
INVARIANTS SubscriptionBooks
CHECK_DEADLOCK FALSE
