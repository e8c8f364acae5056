\* Two concurrent requests that may fall back from one payer to the other, while
\* writes may fail or lose their acknowledgement, the process may crash once and
\* the subscription may expire.
CONSTANTS
    r1 = r1
    r2 = r2
    Requests = {r1, r2}
    Profiles <- PairProfiles
    WalletStart = 4
    TokenStart = 3
    SubTotal = 3
    TrustQuota = 3
    Actuals = {1, 3}
    ReserveTargets = {}
    Fees = {0, 1}
    Outcomes = {"ok", "fail", "lost"}
    RetryTimes = 1
    RowLocks = TRUE
    Limited = FALSE
    MaxCrashes = 1
SPECIFICATION Spec
SYMMETRY RequestSymmetry
INVARIANTS ChargedExactly TokenFollowsPayer OnePayer NoOverRefund SubscriptionBooks
PROPERTIES KeepsContract
CHECK_DEADLOCK FALSE
