\* One request, the channel test and the cache rebuild while statuses change.
CONSTANTS
    r1 = r1
    Requests = {r1}
    Asks <- AskAll
    Channels = {1, 2}
    NumGroups = 2
    GroupsOf <- FirstShared
    Priority <- PairPriority
    Weight <- PairWeight
    RetryTimes = 1
    Syncers = {1}
    Timer = 1
    InitStatus = {"enabled"}
    MaxEvents = 2
    MaxTests = 1
SPECIFICATION FairSpec
INVARIANTS TypeOK ListedEnabled AttemptsBounded
PROPERTIES CacheConverges NoGroupOverlooked
CHECK_DEADLOCK FALSE
