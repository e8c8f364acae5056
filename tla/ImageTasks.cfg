\* Two conversations, two submissions, a reload, a full storage.
CONSTANTS
    MaxConversations = 2
    MaxSubmissions = 2
    maxAttempts = 2
    MaxReloads = 1
    MaxLostSaves = 1
    MaxConversions = 1
    Bodies = {"images", "other"}
SPECIFICATION FairSpec
INVARIANTS OwnMessage ImagesOwn Recoverable
PROPERTIES SettledStays SubmissionEnds
CHECK_DEADLOCK FALSE
