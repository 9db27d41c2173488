SPECIFICATION FairSpec
CONSTANTS
    Rows = {1, 2}
    Alerts = {2}
    InboxCards = {1}
    Draftless = {1}
    ReviewParts = 2
    Workers = {beat, bot}
    Beat = beat
    BatchLimit = 1
    MaxAttempts = 2
    Faults = {"refused", "timeout"}
    MaxClaims = 4
    MaxRequeues = 0
    MaxCrashes = 1
PROPERTIES EventuallySettled
