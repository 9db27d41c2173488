SPECIFICATION Spec
CONSTANTS
    Rows = {1, 2}
    Alerts = {2}
    InboxCards = {1}
    Draftless = {}
    ReviewParts = 2
    Workers = {beat, bot}
    Beat = beat
    BatchLimit = 2
    MaxAttempts = 2
    Faults = {"refused", "timeout", "disconnect"}
    MaxClaims = 2
    MaxRequeues = 1
    MaxCrashes = 1
INVARIANTS IInv CardShownOnce RecordedMeansShown
PROPERTIES EvidenceIsFinal
CHECK_DEADLOCK FALSE
