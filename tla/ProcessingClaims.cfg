SPECIFICATION FairSpec
CONSTANTS
    Jobs = {j1}
    Slots = {s1, s2}
    MaxAttempts = 2
    Outcomes = {"filtered", "permanent", "proposal", "retryable"}
    OrdersClose = TRUE
    MarkersFail = TRUE
    MaxClaims = 2
    MaxQueued = 1
    MaxRequeues = 1
    MaxCrashes = 1
INVARIANTS IInv OneProposal RunsAreCapped
PROPERTIES DecidedIsKept EventuallyHandled
CHECK_DEADLOCK FALSE
