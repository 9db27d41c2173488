SPECIFICATION Spec
CONSTANTS
    MaxProposals = 1
    MaxVersion = 1
    MaxCards = 2
    MaxAttempts = 2
    Workers = {w1, w2}
    DryRun = {}
    Operator = {"reissue"}
CHECK_DEADLOCK FALSE
PROPERTY NoClaimWhileUndecided
