SPECIFICATION Spec
CONSTANTS
    MaxProposals = 2
    MaxVersion = 2
    MaxCards = 2
    MaxAttempts = 2
    Workers = {w1}
    DryRun = {}
    Operator = {"reissue", "regenerate", "edit_existing", "sync", "reset"}
CHECK_DEADLOCK FALSE
INVARIANTS AtMostOneOffer OneBlockingAttempt OfferWasApproved
