SPECIFICATION Spec
CONSTANTS
    MaxProposals = 1
    MaxVersion = 2
    MaxCards = 3
    MaxAttempts = 2
    Workers = {w1, w2}
    DryRun = {w2}
    Operator = {"reissue", "regenerate"}
CHECK_DEADLOCK FALSE
INVARIANTS IInv SimulatedMeansConfirmed OneActionableCard InFlightTextIsCurrent
PROPERTIES KeepsPromise
