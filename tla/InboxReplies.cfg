SPECIFICATION Spec
CONSTANTS
    Handlers = {h1, h2}
    MaxCards = 2
    MaxTexts = 2
    MaxPasses = 1
    MaxAttempts = 2
    Operator = {"reissue", "refresh", "bind", "reprocess"}
SYMMETRY HandlerSymmetry
CHECK_DEADLOCK FALSE
INVARIANTS OneReplyPerPass DraftIsKept OneOpenCard SentMeansConfirmed
PROPERTIES ClaimedAsApproved KeepsPromise
