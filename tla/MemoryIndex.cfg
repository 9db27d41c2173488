SPECIFICATION FairSpec
CONSTANTS
    NumJobs = 1
    MaxText = 2
    Payloads <- MCPayloads
    Edits <- MCEdits
    KeyOf <- MCKeyOf
    Workers = {w1, w2}
    Limit = 2
    None = None
    MaxEvents = 3
INVARIANTS EmbeddingIsCurrent
PROPERTIES RemovedWasIndexed EventuallyIndexed
