SPECIFICATION FairSpec
CONSTANTS
    Messages = {1}
    Kinds = {"fallback", "unclear"}
    Matched = {1}
    ReadingClears = TRUE
    Pollers = {beat, scrape}
    Resenders = {scrape}
    NoMessage = none
    Nobody = nobody
    MaxAttempts = 2
    MaxPasses = 1
    MaxRevisions = 1
    MaxCrashes = 1
INVARIANTS TypeOK CardIsOfThisPass RunsAreCounted
PROPERTIES ReadIsKept EventuallyDecided
