SPECIFICATION AnsweredSpec
CONSTANTS
    Messages = {1, 2}
    Kinds = {"identified", "fallback"}
    Matched = {1}
    ReadingClears = FALSE
    Pollers = {beat}
    Resenders = {beat}
    NoMessage = none
    Nobody = nobody
    MaxAttempts = 1
    MaxPasses = 0
    MaxRevisions = 0
    MaxCrashes = 0
PROPERTIES EventuallyCaptured
