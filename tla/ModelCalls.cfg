SPECIFICATION Spec
CONSTANTS
    Calls = {c1, c2}
    Models = {m1}
    TTL = 2
    MaxNow = 2
    MaxCalls = 2
CHECK_DEADLOCK FALSE
INVARIANTS NoHiddenPaidCall RouterChoiceIsRecent
SYMMETRY Symmetry
