SPECIFICATION FairSpec
CONSTANTS
    Probers = {beat}
    PauseTask = beat
    Bot = bot
    MaxConnects = 1
    MaxReplenish = 1
    MaxCrashes = 1
    Calls = {c1}
    Proxies = 2
CHECK_DEADLOCK FALSE
INVARIANTS IInv EffectIsAmbiguous OneClickPerCall PauseIsKept
PROPERTIES EventuallyResumed
