SPECIFICATION WatchFairSpec
CONSTANTS
    Ids = {a1, a2}
    Watchers = {w1}
    MaxTurns = 3
    MaxConcurrent = 1
    MaxBackground = 1
    MaxTracked = 2
    Faults = {"redis", "expire", "restart"}
INVARIANTS
    ToldIsTrue
    CompletedMessageHasReport
PROPERTY ConnectionEnds
