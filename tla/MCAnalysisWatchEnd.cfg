SPECIFICATION WatchSpec
CONSTANTS
    Ids = {a1, a2}
    Watchers = {w1}
    MaxTurns = 2
    MaxConcurrent = 1
    MaxBackground = 1
    MaxTracked = 2
    Faults = {}
INVARIANT EndIsPushed
