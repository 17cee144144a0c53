SPECIFICATION Spec
CONSTANTS
    Calls = {c1}
    LastCandle = 5
    Window = 2
    Length = 1
    Furthest = 0
    Clocks <- OnlyUTC
INVARIANT FullSet
