SPECIFICATION Spec
CONSTANTS
    Calls = {c1, c2}
    LastCandle = 3
    Window = 2
    Length = 1
    Furthest = 1
    Clocks <- BothClocks
SYMMETRY Symmetry
INVARIANTS
    TypeOK
    RowsSettled
    ResultIsNew
    FailsOnlyWhenEmpty
