SPECIFICATION ReadSpec
CONSTANTS
    Ids = {a1, a2}
    Readers = {r1, r2}
    MaxConcurrent = 1
    MaxBackground = 1
    MaxTracked = 2
    Faults = {"redis", "expire", "corrupt", "restart"}
SYMMETRY Symmetry
INVARIANTS
    CompletedReadsReport
    CachedReportsAreFinal
PROPERTY AnswersMoveForward
