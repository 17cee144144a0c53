SPECIFICATION Spec
CONSTANTS
    Ids = {a1, a2}
    MaxConcurrent = 1
    MaxBackground = 2
    MaxTracked = 2
    Faults = {}
INVARIANT FailureKeepsCause
