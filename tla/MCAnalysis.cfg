SPECIFICATION FairSpec
CONSTANTS
    Ids = {a1, a2, a3}
    MaxConcurrent = 1
    MaxBackground = 2
    MaxTracked = 2
    Faults = {"cache", "expire", "restart"}
INVARIANTS
    TypeOK
    PermitsConserved
    BackgroundIsLive
    CompletedHasReport
    FailedHasNoReport
    StepsInOrder
    RunningVisible
PROPERTIES
    ImplementsJobService
    AcceptedTerminates
