SPECIFICATION FairSpec
CONSTANTS
    Values = {1, 2}
    Fresh = {1}
    PosTtl = 3
    NegTtl = 2
    MaxRetries = 2
    MaxClock = 3
INVARIANTS
    OneCacheAnswers
    SameRateTwice
    CpiIsFresh
PROPERTY AnalysisEnds
