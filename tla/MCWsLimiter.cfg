SPECIFICATION FairSpec
CONSTANTS
    Conns = {c1, c2, c3}
    Workers = {w1, w2}
    MaxConns = 1
    Ttl = 2
    Buffer = 2
    MaxAge = 1
INVARIANTS
    TypeOK
    LiveIsCounted
    StoreCap
PROPERTIES
    RejectsOnlyWhenFull
    StaleReclaimed
