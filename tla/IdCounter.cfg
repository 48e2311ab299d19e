SPECIFICATION FairSpec
CONSTANTS
    Threads = {t1, t2, t3}
    Floors = {0, 2, 4}
    MaxId = 5
INVARIANTS
    TypeOK
    NeverBehind
PROPERTIES
    ImplementsIdSupply
    EnsureTerminates
