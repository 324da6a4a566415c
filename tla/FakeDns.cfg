SPECIFICATION Spec
CONSTANTS
    Domain = {d1, d2, d3, d4}
    Client = {c1, c2}
    POOL_START = 2
    PoolSize = 3
    None = None
INVARIANTS
    MapsAgree
    FreshAnswerRecovers
PROPERTIES
    EvictsOldest
CHECK_DEADLOCK FALSE
