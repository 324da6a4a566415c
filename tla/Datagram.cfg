SPECIFICATION FairSpec
CONSTANTS
    Destination = {v, d, e, other}
    Port53 = {v, d, e}
    Virtual = v
    Local = {l1, l2}
    MAX_SERVERS = 2
    Call = {c1}
    Requests <- Calls
    MaxBatch = 2
    MaxQueries = 2
    None = None
INVARIANTS
    SourcePreserved
    CountExact
PROPERTIES
    Released
    TimesOut
CHECK_DEADLOCK FALSE
