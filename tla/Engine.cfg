SPECIFICATION FairSpec
CONSTANTS
    Note = {n1, n2, n3}
    ChannelCap = 1
    RequestCap = 1
INVARIANTS
    RelaysDrained
PROPERTIES
    AbortEnds
    ReceiverJoined
    Served
CHECK_DEADLOCK FALSE
