SPECIFICATION RelayFairSpec
CONSTANTS
    BUFFER = 1
    SockBuf = 2
    MaxBytes = 3
INVARIANTS
    HostEndDelivered
    ApplicationForwarded
PROPERTY ClosesAfterEof
CHECK_DEADLOCK FALSE
