SPECIFICATION RoutesSpec
CONSTANTS
    Call = {c1, c2}
    Socket = {s1, s2}
    Lock = {l1, l2}
    Reg = {r1, r2}
    Target = {t1, t2}
    Native = {}
    Fake = {}
    Dns = {t2}
    Port = {p1}
    PinnedPort = p1
    Pinned = {}
    Blocking = {}
    Disconnected = {s1, s2}
    Unspec = Unspec
    MaxPending = 2
    MaxBacklog = 2
    Cleanup = FALSE
    None = None
    MaxCalls = 4
SYMMETRY Sockets
INVARIANTS
    RoutedAsRequested
    UnrelatedNotSerialized
CHECK_DEADLOCK FALSE
