SPECIFICATION Spec
CONSTANTS
    Call = {c1, c2}
    Socket = {s1}
    Lock = {l1, l2}
    Reg = {r1}
    Target = {t1, t2}
    Native = {}
    Fake = {t1, t2}
    Dns = {}
    Port = {p1}
    PinnedPort = p1
    Pinned = {s1}
    Blocking = {}
    Disconnected = {s1}
    Unspec = Unspec
    MaxPending = 1
    MaxBacklog = 1
    Cleanup = TRUE
    None = None
SYMMETRY Targets
INVARIANTS
    OneConnectPerSocket
    PeerNameRequested
PROPERTY TableRefined
