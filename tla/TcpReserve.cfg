SPECIFICATION Spec
CONSTANTS
    Call = {c1}
    Socket = {s1}
    Lock = {l1}
    Reg = {r1}
    Target = {t1}
    Native = {}
    Fake = {}
    Dns = {}
    Port = {p1, p2}
    PinnedPort = p1
    Pinned = {}
    Blocking = {s1}
    Disconnected = {}
    Unspec = Unspec
    MaxPending = 1
    MaxBacklog = 1
    Cleanup = FALSE
    None = None
INVARIANT ReservedBeforeConnect
