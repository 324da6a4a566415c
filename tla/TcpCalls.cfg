SPECIFICATION FairSpec
CONSTANTS
    Call = {c1, c2}
    Socket = {s1}
    Lock = {l1}
    Reg = {r1}
    Target = {t1, n1}
    Native = {n1}
    Fake = {t1}
    Dns = {}
    Port = {p1}
    PinnedPort = p1
    Pinned = {s1}
    Blocking = {s1}
    Disconnected = {s1}
    Unspec = Unspec
    MaxPending = 1
    MaxBacklog = 1
    Cleanup = FALSE
    None = None
INVARIANTS
    PermitsConserved
PROPERTIES
    Answered
    PermitsReturn
