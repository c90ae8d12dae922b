\* A room on two pods; the sockets of the first may close at any time, also between the
\* locked step and the session map of another.
SPECIFICATION Spec
CONSTANTS
    c1 = c1
    c2 = c2
    c3 = c3
    t1 = t1
    t2 = t2
    t3 = t3
    t4 = t4
    a = a
    b = b
    None = None
    Socket = {c1, c2, c3}
    Token = {t1, t2, t3}
    Pod = {a, b}
    PodOf <- TwoPods
    MayDrop = {c1, c2}
    Hasty = TRUE
    LobbyTimeout = 1
    OrphanTimeout = 1
    RejoinTimeout = 2
    MaxAge = 2
SYMMETRY Alike
INVARIANTS TypeOK EntriesPointHome OneSeatEach
PROPERTIES HostIsKept OthersStay NotRemovedInUse SessionsKeepUp
CHECK_DEADLOCK FALSE
