\* One pod, explicit leaves only.
SPECIFICATION Spec
CONSTANTS
    c1 = c1
    c2 = c2
    c3 = c3
    t1 = t1
    t2 = t2
    t3 = t3
    t4 = t4
    a = a
    b = b
    None = None
    Socket = {c1, c2, c3}
    Token = {t1, t2, t3}
    Pod = {a}
    PodOf <- OnePod
    MayDrop = {}
    Hasty = FALSE
    LobbyTimeout = 1
    OrphanTimeout = 1
    RejoinTimeout = 1
    MaxAge = 1
INVARIANTS SpeaksForItsSeat
CHECK_DEADLOCK FALSE
