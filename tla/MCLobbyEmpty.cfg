\* One human on one pod who leaves a lobby.
SPECIFICATION FairSpec
CONSTANTS
    c1 = c1
    c2 = c2
    c3 = c3
    t1 = t1
    t2 = t2
    t3 = t3
    t4 = t4
    a = a
    b = b
    None = None
    Socket = {c1, c2}
    Token = {t1, t2}
    Pod = {a}
    PodOf <- OnePod
    MayDrop = {}
    Hasty = TRUE
    LobbyTimeout = 1
    OrphanTimeout = 2
    RejoinTimeout = 2
    MaxAge = 2
PROPERTIES EmptyRoomsGo
CHECK_DEADLOCK FALSE
