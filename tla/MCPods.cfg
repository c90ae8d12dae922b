\* Two processes with other clients, one of which may be killed.
SPECIFICATION FairPods
CONSTANTS
    c1 = c1
    c2 = c2
    c3 = c3
    t1 = t1
    t2 = t2
    t3 = t3
    a = a
    b = b
    None = None
    Socket = {c1, c2, c3}
    Token = {t1, t2, t3}
    Pod = {a, b}
    PodOf <- TwoPods
    MayDrop = {c2}
    Hasty = FALSE
    MayCrash = {a}
    Busy = {b}
    ScanFails = FALSE
    MayLeave = {c2}
    MayReclaim = {c2}
    Publicity = {FALSE}
    MayReady <- OneIsReady
    LobbyTimeout = 1
    OrphanTimeout = 1
    RejoinTimeout = 1
    MaxAge = 1
INVARIANTS PodsTypeOK
PROPERTIES SessionsKeepUp OnlyReclaimMixesSeats OnlyCompactionTakesSeats ReapedCanReturn ZombieSeatsGo DroppedRoomsGo
CHECK_DEADLOCK FALSE
