\* A process that serves its first client, and one that has others.
SPECIFICATION SpecPods
CONSTANTS
    c1 = c1
    c2 = c2
    c3 = c3
    t1 = t1
    t2 = t2
    t3 = t3
    a = a
    b = b
    None = None
    Socket = {c1, c2}
    Token = {t1, t2}
    Pod = {a, b}
    PodOf <- TwoPods
    MayDrop = {}
    Hasty = FALSE
    MayCrash = {}
    Busy = {b}
    ScanFails = FALSE
    MayLeave = {c1, c2}
    MayReclaim = {c2}
    Publicity = {TRUE, FALSE}
    MayReady <- AnyReady
    LobbyTimeout = 1
    OrphanTimeout = 2
    RejoinTimeout = 2
    MaxAge = 2
PROPERTIES SeatsAreNotTaken
CHECK_DEADLOCK FALSE
