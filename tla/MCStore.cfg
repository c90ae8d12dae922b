\* Requests on two pods, the second of which may crash, a reaper, and a third pod
\* that has clients only.
SPECIFICATION FairSpec
CONSTANTS
    t1 = t1
    t2 = t2
    r = r
    a = a
    b = b
    c = c
    None = None
    Task = {t1, t2, r}
    Reaper = {r}
    Asks <- MCAsks
    Pod = {a, b, c}
    PodOf <- MCPodOf
    Watched = {b, c}
    Backend = {"memory", "redis"}
    MayCrash = {b}
    Faults = {}
    MaxChanges = 2
    MaxUnderWay = 1
INVARIANTS TypeOK OneWriter EventsInOrder
PROPERTIES Atomic  LockIsFreed DanglingCodesGo
