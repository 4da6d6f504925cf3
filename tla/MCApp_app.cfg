SPECIFICATION Spec
CONSTANTS
    p1 = p1
    p2 = p2
    p3 = p3
    a = a
    b = b
    c = c
    d = d
    v = v
    w = w
    x = x
    n = n
    e = e
    f = f
    Procs = {p1, p2, p3}
    Ports = {a, b}
    NoProc = NoProc
    NoPort = NoPort
    MaxQueue = 1
    Paths = {c, d}
    Contents = {v, w, x}
    Broken = Broken
    Missing = Missing
    Unread = Unread
    NoPath = NoPath
    Names = {n}
    Endpoints = {e, f}
    NoEndpoint = NoEndpoint
    Direct = Direct
    Endpoint <- MCEndpoint
    MaxStamp = 3
    MaxTasks = 2
    Follow = p1
    FollowAt = a
    FirstPath = c
    FirstContent = v
INVARIANTS
    RestartOffered
    CacheSeesEdits
    StaleProbeOnce
    LaunchAnswered
PROPERTIES
    TasksSettle
    ShowsArrive
CHECK_DEADLOCK FALSE
