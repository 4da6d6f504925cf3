SPECIFICATION Spec
CONSTANTS
    l1 = l1
    l2 = l2
    l3 = l3
    k1 = k1
    a1 = a1
    a2 = a2
    d1 = d1
    d2 = d2
    p1 = p1
    p2 = p2
    p3 = p3
    Slots = {r1, r2}
    Logins = {l1, l2, l3}
    ApiKeys = {k1}
    Accounts = {a1, a2}
    Owner <- MCOwner
    Dirs = {d1, d2}
    Proxies = {p1, p2, p3}
    Configs <- AllConfigs
    Origins = {"api", "other"}
    Segments = {"v1", "v2", "v3", "models", "messages"}
    Capacity = 2
    MaxEpoch = 2
    None = None
CHECK_DEADLOCK FALSE
SYMMETRY SlotSymmetry
CONSTRAINT Focused
INVARIANT MetadataOfToken
