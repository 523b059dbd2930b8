SPECIFICATION LiveSpec
CONSTANTS
    s1 = s1
    s2 = s2
    h1 = h1
    h2 = h2
    k1 = k1
    k2 = k2
    c1 = c1
    c2 = c2
    a1 = a1
    a2 = a2
    Nowhere = Nowhere
    NoAdmin = NoAdmin
    Servers = {s1, s2}
    HashKeys = {h1, h2}
    Configured <- OneEach
    Keys = {k1, k2}
    Order <- TwoOrders
    Options <- ThreeOptions
    Capacity = 2
    Clients = {c1, c2}
    Admins = {a1, a2}
    MaxCalls = 2
INVARIANTS
    OnlyLateEntriesAreStale
    CacheWithinCapacity
    RingMatchesServers
PROPERTIES
    CallsEnd
CHECK_DEADLOCK FALSE
