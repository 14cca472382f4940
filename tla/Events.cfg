CONSTANTS
    Parts = {"handlers", "server", "cache", "hotel"}
    num_rooms = 3
    Occupants = {e1, e2, e3, e4, e5}
    NULL = NULL
    WILDCARD = WILDCARD
    MAX_ERR_CONSTANT = MAX_ERR_CONSTANT
    Server = Server
    c1 = c1
    c2 = c2
    grp = grp
    rs = rs
    ra = ra
    rm = rm
    rd = rd
    rl = rl
    rf = rf
    rg = rg
    rh = rh
    rk = rk
    rn = rn
    re = re
    rp = rp
    ru = ru
    ro = ro
    rt = rt
    e1 = e1
    e2 = e2
    e3 = e3
    e4 = e4
    e5 = e5
    p1 = p1
    p2 = p2
    HandlerScenarios <- SomeHandlers
    ServerScenarios <- SomeDistributions
SPECIFICATION MCSpec
INVARIANTS RoomsSound HandlersSound ServerCovers CaddiesSound
PROPERTIES EventsDelivered CacheSound EventsEnd
CHECK_DEADLOCK FALSE
