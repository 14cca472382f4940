\* Three clients, one registered when it calls.
CONSTANTS
    A = A
    B = B
    C = C
    WILDCARD = WILDCARD
    Nspaces = {A}
    LocalProcs <- A3
    Registered0 <- A1
    Signatures <- OverA
    Types = {"fence"}
    TimedTypes = {}
    CollectDirectives = {TRUE}
    HostStatus = {"SUCCESS"}
    Trackers = {t1, t2}
    Faults = {}
    Parts = {"fences"}
    t1 = t1
    t2 = t2
    t3 = t3
    t4 = t4
    l1 = l1
    l2 = l2
    HOST = HOST
    NONE = NONE
    TimedFaults = {}
SPECIFICATION FaultsSpec
SYMMETRY FaultsSymmetry
INVARIANTS UpcallOnlyWhenAll
