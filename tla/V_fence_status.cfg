\* The host completes a fence with an error.
CONSTANTS
    A = A
    B = B
    C = C
    WILDCARD = WILDCARD
    Nspaces = {A}
    LocalProcs <- A2
    Registered0 <- A2
    Signatures <- OverA
    Types = {"fence"}
    TimedTypes = {}
    CollectDirectives = {TRUE}
    HostStatus = {"SUCCESS", "ERR"}
    Trackers = {t1, t2}
    Faults = {}
    Parts = {"fences"}
    t1 = t1
    t2 = t2
    t3 = t3
    t4 = t4
    l1 = l1
    l2 = l2
    HOST = HOST
    NONE = NONE
    TimedFaults = {}
SPECIFICATION FaultsSpec
SYMMETRY FaultsSymmetry
INVARIANTS SameAnswer
