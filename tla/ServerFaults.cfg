CONSTANTS
    A = A
    B = B
    C = C
    WILDCARD = WILDCARD
    Nspaces = {A, B}
    LocalProcs <- A2B1
    Registered0 <- A2B1
    Signatures <- OverAorAB
    Types = {"fence"}
    TimedTypes = {}
    CollectDirectives = {TRUE}
    HostStatus = {"SUCCESS"}
    Trackers = {t1, t2, t3, t4}
    Faults = {}
    t1 = t1
    t2 = t2
    t3 = t3
    t4 = t4
    l1 = l1
    l2 = l2
    HOST = HOST
    NONE = NONE
    TimedFaults = {}
    Parts = {"fences", "lost", "refused", "timed", "modex", "job info"}
SPECIFICATION FaultsSpec
SYMMETRY FaultsSymmetry
INVARIANTS UpcallOnlyWhenAll ContributionsKept TrackersSound FaultsTrackersSound RequestsCounted
PROPERTIES FaultsAnswersAwaited
CHECK_DEADLOCK FALSE
