CONSTANTS
    A = A
    B = B
    WILDCARD = WILDCARD
    HOST = HOST
    NONE = NONE
    LocalProcs <- A1B1
    Registered0 <- A1Only
    Nspaces = {A, B}
    Known0 = {A, B}
    Targets <- LocalAndRemote
    HostTargets <- OnlyB0
    Immediate = {FALSE, TRUE}
    Timed = {FALSE}
    Scopes = {"local", "global"}
    HostReplies = {"data", "error"}
    MaxPending = 1
    Lcds = {l1, l2}
    Events = {}
    t1 = t1
    t2 = t2
    t3 = t3
    Parts = {"modex", "late"}
SPECIFICATION ProgressSpec
INVARIANTS RequestsSound NoStaleAnswer UpcallOnlyWhenAll
PROPERTIES EveryGetAnswered EveryCallAnswered
