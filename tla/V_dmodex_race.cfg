\* A client asks for a process whose job is registered while the host works on the request.
CONSTANTS
    A = A
    B = B
    WILDCARD = WILDCARD
    HOST = HOST
    NONE = NONE
    LocalProcs <- A1B1
    Registered0 <- A1Only
    Nspaces = {A, B}
    Known0 = {A}
    Targets <- OnlyB0
    HostTargets = {}
    Immediate = {FALSE}
    Timed = {FALSE}
    Scopes = {"local"}
    HostReplies = {"data"}
    MaxPending = 1
    Lcds = {l1, l2}
    Events = {}
    Parts = {"modex"}
    t1 = t1
    t2 = t2
    t3 = t3
SPECIFICATION ProgressSpec
INVARIANTS NoStaleAnswer
