\* A client asks for the job-level information of a job that the host then registers.
CONSTANTS
    A = A
    B = B
    WILDCARD = WILDCARD
    HOST = HOST
    NONE = NONE
    LocalProcs <- A1B1
    Registered0 <- A1Only
    Nspaces = {A, B}
    Known0 = {A}
    Targets <- JobInfoOfB
    HostTargets = {}
    Immediate = {FALSE}
    Timed = {FALSE}
    Scopes = {"local"}
    HostReplies = {"nodata"}
    MaxPending = 1
    Lcds = {l1, l2}
    Events = {}
    Parts = {"modex"}
    t1 = t1
    t2 = t2
    t3 = t3
SPECIFICATION ProgressSpec
INVARIANTS OwnJobInfo
