---------------------------- MODULE Collectives ----------------------------
(***************************************************************************)
(* Collective operations in the PMIx server: how the calls of the local    *)
(* clients to fence, connect and disconnect are gathered in trackers       *)
(* (pmix_server_trkr_t), passed to the host resource manager once, and     *)
(* answered.                                                               *)
(*                                                                         *)
(* Every handler below runs in the server's one progress thread and is one *)
(* action.  The host answers from threads of its own; its callbacks, and   *)
(* those the library makes to itself, only append to `shifted', the queue  *)
(* of events active in the progress thread (PMIX_THREADSHIFT).             *)
(*                                                                         *)
(* Sources: src/src/server/pmix_server_ops.c, src/src/server/pmix_server.c *)
(* and the server half of src/src/mca/ptl/base/ptl_base_sendrecv.c.        *)
(***************************************************************************)
EXTENDS Integers, Sequences, FiniteSets

CONSTANTS
    LocalProcs,         \* the processes on this node, [ns |-> n, rank |-> r]
    Registered0,        \* those registered before the first client calls
    Nspaces,            \* the nspaces that collectives name
    WILDCARD,           \* PMIX_RANK_WILDCARD
    Signatures,         \* the arrays of procs that clients pass
    Types,              \* which of the three collectives clients call
    TimedTypes,         \* those they call with PMIX_TIMEOUT as well
    CollectDirectives,  \* the values of PMIX_COLLECT_DATA that clients pass
    HostStatus,         \* the statuses the host returns in its callback
    Trackers,           \* identities of tracker objects
    Faults              \* what may go wrong, see FaultKinds

AllTypes == {"fence", "connect", "disconnect"}

FaultKinds ==
    {"lost",        \* the connection to a client is lost
     "reject",      \* the host refuses an upcall
     "noinfo",      \* the job info of a connecting nspace cannot be fetched
     "landing"}     \* a direct modex reply creates the object of an nspace

\* What a server can be given.  An array of procs names a process once.
ASSUME CollectivesAssumption ==
    /\ IsFiniteSet(LocalProcs)
    /\ LocalProcs \subseteq [ns : Nspaces, rank : {p.rank : p \in LocalProcs}]
    /\ \A p \in LocalProcs : p.rank # WILDCARD
    /\ Registered0 \subseteq LocalProcs
    /\ \A s \in Signatures :
          /\ s \in Seq([ns : Nspaces, rank : {p.rank : p \in LocalProcs} \cup {WILDCARD}])
          /\ \A i, j \in DOMAIN s : s[i] = s[j] => i = j
          /\ \A i, j \in DOMAIN s : s[i].ns = s[j].ns /\ s[i].rank = WILDCARD => i = j
    /\ Types \subseteq AllTypes
    /\ TimedTypes \subseteq {"fence", "connect"}
    /\ CollectDirectives \subseteq BOOLEAN
    /\ Faults \subseteq FaultKinds

VARIABLES
    nspaces,            \* pmix_server_globals.nspaces: the known nspaces
    nlocalprocs,        \* of each nspace, as told by the host
    all_registered,     \* of each nspace
    ranks,              \* the registered local processes, over all nspaces
    gone,               \* processes whose connection was lost
    calls,              \* client side: the collectives a process waits for
    collectives,        \* pmix_server_globals.collectives: list of trackers
    trk,                \* the tracker objects
    held,               \* how many callbacks the host still owes per tracker
    shifted,            \* events queued for the progress thread
    replies             \* the replies sent by the last step

vars == <<nspaces, nlocalprocs, all_registered, ranks, gone, calls,
          collectives, trk, held, shifted, replies>>

nsvars == <<nspaces, nlocalprocs, all_registered, ranks, gone>>

-----------------------------------------------------------------------------
(* Processes, arrays of processes and lists                                *)

\* An element of an array of procs names process p.
Names(e, p) == e.ns = p.ns /\ e.rank \in {WILDCARD, p.rank}

ToSet(s) == {s[i] : i \in DOMAIN s}

\* The local processes that take part in a collective over pcs.
Participants(pcs) == {p \in LocalProcs : \E i \in DOMAIN pcs : Names(pcs[i], p)}

\* A collective as a client sees it: the order of the array does not matter.
CallOf(type, pcs) == [type |-> type, procs |-> ToSet(pcs)]

\* pmix_list_remove_item.
Without(list, x) ==
    LET k == CHOOSE k \in DOMAIN list : list[k] = x
    IN  [i \in 1 .. (Len(list) - 1) |-> IF i < k THEN list[i] ELSE list[i + 1]]

LocalNspaces == {p.ns : p \in LocalProcs}

-----------------------------------------------------------------------------
(* Trackers.  refs is the reference count: one for the library, one for    *)
(* each caddy with a timer.  At zero the object is freed.  An event that   *)
(* still runs on it finds the memory as it was left, and its PMIX_RELEASE   *)
(* takes the count below zero (Misused).  event_active says that the        *)
(* tracker's own, long timer is pending.                                    *)

NoTracker ==
    [type |-> "none", pcs |-> <<>>, nlocal |-> 0, def_complete |-> FALSE,
     local_cbs |-> <<>>, collect_type |-> "no", lost_connection |-> FALSE,
     event_active |-> FALSE, refs |-> 0]

Live(t) == trk[t].refs > 0

Misused(t) == trk[t].refs < 0

Listed(t) == t \in ToSet(collectives)

Queued(t) == \E i \in DOMAIN shifted : shifted[i].trk = t

\* Memory that nothing refers to any more, and so may become a new tracker.  What
\* was misused is left as it is, for Misused to be seen.
Unused(t) == trk[t].refs = 0 /\ ~Listed(t) /\ ~Queued(t) /\ held[t] = 0

Mut_SameProcs_in_order(procs, pcs) == procs = pcs

\* get_tracker: does an array of procs match a tracker's?
SameProcs(procs, pcs) ==
    /\ Len(procs) = Len(pcs)
    /\ \A i \in DOMAIN procs : \E j \in DOMAIN pcs : procs[i] = pcs[j]

Matches(t, type, procs) == trk[t].type = type /\ SameProcs(procs, trk[t].pcs)

\* get_tracker: the places of the list where the operation is found, of which
\* the first is taken.
Found(type, procs) == {k \in DOMAIN collectives : Matches(collectives[k], type, procs)}

\* new_tracker: the elements of the array whose nspace is known but not all of
\* whose clients are registered.
Undefined(procs) ==
    {i \in DOMAIN procs : procs[i].ns \in nspaces /\ ~all_registered[procs[i].ns]}

\* new_tracker: the elements it looks at.  From the one after the first
\* undefined one on, they are not looked at.
LookedAt(procs) == {i \in DOMAIN procs : \A j \in Undefined(procs) : i <= j}

Mut_new_tracker_one_per_entry(type, procs) ==
    [type |-> type, pcs |-> procs,
     nlocal |-> Cardinality({i \in LookedAt(procs) : \E p \in ranks : Names(procs[i], p)}),
     def_complete |-> Undefined(procs) = {},
     local_cbs |-> <<>>, collect_type |-> "no", lost_connection |-> FALSE,
     event_active |-> FALSE, refs |-> 1]

\* new_tracker: count the registered local processes that are named.
new_tracker(type, procs) ==
    [type |-> type, pcs |-> procs,
     nlocal |-> Cardinality({x \in LookedAt(procs) \X ranks : Names(procs[x[1]], x[2])}),
     def_complete |-> Undefined(procs) = {},
     local_cbs |-> <<>>, collect_type |-> "no", lost_connection |-> FALSE,
     event_active |-> FALSE, refs |-> 1]

Mut_LocallyComplete_undefined(r) == Len(r.local_cbs) = r.nlocal

LocallyComplete(r) == r.def_complete /\ Len(r.local_cbs) = r.nlocal

\* Add a caddy for process p; one with a timer retains the tracker.
Contribute(r, p, timer) ==
    [r EXCEPT !.local_cbs = Append(@, [proc |-> p, timer |-> timer]),
              !.refs = @ + IF timer = "none" THEN 0 ELSE 1]

\* References held by the caddies of a tracker.
TimerRefs(r) == Cardinality({i \in DOMAIN r.local_cbs : r.local_cbs[i].timer \in {"armed", "fired"}})

ProcsOf(r) == {r.local_cbs[i].proc : i \in DOMAIN r.local_cbs}

-----------------------------------------------------------------------------
(* Initial state: the host has registered every nspace with local processes *)
(* and the clients of Registered0.                                          *)

Init ==
    /\ nspaces = LocalNspaces
    /\ nlocalprocs = [n \in Nspaces |-> Cardinality({p \in LocalProcs : p.ns = n})]
    /\ ranks = Registered0
    /\ all_registered = [n \in Nspaces |-> \A p \in LocalProcs : p.ns = n => p \in Registered0]
    /\ gone = {}
    /\ calls = [p \in LocalProcs |-> {}]
    /\ collectives = <<>>
    /\ trk = [t \in Trackers |-> NoTracker]
    /\ held = [t \in Trackers |-> 0]
    /\ shifted = <<>>
    /\ replies = <<>>

-----------------------------------------------------------------------------
(* Requests of clients                                                      *)

\* The list holds no freed tracker.  What a walk along a list that does would
\* find is undefined: the model stops there, see ListedLive.
ListIntact == \A k \in DOMAIN collectives : Live(collectives[k])

\* A connected process asks for a collective that it takes part in and is not
\* already waiting for.
MayCall(p, type, procs) ==
    /\ ListIntact
    /\ type \in Types
    /\ p \in ranks
    /\ p \in Participants(procs)
    /\ CallOf(type, procs) \notin calls[p]

\* The tracker the request goes to: the first one found, or else a new one.
TrackerFor(type, procs) ==
    IF Found(type, procs) # {}
    THEN {collectives[k] : k \in {k \in Found(type, procs) :
                                     \A j \in Found(type, procs) : k <= j}}
    ELSE {t \in Trackers : Unused(t)}

IsNew(t) == ~Listed(t)

TrackerRecord(t, type, procs) ==
    IF IsNew(t) THEN new_tracker(type, procs) ELSE trk[t]

TrackerList(t) == IF IsNew(t) THEN Append(collectives, t) ELSE collectives

Timers(type) == IF type \in TimedTypes THEN {"none", "armed"} ELSE {"none"}

\* The request is one of several: its caller waits.
Wait(t, r, p, call) ==
    /\ trk' = [trk EXCEPT ![t] = r]
    /\ collectives' = TrackerList(t)
    /\ calls' = [calls EXCEPT ![p] = @ \cup {call}]
    /\ replies' = <<>>
    /\ UNCHANGED shifted

\* An error is returned to the switchyard, which answers the caller.
Refused(p, call) ==
    /\ replies' = <<[proc |-> p, call |-> call, status |-> "ERROR"]>>
    /\ UNCHANGED <<calls, held, shifted>>

\* The directive of the first caller is the tracker's, a different one of a
\* later caller makes it invalid.
CollectType(t, r, collect) ==
    LET asked == IF collect THEN "yes" ELSE "no"
    IN  IF IsNew(t) \/ r.collect_type = asked THEN asked ELSE "invalid"

\* PMIX_RELEASE of a tracker.  Only the references of timers remain; when there
\* are none, it is freed with all its caddies.
Drop(r) ==
    LET refs == r.refs - 1
    IN  [r EXCEPT !.refs = refs, !.local_cbs = IF refs = 0 THEN <<>> ELSE @]

\* When the host refuses a fence, the tracker is released, and so is the caller's
\* caddy, by the switchyard, with the reference its timer holds.  If the timers of
\* other callers keep the tracker, the freed caddy is still one of its own.
RefusedFence(r, p) ==
    LET d == Drop(r)
    IN  IF d.refs = 0 THEN d
        ELSE [d EXCEPT !.local_cbs = Append(@, [proc |-> p, timer |-> "freed"])]

\* The tracker leaves the list when the host refuses.
pmix_server_fence(p, procs, collect, timer) ==
    /\ MayCall(p, "fence", procs)
    /\ \E t \in TrackerFor("fence", procs) :
         LET call == CallOf("fence", procs)
             r0 == TrackerRecord(t, "fence", procs)
             r1 == [r0 EXCEPT !.collect_type = CollectType(t, r0, collect)]
             r == Contribute(r1, p, timer)
         IN  \/ /\ ~LocallyComplete(r)
                /\ Wait(t, r, p, call)
                /\ UNCHANGED held
             \/ /\ LocallyComplete(r)
                /\ Wait(t, r, p, call)
                /\ held' = [held EXCEPT ![t] = @ + 1]
             \/ /\ LocallyComplete(r)
                /\ "reject" \in Faults
                /\ trk' = [trk EXCEPT ![t] = RefusedFence(r1, p)]
                /\ collectives' = Without(TrackerList(t), t)
                /\ Refused(p, call)
    /\ UNCHANGED nsvars

\* connect and disconnect differ from fence in what a refusal by the host
\* does: the caller's caddy is taken back, the tracker stays in the list.
ConnectOrDisconnect(type, p, procs, timer) ==
    /\ MayCall(p, type, procs)
    /\ \E t \in TrackerFor(type, procs) :
         LET call == CallOf(type, procs)
             r0 == TrackerRecord(t, type, procs)
             r == Contribute(r0, p, timer)
         IN  \/ /\ ~LocallyComplete(r)
                /\ Wait(t, r, p, call)
                /\ UNCHANGED held
             \/ /\ LocallyComplete(r)
                /\ Wait(t, r, p, call)
                /\ held' = [held EXCEPT ![t] = @ + 1]
             \/ /\ LocallyComplete(r)
                /\ "reject" \in Faults
                /\ trk' = [trk EXCEPT ![t] = r0]
                /\ collectives' = TrackerList(t)
                /\ Refused(p, call)
    /\ UNCHANGED nsvars

pmix_server_connect(p, procs, timer) == ConnectOrDisconnect("connect", p, procs, timer)

pmix_server_disconnect(p, procs) == ConnectOrDisconnect("disconnect", p, procs, "none")

-----------------------------------------------------------------------------
(* Events handed to the progress thread                                     *)

Event(fn, t, status) == [fn |-> fn, trk |-> t, status |-> status]

\* modex_cbfunc, cnct_cbfunc, discnct_cbfunc, whoever calls them.
cbfunc(t, status) == shifted' = Append(shifted, Event("cbfunc", t, status))

\* The host completes an operation it was given.
HostCallback(t, status) ==
    /\ held[t] > 0
    /\ held' = [held EXCEPT ![t] = @ - 1]
    /\ cbfunc(t, status)
    /\ replies' = <<>>
    /\ UNCHANGED <<nsvars, calls, collectives, trk>>

\* fence_timeout and connect_timeout: the timer of a caddy expires.
collective_timeout(t, i) ==
    /\ Live(t)
    /\ i \in DOMAIN trk[t].local_cbs
    /\ trk[t].local_cbs[i].timer = "armed"
    /\ trk' = [trk EXCEPT ![t].local_cbs[i].timer = "fired"]
    /\ cbfunc(t, "TIMEOUT")
    /\ replies' = <<>>
    /\ UNCHANGED <<nsvars, calls, collectives, held>>

\* The event at the head of the queue runs, whether or not its tracker was freed
\* in the meantime (QueueSound).
Run(fn, t) ==
    /\ shifted # <<>>
    /\ Head(shifted).fn = fn
    /\ Head(shifted).trk = t
    /\ shifted' = Tail(shifted)

\* The status a completed fence has to report.
FenceStatus(r, status) ==
    IF status # "SUCCESS" THEN status
    ELSE IF r.collect_type = "invalid" THEN "INVALID_ARG" ELSE "SUCCESS"

\* The status in the reply to the process of the i-th caddy.  In _mdxcbfunc
\* PMIX_SERVER_QUEUE_REPLY assigns to the variable that holds the status, so
\* that it is PMIX_SUCCESS after the first reply.
ReplyStatus(r, i, status) ==
    IF r.type # "fence" THEN status
    ELSE IF i = 1 THEN FenceStatus(r, status) ELSE "SUCCESS"

\* Replies to the first n waiting processes.
ReplyTo(r, n, status) ==
    /\ replies' = [i \in 1 .. n |->
                     [proc |-> r.local_cbs[i].proc, call |-> CallOf(r.type, r.pcs),
                      status |-> ReplyStatus(r, i, status)]]
    /\ calls' = [p \in LocalProcs |->
                   IF \E i \in 1 .. n : r.local_cbs[i].proc = p
                   THEN calls[p] \ {CallOf(r.type, r.pcs)} ELSE calls[p]]

\* Mutant: the callbacks take every tracker for one that has left the list.
Mut_RemoveUnlessLost_kept(t) == UNCHANGED collectives

\* The end of the three callbacks.  A tracker that is not in the list is unlinked
\* all the same: a debug build notices, any other joins the neighbours it had, and
\* what was appended behind the first of them since is cut off.
RemoveUnlessLost(t) ==
    \/ trk[t].lost_connection /\ UNCHANGED collectives
    \/ ~trk[t].lost_connection /\ Listed(t) /\ collectives' = Without(collectives, t)
    \/ /\ ~trk[t].lost_connection /\ ~Listed(t)
       /\ \E n \in 0 .. Len(collectives) : collectives' = SubSeq(collectives, 1, n)

\* _mdxcbfunc: every caddy is released, and with it what its timer holds.
Released(r) ==
    [r EXCEPT !.refs = @ - TimerRefs(r) - 1, !.local_cbs = <<>>, !.event_active = FALSE]

Mut_mdxcbfunc_keep_caddies(t) ==
    /\ Run("cbfunc", t)
    /\ trk[t].type = "fence"
    /\ ReplyTo(trk[t], Len(trk[t].local_cbs), Head(shifted).status)
    /\ trk' = [trk EXCEPT ![t] = Drop(trk[t])]
    /\ RemoveUnlessLost(t)
    /\ UNCHANGED <<nsvars, held>>

_mdxcbfunc(t) ==
    /\ Run("cbfunc", t)
    /\ trk[t].type = "fence"
    /\ ReplyTo(trk[t], Len(trk[t].local_cbs), Head(shifted).status)
    /\ trk' = [trk EXCEPT ![t] = Released(trk[t])]
    /\ RemoveUnlessLost(t)
    /\ UNCHANGED <<nsvars, held>>

\* _cnct: how many of the waiting processes are answered.  The first one that
\* needs the job info of an nspace that has none ends the loop.
Answered(r, status) ==
    LET all == Len(r.local_cbs)
        Stops(n) == {i \in 1 .. all : r.local_cbs[i].proc.ns # n}
    IN  {all} \cup
        IF r.type = "connect" /\ status = "SUCCESS" /\ "noinfo" \in Faults
        THEN {i - 1 : i \in {i \in 1 .. all :
                \E n \in {p.ns : p \in ProcsOf(r)} :
                    i \in Stops(n) /\ \A j \in Stops(n) : i <= j}}
        ELSE {}

\* _cnct and _discnct: the caddies stay in the tracker and go with it.
Completed(t, type) ==
    /\ Run("cbfunc", t)
    /\ trk[t].type = type
    /\ \E n \in Answered(trk[t], Head(shifted).status) :
          ReplyTo(trk[t], n, Head(shifted).status)
    /\ trk' = [trk EXCEPT ![t] = [Drop(trk[t]) EXCEPT !.event_active = FALSE]]
    /\ RemoveUnlessLost(t)
    /\ UNCHANGED <<nsvars, held>>

_cnct(t) == Completed(t, "connect")

_discnct(t) == Completed(t, "disconnect")

\* pmix_server_execute_collective: the return code of the host is not looked at.
pmix_server_execute_collective(t) ==
    /\ Run("execute", t)
    /\ \/ held' = [held EXCEPT ![t] = @ + 1]
       \/ "reject" \in Faults /\ UNCHANGED held
    /\ replies' = <<>>
    /\ UNCHANGED <<nsvars, calls, collectives, trk>>

-----------------------------------------------------------------------------
(* pmix_ptl_base_lost_connection, as far as collectives are concerned       *)

Mut_LoseFrom_release(r, p) ==
    LET kept(cd) == cd.proc # p
    IN  [r EXCEPT !.local_cbs = SelectSeq(@, kept), !.nlocal = @ - 1,
                  !.lost_connection = TRUE, !.refs = @ - 1]

\* The tracker r of a lost process p.  Its long timer is set in all cases.
LoseFrom(r, p) ==
    LET kept(cd) == cd.proc # p
        cbs == SelectSeq(r.local_cbs, kept)
    IN  [r EXCEPT !.local_cbs = cbs, !.nlocal = @ - 1, !.lost_connection = TRUE,
                  !.event_active = TRUE,
                  !.refs = @ - (TimerRefs(r) - TimerRefs([r EXCEPT !.local_cbs = cbs]))]

\* Nobody else waits in the tracker.
Alone(r, p) == ProcsOf(r) = {p}

pmix_ptl_base_lost_connection(p) ==
    /\ "lost" \in Faults
    /\ p \in ranks
    /\ ListIntact
    /\ LET Waits(t) == p \in ProcsOf(trk[t])
           stays(t) == ~Alone(trk[t], p)
           told(t) == Waits(t) /\ ~Alone(trk[t], p)
           tell == SelectSeq(collectives, told)
       IN  /\ trk' = [t \in Trackers |->
                        IF Listed(t) /\ Waits(t) THEN LoseFrom(trk[t], p) ELSE trk[t]]
           /\ collectives' = SelectSeq(collectives, stays)
           /\ shifted' = shifted \o
                [i \in DOMAIN tell |-> Event("cbfunc", tell[i], "LOST_CONNECTION")]
    /\ ranks' = ranks \ {p}
    /\ nlocalprocs' = [nlocalprocs EXCEPT ![p.ns] = @ - 1]
    /\ gone' = gone \cup {p}
    /\ calls' = [calls EXCEPT ![p] = {}]
    /\ replies' = <<>>
    /\ UNCHANGED <<nspaces, all_registered, held>>

\* _timeout, after 20 minutes: long enough for the host to have called back,
\* and for the event it queued to have run, unless it never will.
_timeout(t) ==
    /\ Live(t)
    /\ trk[t].event_active
    /\ held[t] = 0
    /\ ~Queued(t)
    /\ trk' = [trk EXCEPT ![t] = [Drop(trk[t]) EXCEPT !.event_active = FALSE]]
    /\ replies' = <<>>
    /\ UNCHANGED <<nsvars, calls, collectives, held, shifted>>

\* The host drops an operation after the loss of a process.
HostForgets(t) ==
    /\ held[t] > 0
    /\ trk[t].lost_connection
    /\ held' = [held EXCEPT ![t] = @ - 1]
    /\ replies' = <<>>
    /\ UNCHANGED <<nsvars, calls, collectives, trk, shifted>>

-----------------------------------------------------------------------------
(* Registration by the host                                                 *)

Mut_Added_every_proc(r, n, registered) ==
    Cardinality({x \in (DOMAIN r.pcs) \X registered : x[2].ns = n /\ Names(r.pcs[x[1]], x[2])})

\* _register_client: what completing nspace n adds to the count of a tracker,
\* one for each element of its array that names a registered process of n.
Added(r, n, registered) ==
    Cardinality({i \in DOMAIN r.pcs :
                   r.pcs[i].ns = n /\ \E q \in registered : Names(r.pcs[i], q)})

\* _register_client: all_def when the loop has come to place k of the list.
\* It is set before the loop and never again.
AllDefined(k, n) ==
    \A j \in 1 .. k : LET r == trk[collectives[j]] IN
        r.def_complete \/ \A i \in DOMAIN r.pcs :
            \/ r.pcs[i].ns \notin nspaces
            \/ nlocalprocs[r.pcs[i].ns] = 0
            \/ r.pcs[i].ns = n
            \/ all_registered[r.pcs[i].ns]

_register_client(p) ==
    LET n == p.ns
        registered == ranks \cup {p}
        Everyone == nlocalprocs[n] = Cardinality({q \in registered : q.ns = n})
        Place(t) == CHOOSE k \in DOMAIN collectives : collectives[k] = t
        Update(t) == [trk[t] EXCEPT !.nlocal = @ + Added(trk[t], n, registered),
                                    !.def_complete = AllDefined(Place(t), n)]
        now_complete(t) == ~trk[t].def_complete /\ LocallyComplete(Update(t))
        execute == SelectSeq(collectives, now_complete)
    IN  /\ p \notin ranks \cup gone
        /\ ranks' = registered
        /\ \/ /\ ~Everyone
              /\ UNCHANGED <<all_registered, trk, shifted>>
           \/ /\ Everyone
              /\ ListIntact
              /\ all_registered' = [all_registered EXCEPT ![n] = TRUE]
              /\ trk' = [t \in Trackers |->
                           IF Listed(t) /\ ~trk[t].def_complete THEN Update(t) ELSE trk[t]]
              /\ shifted' = shifted \o
                   [i \in DOMAIN execute |-> Event("execute", execute[i], "SUCCESS")]
        /\ replies' = <<>>
        /\ UNCHANGED <<nspaces, nlocalprocs, gone, calls, collectives, held>>

\* _register_nspace, for an nspace without local processes.
_register_nspace(n) ==
    /\ n \notin LocalNspaces
    /\ n \notin nspaces \/ ~all_registered[n]
    /\ nspaces' = nspaces \cup {n}
    /\ all_registered' = [all_registered EXCEPT ![n] = TRUE]
    /\ replies' = <<>>
    /\ UNCHANGED <<nlocalprocs, ranks, gone, calls, collectives, trk, held, shifted>>

\* _process_dmdx_reply makes an object for an nspace the host has not
\* registered, as constructed: without clients, and not all registered.
LandingZone(n) ==
    /\ "landing" \in Faults
    /\ n \notin nspaces
    /\ nspaces' = nspaces \cup {n}
    /\ all_registered' = [all_registered EXCEPT ![n] = FALSE]
    /\ replies' = <<>>
    /\ UNCHANGED <<nlocalprocs, ranks, gone, calls, collectives, trk, held, shifted>>

-----------------------------------------------------------------------------
Next ==
    \/ \E p \in LocalProcs, s \in Signatures, c \in CollectDirectives, m \in Timers("fence") :
          pmix_server_fence(p, s, c, m)
    \/ \E p \in LocalProcs, s \in Signatures, m \in Timers("connect") : pmix_server_connect(p, s, m)
    \/ \E p \in LocalProcs, s \in Signatures : pmix_server_disconnect(p, s)
    \/ \E t \in Trackers, st \in HostStatus : HostCallback(t, st)
    \/ \E t \in Trackers : \E i \in DOMAIN trk[t].local_cbs : collective_timeout(t, i)
    \/ \E t \in Trackers : \/ _mdxcbfunc(t)
                           \/ _cnct(t)
                           \/ _discnct(t)
                           \/ pmix_server_execute_collective(t)
                           \/ _timeout(t)
                           \/ HostForgets(t)
    \/ \E p \in LocalProcs : pmix_ptl_base_lost_connection(p) \/ _register_client(p)
    \/ \E n \in Nspaces : _register_nspace(n) \/ LandingZone(n)

Spec == Init /\ [][Next]_vars

\* Fairness.  The progress thread runs what is queued, the host completes what
\* it accepted, and every participant of a collective comes to call it.
EventLoop ==
    \E t \in Trackers : _mdxcbfunc(t) \/ _cnct(t) \/ _discnct(t) \/ pmix_server_execute_collective(t)

Joins(p, type, s) ==
    \E m \in Timers(type) :
        \/ type = "fence" /\ \E c \in CollectDirectives : pmix_server_fence(p, s, c, m)
        \/ type = "connect" /\ pmix_server_connect(p, s, m)
        \/ type = "disconnect" /\ pmix_server_disconnect(p, s)

Fairness ==
    /\ WF_vars(EventLoop)
    /\ \A t \in Trackers : WF_vars(\E st \in HostStatus : HostCallback(t, st))
    /\ \A p \in LocalProcs, type \in Types, s \in Signatures : WF_vars(Joins(p, type, s))
    /\ \A p \in LocalProcs : WF_vars(_register_client(p))

FairSpec == Spec /\ Fairness

-----------------------------------------------------------------------------
(* Properties                                                               *)

Calls == {CallOf(type, s) : type \in Types, s \in Signatures}

Caddies == [proc : LocalProcs, timer : {"none", "armed", "fired", "freed"}]

TrackerRecords ==
    [type : Types \cup {"none"}, pcs : Signatures \cup {<<>>}, nlocal : Nat,
     def_complete : BOOLEAN, local_cbs : Seq(Caddies),
     collect_type : {"no", "yes", "invalid"}, lost_connection : BOOLEAN,
     event_active : BOOLEAN, refs : Nat]

EventRecords ==
    [fn : {"cbfunc", "execute"}, trk : Trackers,
     status : HostStatus \cup {"SUCCESS", "TIMEOUT", "LOST_CONNECTION"}]

\* Types of the variables.
TypeOK ==
    /\ nspaces \subseteq Nspaces
    /\ nlocalprocs \in [Nspaces -> Nat]
    /\ all_registered \in [Nspaces -> BOOLEAN]
    /\ ranks \subseteq LocalProcs
    /\ gone \subseteq LocalProcs
    /\ calls \in [LocalProcs -> SUBSET Calls]
    /\ collectives \in Seq(Trackers)
    /\ trk \in [Trackers -> TrackerRecords]
    /\ held \in [Trackers -> Nat]
    /\ shifted \in Seq(EventRecords)

\* The local processes whose contribution a collective needs.
Needed(t) == Participants(trk[t].pcs) \ gone

\* The host is called with a collective only when all the participating local
\* processes have contributed (pmix_server_fence, _register_client): as long
\* as it works on one, all of them wait in the tracker.
UpcallOnlyWhenAll ==
    \A t \in Trackers : Live(t) /\ held[t] > 0 => Needed(t) \subseteq ProcsOf(trk[t])

\* A collective that all its participating local processes wait for, and all of
\* whose nspaces are registered, does not lie around in the server: the host has
\* it, or an event that passes it on or answers it is queued.
AllContributedUpcalled ==
    \A type \in Types, s \in Signatures :
        LET c == CallOf(type, s)
            needed == Participants(s) \ gone
            AllCalled == needed # {} /\ \A p \in needed : c \in calls[p]
        IN  Undefined(s) = {} /\ AllCalled =>
                \E t \in Trackers : /\ Live(t)
                                    /\ CallOf(trk[t].type, trk[t].pcs) = c
                                    /\ held[t] > 0 \/ Queued(t)

\* The trackers that are found through the list of collectives have not been
\* freed (PMIX_RELEASE in the three callbacks and in pmix_server_fence).
ListedLive == \A k \in DOMAIN collectives : Live(collectives[k])

\* The tracker that the host was given, and will return in its callback, has
\* not been freed in the meantime.
HostHoldsLive == \A t \in Trackers : held[t] > 0 => Live(t)

\* A queued event finds its tracker alive, and a callback finds it in the list
\* that it takes it off, unless the loss of a process took it off before.
QueueSound ==
    \A i \in DOMAIN shifted : LET t == shifted[i].trk IN
        /\ Live(t)
        /\ shifted[i].fn = "cbfunc" => Listed(t) # trk[t].lost_connection

\* A process that waits for a collective has a caddy in a tracker of that
\* collective through which it will be answered: it was not forgotten.
WaitersTracked ==
    \A p \in LocalProcs : \A c \in calls[p] :
        \E t \in Trackers : /\ Live(t)
                            /\ CallOf(trk[t].type, trk[t].pcs) = c
                            /\ p \in ProcsOf(trk[t])

\* A tracker that is alive can still be found: through the list, by the host's
\* or a queued callback, or by its own timer.  Otherwise it would never be freed.
NoLeak ==
    \A t \in Trackers :
        Live(t) => Listed(t) \/ Queued(t) \/ held[t] > 0 \/ trk[t].event_active

\* The callbacks that are still to come to a tracker: from the host, and queued.
CallbacksDue(t) == held[t] + Cardinality({i \in DOMAIN shifted : shifted[i].trk = t})

\* Two callbacks come to one tracker, of which the second finds it freed, only when
\* a timer has fired beside the host's answer or another timer (fence_timeout does
\* not stop the others, nor tell the host).
TwiceOnlyTimed ==
    \A t \in Trackers : Live(t) /\ CallbacksDue(t) > 1 =>
        \E i \in DOMAIN trk[t].local_cbs : trk[t].local_cbs[i].timer = "fired"

\* With timers, the same of trackers as long as no freed one was used.
TimedTrackersSound ==
    /\ TwiceOnlyTimed
    /\ (\A t \in Trackers : ~Misused(t)) => ListedLive /\ NoLeak

\* Trackers are freed when nobody refers to them any more, and not before: the
\* list, the host and the queued events refer to live trackers, and every live
\* tracker is referred to.
TrackersSound == ListedLive /\ HostHoldsLive /\ QueueSound /\ NoLeak

\* A contribution is kept until it is answered, and passed on when it is the last.
ContributionsKept == TypeOK /\ WaitersTracked /\ AllContributedUpcalled

\* All the processes answered by one completion of a collective are told the
\* same status (_mdxcbfunc, _cnct, _discnct).
SameAnswer == \A i, j \in DOMAIN replies : replies[i].status = replies[j].status

\* A reply goes to a process that waits for it: none is answered twice.
AnswersAwaited ==
    [][\A i \in DOMAIN replies' :
          replies'[i].status = "ERROR" \/ replies'[i].call \in calls[replies'[i].proc]]_vars

\* Every collective that a process calls is answered.
EveryCallAnswered ==
    \A p \in LocalProcs, c \in Calls : c \in calls[p] ~> c \notin calls[p]

=============================================================================
