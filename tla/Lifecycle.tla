----------------------------- MODULE Lifecycle -----------------------------
(***************************************************************************)
(* One process and the PMIx library in it: PMIx_Init, PMIx_Finalize, the   *)
(* server's and the tool's, the runtime they set up and take down          *)
(* (pmix_rte_init, pmix_rte_finalize), the progress thread, PMIx_Put and   *)
(* PMIx_Commit.  Several threads of the process, think of several          *)
(* libraries, use PMIx at the same time, each initialising and finalising  *)
(* it for itself: calls are counted.  pmix_global_lock, the progress       *)
(* thread, the two-second timer of a finalize and a server that answers    *)
(* late, never, or dies, interleave.                                       *)
(***************************************************************************)
EXTENDS Integers, Sequences, FiniteSets

CONSTANTS
    Threads,
    Nobody,         \* not a thread
    Values,         \* what is put
    Environments    \* see env

VARIABLES
    env,        \* [lib: [Threads -> {"client","server","tool","none"}], launcher,
                \* nspace, rank (environment variables set), external (event
                \* base given), barrier, stop, noconnect, fails, dies,
                \* calls (bound: calls a thread makes)]
    g,          \* the globals: see Globals
    lock,       \* pmix_global_lock: the thread that holds it, or Nobody
    th,         \* [Threads -> [at, user, calls, val, covers]]
    tev,        \* [Threads -> [armed, active, live]]: the timer of a finalize
    queue,      \* events pushed to the progress thread
    asked,      \* requests the server has: <<thread, what, its call>>
    replies,    \* its answers that are not read yet
    alive,      \* the server process (of a client or a tool) exists
    got,        \* what the server has of our data
    sure        \* ghost: what a commit that returned SUCCESS covers

vars == <<env, g, lock, th, tev, queue, asked, replies, alive, got, sure>>

\* The steps of pmix_rte_init, in order.
Stages == <<"output", "pinstalldirs", "keyval", "var", "params", "mca", "hotel", "peer",
            "bfrops", "ptl", "psec", "gds", "pif", "preg", "plog", "thread">>

\* init_cntr, pmix_init_result, pmix_initialized, what is built, the event
\* base and the one the notification hotel was given, the peer objects, the
\* connection, the progress thread's tracker, the server's globals, the data,
\* whether the job's data are known, the requests whose answers have a receive
\* posted, whether the process crashed, and (ghosts) whether an initialisation that
\* failed, or a second one of a server, left its traces (left); whether one of a tool
\* began before the finalize of another thread was done (crossed); whether the tool
\* changed its server (again), and what it had put by then that the new one does not
\* have (moved); whether a callback ran for a call that had returned (wild).
Globals ==
    [cntr |-> 0, result |-> "ERR_INIT", initd |-> 0, built |-> {}, evbase |-> "null",
     hotel |-> "null", mypeer |-> "null", myserver |-> FALSE, connected |-> FALSE, sd |-> FALSE,
     refcount |-> 0, ev_active |-> FALSE, srv |-> FALSE, listening |-> FALSE,
     pending |-> FALSE, store |-> {}, job |-> FALSE, posted |-> {}, down |-> FALSE,
     left |-> FALSE, crossed |-> FALSE, again |-> FALSE, moved |-> {}, wild |-> FALSE]
----------------------------------------------------------------------------
(* The progress thread's tracker. *)

pmix_progress_thread_init(s) ==
    IF s.refcount > 0 THEN [s EXCEPT !.refcount = @ + 1]
    ELSE [s EXCEPT !.refcount = 1, !.ev_active = TRUE, !.evbase = "own"]

pmix_progress_thread_pause(s) == [s EXCEPT !.ev_active = FALSE]

\* The base goes with the last user; the global pointer to it stays.
pmix_progress_thread_stop(s) ==
    IF s.refcount # 1 THEN [s EXCEPT !.refcount = IF @ = 0 THEN 0 ELSE @ - 1]
    ELSE [s EXCEPT !.refcount = 0, !.ev_active = FALSE, !.evbase = "stale"]

\* Events are handled by the library's thread, or by the owner of the base.
Progress == ~g.down /\ (env.external \/ g.ev_active)
----------------------------------------------------------------------------
(* The runtime. *)

Members(s) == {s[i] : i \in DOMAIN s}
Before(f) == {Stages[i] : i \in {j \in DOMAIN Stages : \A k \in 1 .. j : Stages[k] # f}}

\* pmix_rte_init, failing at step f or not at all.  A failure takes nothing
\* back, not even the count.
pmix_rte_init(s, f, type) ==
    LET done == Before(f)
        s1 == [s EXCEPT !.initd = 1, !.built = done,
                        !.hotel = IF "hotel" \in done THEN s.evbase ELSE @,
                        !.mypeer = IF "peer" \in done THEN type ELSE @,
                        !.evbase = IF "peer" \in done /\ env.external THEN "external" ELSE @]
    IN  IF s.initd # 0
        THEN [s |-> [s EXCEPT !.initd = @ + 1], rc |-> IF s.initd < 0 THEN "ERROR" ELSE "SUCCESS"]
        ELSE [s |-> IF "thread" \in done /\ ~env.external THEN pmix_progress_thread_init(s1) ELSE s1,
              rc |-> IF f \in Members(Stages) THEN "ERROR" ELSE "SUCCESS"]

\* pmix_rte_finalize: the last of them closes the frameworks, forgets the
\* data kept by the gds and the receives of the ptl, and stops the progress thread.
pmix_rte_finalize(s) ==
    LET s1 == [s EXCEPT !.initd = 0, !.built = {}, !.hotel = "null", !.mypeer = "null", !.store = {},
                        !.job = FALSE, !.posted = {}]
    IN  IF s.initd # 1 THEN [s EXCEPT !.initd = @ - 1]
        ELSE IF env.external THEN s1 ELSE pmix_progress_thread_stop(s1)

\* The peer object is released once more by whoever finalises.
Released(s) == [s EXCEPT !.mypeer = "null"]

\* pmix_server_initialize: the server's lists, anew.
pmix_server_initialize(s) == [s EXCEPT !.srv = TRUE]
----------------------------------------------------------------------------
(* Calls. *)

Free == lock = Nobody /\ ~g.down
Idle(t) == th[t].at = "idle"
Ending(t) == th[t].at \in {"fin", "fin.ok", "fence"}
Starts(t, lib) == Free /\ Idle(t) /\ env.lib[t] = lib /\ th[t].calls < env.calls
Goes(t, at) == th' = [th EXCEPT ![t].at = at]
\* An initialisation returns: its caller is a user from then on if it succeeded.
Returns(t, ok) ==
    th' = [th EXCEPT ![t].at = "idle", ![t].user = ok, ![t].calls = @ + 1]
Done(t) == th' = [th EXCEPT ![t].at = "idle", ![t].calls = @ + 1]
Failures == {"none"} \cup env.fails
Server == UNCHANGED <<asked, replies, alive, got, sure>>
\* A request is known by its thread and the call that makes it.
Req(t, what) == <<t, what, th[t].calls>>
Push(kind, t, what) == queue' = Append(queue, <<kind, Req(t, what), {}>>)

\* What PMIx_Init does up to the request for the job's data.
client_setup(s, f) ==
    LET c == [s EXCEPT !.cntr = @ + 1]
        r == pmix_rte_init(c, f, "client")
        s1 == [r.s EXCEPT !.myserver = TRUE]
        Fail(x, rc) == [s |-> [x EXCEPT !.result = rc, !.left = TRUE], rc |-> rc]
    IN  IF ~env.nspace THEN Fail(c, "INVALID_NAMESPACE")
        ELSE IF r.rc # "SUCCESS" THEN Fail(r.s, r.rc)
        ELSE IF ~env.rank THEN Fail(s1, "NOT_FOUND")
        ELSE IF f = "module" THEN Fail(s1, "ERR_INIT")
        ELSE IF f = "connect" \/ ~alive THEN Fail(s1, "UNREACH")
        ELSE [s |-> [s1 EXCEPT !.connected = TRUE, !.sd = TRUE], rc |-> "SUCCESS"]

\* PMIx_Init.  A later call is counted and told how the first one ended.
PMIx_Init(t) ==
    /\ Starts(t, "client") /\ ~th[t].user
    /\ \/ /\ g.cntr > 0 \/ g.mypeer = "server"
          /\ g' = [g EXCEPT !.cntr = @ + 1]
          /\ Returns(t, g.result = "SUCCESS")
          /\ UNCHANGED <<lock, queue>>
       \/ /\ ~(g.cntr > 0 \/ g.mypeer = "server")
          /\ \E f \in Failures :
                LET r == client_setup(g, f) IN
                /\ g' = r.s
                /\ IF r.rc = "SUCCESS"
                   THEN /\ lock' = t
                        /\ Goes(t, "init")
                        /\ Push("send", t, "job")
                   ELSE Returns(t, FALSE) /\ UNCHANGED <<lock, queue>>
    /\ Server /\ UNCHANGED <<env, tev>>

\* job_data has woken the caller; the lock is released, and a process to be
\* stopped for a debugger waits for its release.
client_initialized(t) ==
    /\ th[t].at \in {"init.ok", "init.bad"} /\ env.lib[t] = "client"
    /\ g' = [g EXCEPT !.result = IF th[t].at = "init.ok" THEN "SUCCESS" ELSE "ERROR",
                      !.left = @ \/ th[t].at # "init.ok"]
    /\ lock' = Nobody
    /\ IF th[t].at = "init.ok" /\ env.stop THEN Goes(t, "debug")
       ELSE Returns(t, th[t].at = "init.ok")
    /\ Server /\ UNCHANGED <<env, tev, queue>>

\* notification_fn: the debugger lets go.
notification_fn(t) ==
    /\ th[t].at = "debug" /\ Progress
    /\ Returns(t, TRUE)
    /\ Server /\ UNCHANGED <<env, g, lock, tev, queue>>

\* Telling the server, with the timer set before the message is sent.
Farewell(t, at) ==
    /\ tev' = [tev EXCEPT ![t] = [armed |-> TRUE, active |-> TRUE, live |-> TRUE]]
    /\ Push("send", t, "fin")
    /\ Goes(t, at)

\* PMIx_Finalize up to its wait.  The barrier it may be asked for is a
\* PMIx_Fence, which first takes the lock that is already held.
PMIx_Finalize(t) ==
    /\ Starts(t, "client") /\ th[t].user
    /\ \/ /\ g.cntr # 1
          /\ g' = [g EXCEPT !.cntr = @ - 1]
          /\ Returns(t, FALSE)
          /\ UNCHANGED <<lock, tev, queue>>
       \/ /\ g.cntr = 1
          /\ g' = [g EXCEPT !.cntr = 0]
          /\ lock' = t
          /\ IF ~g.sd THEN Goes(t, "fin.ok") /\ UNCHANGED <<tev, queue>>
             ELSE IF env.barrier THEN Goes(t, "fence") /\ UNCHANGED <<tev, queue>>
             ELSE Farewell(t, "fin")
    /\ Server /\ UNCHANGED env

\* The frame of the timer is gone; a timer event the base still holds is gone
\* only if the base is.
Popped(t) == tev' = [tev EXCEPT ![t] = [@ EXCEPT !.live = FALSE, !.armed = @ /\ g'.evbase # "stale"]]

\* The rest of PMIx_Finalize.  The socket is closed, so that what is left in the
\* queue or on its way is lost.
client_teardown(t) ==
    /\ th[t].at = "fin.ok" /\ env.lib[t] = "client"
    /\ LET s == IF env.external THEN g ELSE pmix_progress_thread_pause(g)
       IN  g' = Released(pmix_rte_finalize([s EXCEPT !.sd = FALSE, !.myserver = FALSE]))
    /\ lock' = Nobody
    /\ Popped(t)
    /\ Returns(t, FALSE)
    /\ queue' = <<>> /\ asked' = {} /\ replies' = {}
    /\ UNCHANGED <<env, alive, got, sure>>
----------------------------------------------------------------------------
(* The server library. *)

\* The server's own modules, names and frameworks.  The peer object is used
\* unchecked.
server_setup(s, f) ==
    LET s1 == [pmix_server_initialize(s) EXCEPT !.myserver = TRUE]
    IN  IF s.mypeer = "null" THEN [s |-> [s1 EXCEPT !.down = TRUE], rc |-> "CRASH"]
        ELSE IF f = "module" THEN [s |-> [s1 EXCEPT !.left = TRUE], rc |-> "ERR_INIT"]
        ELSE [s |-> s1, rc |-> "SUCCESS"]

\* Only the listener's failure calls the finalize, which does nothing as the
\* initialisation is not counted yet.
server_listen(s, f) ==
    IF f = "listen" THEN [s |-> [s EXCEPT !.left = TRUE], rc |-> "ERR_INIT"]
    ELSE [s |-> [s EXCEPT !.listening = TRUE, !.cntr = @ + 1], rc |-> "SUCCESS"]

\* PMIx_server_init.  A second one is not told from the first.
PMIx_server_init(t) ==
    /\ Starts(t, "server") /\ ~th[t].user
    /\ \E f \in Failures :
          LET r == pmix_rte_init(g, f, "server")
              m == server_setup(r.s, f)
              l == server_listen([m.s EXCEPT !.left = @ \/ g.initd # 0], f)
          IN  IF r.rc # "SUCCESS" THEN g' = [r.s EXCEPT !.left = TRUE] /\ Returns(t, FALSE)
              ELSE IF m.rc # "SUCCESS" THEN g' = m.s /\ Returns(t, FALSE)
              ELSE g' = l.s /\ Returns(t, l.rc = "SUCCESS")
    /\ Server /\ UNCHANGED <<env, lock, tev, queue>>

\* PMIx_server_finalize up to the release of the lock, which it destroys.
PMIx_server_finalize(t) ==
    /\ Starts(t, "server") /\ th[t].user
    /\ IF g.cntr # 1 THEN g' = [g EXCEPT !.cntr = @ - 1] /\ Returns(t, FALSE)
       ELSE /\ g' = [(IF env.external THEN g ELSE pmix_progress_thread_pause(g))
                        EXCEPT !.cntr = 0, !.listening = FALSE, !.srv = FALSE]
            /\ Goes(t, "fin.ok")
    /\ Server /\ UNCHANGED <<env, lock, tev, queue>>

\* The rest of it, without the lock.
server_teardown(t) ==
    /\ th[t].at = "fin.ok" /\ env.lib[t] = "server"
    /\ g' = Released(pmix_rte_finalize(g))
    /\ Returns(t, FALSE)
    /\ Server /\ UNCHANGED <<env, lock, tev, queue>>
----------------------------------------------------------------------------
(* The tool library. *)

\* A name comes whole or not at all, from the directives or the environment.
tool_named == env.nspace = env.rank

\* A tool that is not to connect must have been given its name.
tool_connect(s, f) ==
    LET Fail(x, rc) == [s |-> [x EXCEPT !.left = TRUE], rc |-> rc]
    IN  IF env.noconnect /\ ~env.nspace THEN Fail([s EXCEPT !.connected = FALSE], "ERR_INIT")
        ELSE IF env.noconnect
        THEN [s |-> [s EXCEPT !.connected = FALSE, !.cntr = @ + 1], rc |-> "SUCCESS"]
        ELSE IF f = "connect" \/ ~alive THEN Fail(s, "UNREACH")
        ELSE [s |-> [s EXCEPT !.connected = TRUE, !.sd = TRUE, !.cntr = @ + 1], rc |-> "SUCCESS"]

\* What PMIx_tool_init does up to where it becomes counted; a launcher is also
\* a server, whose lists it makes before there is a runtime.
tool_setup(s, f) ==
    LET s0 == IF env.launcher THEN pmix_server_initialize(s) ELSE s
        r == pmix_rte_init(s0, f, "tool")
        s1 == [r.s EXCEPT !.myserver = TRUE]
        Fail(x, rc) == [s |-> [x EXCEPT !.left = TRUE], rc |-> rc]
    IN  IF ~tool_named THEN [s |-> s, rc |-> "BAD_PARAM"]
        ELSE IF r.rc # "SUCCESS" THEN Fail(r.s, r.rc)
        ELSE IF r.s.mypeer = "null" THEN Fail([s1 EXCEPT !.down = TRUE], "CRASH")
        ELSE IF f = "module" THEN Fail(s1, "ERR_INIT")
        ELSE tool_connect(s1, f)

\* The job data of a tool nobody launched, stored one by one; the tool is
\* counted already.
own_job_data(s, f) ==
    IF f = "store" THEN [s |-> [s EXCEPT !.left = TRUE], rc |-> "ERROR"]
    ELSE [s |-> [s EXCEPT !.job = TRUE], rc |-> "SUCCESS"]

\* PMIx_tool_init.  A tool that was launched as a client asks for its job's
\* data, any other makes them up.  The finalize of another thread, which keeps no
\* lock, may be under way.
PMIx_tool_init(t) ==
    /\ Starts(t, "tool") /\ ~th[t].user
    /\ \/ /\ g.cntr > 0
          /\ g' = [g EXCEPT !.cntr = @ + 1]
          /\ Returns(t, TRUE)
          /\ UNCHANGED <<lock, queue>>
       \/ /\ g.cntr <= 0
          /\ \E f \in Failures :
                LET asks == env.rank /\ ~env.noconnect
                    r0 == tool_setup(g, f)
                    r == IF r0.rc # "SUCCESS" \/ asks THEN r0 ELSE own_job_data(r0.s, f)
                IN
                /\ g' = [r.s EXCEPT !.crossed = @ \/ \E u \in Threads : Ending(u)]
                /\ IF r.rc # "SUCCESS" THEN Returns(t, FALSE) /\ UNCHANGED <<lock, queue>>
                   ELSE IF asks
                   THEN /\ lock' = t
                        /\ Goes(t, "init")
                        /\ Push("send", t, "job")
                   ELSE Goes(t, "listen") /\ UNCHANGED <<lock, queue>>
    /\ Server /\ UNCHANGED <<env, tev>>

tool_initialized(t) ==
    /\ th[t].at \in {"init.ok", "init.bad"} /\ env.lib[t] = "tool"
    /\ lock' = Nobody
    /\ IF th[t].at = "init.ok" THEN Goes(t, "listen") /\ UNCHANGED g
       ELSE Returns(t, FALSE) /\ g' = [g EXCEPT !.left = TRUE]
    /\ Server /\ UNCHANGED <<env, tev, queue>>

\* A launcher starts to listen, without the lock.
tool_listen(t) ==
    /\ th[t].at = "listen"
    /\ \E ok \in {TRUE, ~(env.launcher /\ "listen" \in env.fails)} :
          /\ g' = [g EXCEPT !.listening = ok /\ env.launcher, !.left = @ \/ ~ok]
          /\ Returns(t, ok)
    /\ Server /\ UNCHANGED <<env, lock, tev, queue>>

\* PMIx_tool_finalize up to its wait; the lock is not kept.  Its own peer object is
\* used unchecked.
PMIx_tool_finalize(t) ==
    /\ Starts(t, "tool") /\ th[t].user
    /\ IF g.cntr # 1
       THEN g' = [g EXCEPT !.cntr = @ - 1] /\ Returns(t, FALSE) /\ UNCHANGED <<tev, queue>>
       ELSE /\ g' = [g EXCEPT !.cntr = 0, !.down = g.mypeer = "null"]
            /\ IF g.connected THEN Farewell(t, "fin") ELSE Goes(t, "fin.ok") /\ UNCHANGED <<tev, queue>>
    /\ Server /\ UNCHANGED <<env, lock>>

\* The rest of it.  The socket stays open; with the event base go its events.
tool_teardown(t) ==
    /\ th[t].at = "fin.ok" /\ env.lib[t] = "tool"
    /\ LET s == IF env.external THEN g ELSE pmix_progress_thread_pause(g)
           d == Released(pmix_rte_finalize([s EXCEPT !.listening = FALSE, !.srv = FALSE]))
           gone == d.evbase = "stale"
       IN  /\ g' = [d EXCEPT !.down = g.mypeer = "null", !.sd = @ /\ ~gone]
           /\ queue' = IF gone THEN <<>> ELSE queue
           /\ asked' = IF gone THEN {} ELSE asked
           /\ replies' = IF gone THEN {} ELSE replies
    /\ Popped(t)
    /\ Returns(t, FALSE)
    /\ UNCHANGED <<env, lock, alive, got, sure>>

\* PMIx_tool_connect_to_server: the server is told as by a finalize, if there
\* is one, and another is connected to.
PMIx_tool_connect_to_server(t) ==
    /\ Starts(t, "tool") /\ th[t].user
    /\ g' = [g EXCEPT !.again = TRUE]
    /\ IF g.connected THEN Farewell(t, "rec") ELSE Goes(t, "rec.ok") /\ UNCHANGED <<tev, queue>>
    /\ Server /\ UNCHANGED <<env, lock>>

\* The new server has nothing of what the old one got, and what was committed is
\* not marked for it.  The old socket is no longer read, but the receives posted for
\* its answers stay.
tool_reconnect(t) ==
    /\ th[t].at = "rec.ok"
    /\ \/ /\ g' = [g EXCEPT !.connected = TRUE, !.sd = TRUE,
                            !.moved = g.store]
          /\ alive' = TRUE
          /\ got' = {} /\ sure' = {} /\ asked' = {} /\ replies' = {}
       \/ (env.dies \/ "connect" \in env.fails) /\ UNCHANGED g /\ Server
    /\ Popped(t)
    /\ Done(t)
    /\ UNCHANGED <<env, lock, queue>>
----------------------------------------------------------------------------
(* Put and commit. *)

PMIx_Put(t) ==
    /\ Free /\ Idle(t) /\ env.lib[t] # "none" /\ th[t].calls < env.calls
    /\ th[t].user \/ g.cntr = 0
    /\ IF g.cntr <= 0 THEN Done(t) /\ UNCHANGED queue
       ELSE \E v \in Values :
               /\ th' = [th EXCEPT ![t].at = "put", ![t].val = v]
               /\ Push("put", t, "put")
    /\ Server /\ UNCHANGED <<env, g, lock, tev>>

\* A server has nobody to commit to.
PMIx_Commit(t) ==
    /\ Free /\ Idle(t) /\ th[t].user /\ th[t].calls < env.calls
    /\ g' = [g EXCEPT !.down = g.cntr > 0 /\ g.mypeer = "null"]
    /\ IF g.cntr <= 0 \/ g.mypeer = "server" \/ ~g.connected
       THEN Done(t) /\ UNCHANGED queue
       ELSE /\ th' = [th EXCEPT ![t].at = "commit", ![t].covers = g.store]
            /\ Push("commit", t, "commit")
    /\ Server /\ UNCHANGED <<env, lock, tev>>

Handles(kind) == Progress /\ queue # <<>> /\ Head(queue)[1] = kind

\* The value is stored and marked as not yet committed.  The peer object is used
\* unchecked.
_putfn ==
    /\ Handles("put")
    /\ LET t == Head(queue)[2][1] IN
       /\ g' = [g EXCEPT !.store = @ \cup {th[t].val}, !.pending = TRUE, !.down = g.mypeer = "null"]
       /\ Done(t)
    /\ queue' = Tail(queue)
    /\ Server /\ UNCHANGED <<env, lock, tev>>

\* What was put is sent if anything is new, and an empty message else.
_commitfn ==
    /\ Handles("commit")
    /\ g' = [g EXCEPT !.pending = FALSE]
    /\ queue' = Append(Tail(queue), <<"send", Head(queue)[2], IF g.pending THEN g.store ELSE {}>>)
    /\ Server /\ UNCHANGED <<env, lock, th, tev>>
----------------------------------------------------------------------------
(* The progress thread and the server. *)

\* pmix_ptl_base_send_recv, in the progress thread: the receive is posted and the
\* message sent.  Without a connection the request is dropped, and nobody wakes the
\* caller except a timer.
send_recv ==
    /\ Handles("send")
    /\ LET q == Head(queue)[2]
           data == Head(queue)[3]
       IN  IF g.sd
           THEN /\ g' = [g EXCEPT !.posted = @ \cup {q}, !.moved = IF data = {} THEN @ ELSE {}]
                /\ asked' = asked \cup {q}
                /\ got' = IF alive THEN got \cup data ELSE got
                /\ UNCHANGED th
           ELSE /\ IF q[2] = "fin" THEN UNCHANGED th ELSE Goes(q[1], "adrift")
                /\ UNCHANGED <<g, asked, got>>
    /\ queue' = Tail(queue)
    /\ UNCHANGED <<env, lock, tev, replies, alive, sure>>

Answer ==
    /\ alive
    /\ \E q \in asked :
          /\ asked' = asked \ {q}
          /\ replies' = replies \cup {q}
    /\ UNCHANGED <<env, g, lock, th, tev, queue, alive, got, sure>>

\* The callbacks: the caller and its timer after them.
\* job_data, with the server's answer or with the empty buffer of a lost
\* connection.
job_data(t, ok) ==
    [th |-> [th[t] EXCEPT !.at = IF ok THEN "init.ok" ELSE "init.bad"], tev |-> tev[t]]

Woken(t) == [th[t] EXCEPT !.at = IF @ \in {"fin", "rec"} THEN @ \o ".ok" ELSE @]

\* Mutant: the tool leaves its timer set too.
Mut_finwait_cbfunc(t) == [th |-> Woken(t), tev |-> [tev[t] EXCEPT !.active = FALSE]]
\* finwait_cbfunc of the client leaves the timer set, that of the tool stops
\* it.
finwait_cbfunc(t) ==
    [th |-> IF tev[t].active \/ env.lib[t] = "tool" THEN Woken(t) ELSE th[t],
     tev |-> [tev[t] EXCEPT !.active = FALSE,
                            !.armed = @ /\ (env.lib[t] = "client" \/ ~tev[t].active)]]

\* wait_cbfunc of a commit, whatever the answer is.
wait_cbfunc(t) == [th |-> [th[t] EXCEPT !.at = "idle", !.calls = @ + 1], tev |-> tev[t]]

\* The call that made a request has not returned.
Live(q) == ~Idle(q[1]) /\ th[q[1]].calls = q[3]

\* The receives of Q are completed, with an answer or without.  A callback whose
\* caller has returned writes to its stack, which may end the process.
Completed(Q, ok) ==
    LET live == {q \in Q : Live(q)}
        Of(t) == LET q == CHOOSE x \in live : x[1] = t
                 IN  CASE q[2] = "job" -> job_data(t, ok)
                       [] q[2] = "fin" -> finwait_cbfunc(t)
                       [] q[2] = "commit" -> wait_cbfunc(t)
        callers == {q[1] : q \in live}
    IN  /\ th' = [t \in Threads |-> IF t \in callers THEN Of(t).th ELSE th[t]]
        /\ tev' = [t \in Threads |-> IF t \in callers THEN Of(t).tev ELSE tev[t]]
        /\ sure' = IF ok THEN sure \cup UNION {th[q[1]].covers : q \in {x \in live : x[2] = "commit"}} ELSE sure
        /\ \E crash \in {FALSE, Q # live} :
              g' = [g EXCEPT !.job = @ \/ (ok /\ \E q \in live : q[2] = "job"),
                             !.wild = @ \/ Q # live,
                             !.down = crash \/ (~ok /\ g.mypeer = "null"),
                             !.posted = IF ok THEN @ \ Q ELSE @,
                             !.sd = @ /\ ok, !.connected = @ /\ ok]

\* pmix_ptl_base_process_msg: the answer goes to the receive posted for it.
process_msg ==
    /\ Progress /\ g.sd
    /\ \E q \in replies :
          /\ Completed({q} \cap g.posted, TRUE)
          /\ replies' = replies \ {q}
    /\ UNCHANGED <<env, lock, queue, asked, alive, got>>

\* fin_timeout
fin_timeout(t) ==
    /\ Progress /\ tev[t].armed
    /\ tev' = [tev EXCEPT ![t] = [@ EXCEPT !.armed = FALSE, !.active = FALSE]]
    /\ th' = IF tev[t].active THEN [th EXCEPT ![t] = Woken(t)] ELSE th
    /\ \E crash \in {FALSE, ~tev[t].live} :
          g' = [g EXCEPT !.wild = @ \/ ~tev[t].live, !.down = crash]
    /\ Server /\ UNCHANGED <<env, lock, queue>>

server_dies ==
    /\ env.dies /\ alive
    /\ alive' = FALSE
    /\ UNCHANGED <<env, g, lock, th, tev, queue, asked, replies, got, sure>>

\* pmix_ptl_base_lost_connection on the client's side: every receive that is posted
\* is completed, and stays posted.
lost_connection ==
    /\ Progress /\ ~alive /\ g.sd
    /\ Completed(g.posted, FALSE)
    /\ asked' = {} /\ replies' = {}
    /\ UNCHANGED <<env, lock, queue, alive, got>>
----------------------------------------------------------------------------
Init ==
    /\ env \in Environments
    /\ g = Globals
    /\ lock = Nobody
    /\ th = [t \in Threads |-> [at |-> "idle", user |-> FALSE, calls |-> 0, val |-> "none", covers |-> {}]]
    /\ tev = [t \in Threads |-> [armed |-> FALSE, active |-> FALSE, live |-> FALSE]]
    /\ queue = <<>> /\ asked = {} /\ replies = {}
    /\ alive = TRUE
    /\ got = {} /\ sure = {}

ThreadSteps(t) ==
    /\ ~g.down
    /\ \/ client_initialized(t) \/ client_teardown(t) \/ server_teardown(t)
       \/ tool_initialized(t) \/ tool_listen(t) \/ tool_teardown(t) \/ tool_reconnect(t)

Calls(t) ==
    \/ PMIx_Init(t) \/ PMIx_Finalize(t) \/ PMIx_server_init(t) \/ PMIx_server_finalize(t)
    \/ PMIx_tool_init(t) \/ PMIx_tool_finalize(t) \/ PMIx_tool_connect_to_server(t)
    \/ PMIx_Put(t) \/ PMIx_Commit(t)

Loop == _putfn \/ _commitfn \/ send_recv \/ process_msg \/ lost_connection

Next ==
    \/ \E t \in Threads : Calls(t) \/ ThreadSteps(t) \/ fin_timeout(t) \/ notification_fn(t)
    \/ Loop \/ Answer \/ server_dies

\* Threads go on, the progress thread handles what is pushed to it, timers
\* fire, and a server that lives answers what it is asked, except a farewell.
Fairness ==
    /\ \A t \in Threads : WF_vars(ThreadSteps(t)) /\ WF_vars(fin_timeout(t))
    /\ WF_vars(Loop)
    /\ WF_vars(Answer /\ \E q \in asked : q[2] # "fin" /\ q \notin asked')

Spec == Init /\ [][Next]_vars /\ Fairness
----------------------------------------------------------------------------
Users == {t \in Threads : th[t].user}

\* While some library uses PMIx the whole runtime is there for it, whoever
\* else initialised and finalised it in the meantime: everything is built,
\* the events are handled, the job's data are known, and the users are counted.
\* Three exceptions.  A server or a tool that tries again after a failure:
\* pmix_rte_init only looks at its count and says SUCCESS (a client's PMIx_Init
\* remembers the failure, and counts before it).  A server initialised while it is
\* up, which pmix_rte_init counts twice and PMIx_server_finalize releases once.  A
\* tool initialised while another of its threads is in PMIx_tool_finalize, which
\* gave the lock back before it takes everything down.
UpWhileUsed ==
    \A t \in Users : ~Ending(t) /\ ~g.down /\ (env.lib[t] = "client" \/ ~g.left) /\ ~g.crossed =>
        /\ g.cntr >= Cardinality({u \in Users : ~Ending(u)})
        /\ g.built = Members(Stages)
        /\ g.mypeer # "null" /\ g.myserver
        /\ env.lib[t] # "server" => g.job
        /\ Progress

\* Once the last user is gone everything is taken down again, unless an
\* initialisation failed or crossed a finalize: the runtime, the progress thread,
\* the listener.  (A failed one is never taken back: pmix_rte_init counts it.)
TornDown ==
    ~g.left /\ ~g.crossed /\ ~g.down /\ Users = {} /\ (\A t \in Threads : Idle(t)) =>
        g.initd = 0 /\ g.built = {} /\ g.refcount = 0 /\ g.cntr = 0 /\ ~g.listening

\* A commit that returned means the server has all that was put before it, by any
\* thread (commits_pending; _putfn and _commitfn run in order), except what a tool had
\* put when it changed its server: of what it had committed to the old one, PMIx_Commit
\* tells the new one nothing before something new is put.
CommittedThere == sure \subseteq got \cup g.moved

\* No callback and no timer reaches into the frame of a call that returned, except
\* in a tool that changed its server, whose old receives stay posted, and in a
\* process with its own event base, which outlives the finalize: there the client's
\* finwait_cbfunc leaves its timer set.  A timer is set for such a frame only there.
NoWildFrame ==
    /\ g.wild => g.again \/ env.external
    /\ \A t \in Threads : tev[t].armed => tev[t].live \/ (env.external /\ env.lib[t] = "client")

\* No call holds the lock when it has returned, on any of its ways out.
LockGivenBack == lock # Nobody => ~Idle(lock) /\ th[lock].at # "debug"

\* The library is up while a caller uses it and down after the last finalize, with
\* nothing of it left behind.
LifecycleSound == UpWhileUsed /\ TornDown /\ CommittedThere /\ NoWildFrame /\ LockGivenBack

\* A request on the old socket of a tool that changed its server: its receive is
\* posted and no answer will be read.
Stranded(t) == \E q \in g.posted : q[1] = t /\ Live(q) /\ q[2] # "fin" /\ q \notin asked \cup replies

\* Nobody handles events: the runtime was initialised again, after a failure or while
\* it was still up, and one finalize stopped the progress thread under the other.
Unserved == (g.left \/ g.crossed) /\ ~Progress

\* A finalize and a change of servers return, even if the server never answers or
\* is dead: the timer wakes them.  An initialisation, a put and a commit return, or
\* the initialisation waits for the debugger, or the request was dropped because
\* the connection was lost before it could be sent (adrift), or the tool has left
\* the server that was to answer.  No promise is made for a process that crashed or
\* whose progress thread is stopped for good (Unserved).
CallsReturn ==
    \A t \in Threads :
        /\ (th[t].at \in {"fin", "fin.ok", "rec", "rec.ok"}) ~> (Idle(t) \/ g.down \/ Unserved)
        /\ (th[t].at \in {"init", "put", "commit"}) ~>
              (Idle(t) \/ th[t].at \in {"debug", "adrift"} \/ Stranded(t) \/ g.down \/ Unserved)

\* A finalize that was asked for a barrier returns too (PMIX_EMBED_BARRIER).
BarrierReturns == \A t \in Threads : (th[t].at = "fence") ~> Idle(t)

\* Too strong: nothing but a finalize takes the runtime down (a tool's second
\* thread initialises while the first finalises).
AlwaysUpWhileUsed ==
    \A t \in Users : ~Ending(t) /\ ~g.down /\ ~g.left => g.built = Members(Stages) /\ Progress
\* Too strong: what a commit covers is at the server the process talks to.
CommittedToNew == sure \subseteq got
\* Too strong: no frame is used after its call returned.
NoFrameUsedLate == ~g.wild
\* Too strong: every call returns.
CallsEnd == \A t \in Threads : (th[t].at \in {"init", "put", "commit"}) ~> (Idle(t) \/ th[t].at = "debug")
=============================================================================
