----------------------------- MODULE ClientGet -----------------------------
(***************************************************************************)
(* PMIx_Get and PMIx_Get_nb of a client (src/src/client/pmix_client_get.c):*)
(* a value is looked for in the stores the client can read, then asked of  *)
(* the server; the answer holds everything its process has committed, so   *)
(* that one request per process serves every get that waits for it.        *)
(***************************************************************************)
EXTENDS Integers, Sequences

CONSTANTS
    Gets,       \* gets of the client's threads
    Procs,      \* processes asked about
    Keys,       \* keys they commit
    JobKey,     \* a key that starts with "pmix"
    Scenarios   \* [req: [Gets' -> [proc, key, dirs]], faults]

VARIABLES
    env,        \* the scenario
    stage,      \* stage[g]: "idle", "shifted", "pending", "query", "over"
    outcome,    \* outcome[g]: the statuses the callback was called with
    pending,    \* pmix_client_globals.pending_requests
    timers,     \* gets whose timer is running
    posted,     \* gets whose callback object waits for a message
    held,       \* those whose request the server still holds
    inflight,   \* answers on their way: [for, status, data]
    store,      \* store[p]: the keys of p the client can read
    committed,  \* committed[p]: the keys of p the server has
    connected,  \* pmix_globals.connected
    late,       \* keys the server had when a get joined a request: [Gets -> SUBSET Keys]
    dangling    \* a message came for a callback object that was released

vars == <<env, stage, outcome, pending, timers, posted, held, inflight, store,
          committed, connected, late, dangling>>

req(g) == env.req[g]
InUse == DOMAIN env.req

Init ==
    /\ env \in Scenarios
    /\ stage = [g \in Gets |-> "idle"]
    /\ outcome = [g \in Gets |-> <<>>]
    /\ pending = {} /\ timers = {} /\ posted = {} /\ held = {} /\ inflight = {}
    /\ store = [p \in Procs |-> {}]
    /\ committed = [p \in Procs |-> {}]
    /\ connected = TRUE
    /\ late = [g \in Gets |-> {}]
    /\ dangling = FALSE

-----------------------------------------------------------------------------
(* Asking *)

\* _getfn_fastpath: what a store can be read for without the progress thread.
Fastpath(g) == "tsafe" \in env.faults /\ req(g).key \in store[req(g).proc]

PMIx_Get(g) ==
    /\ g \in InUse /\ stage[g] = "idle"
    /\ IF Fastpath(g)
       THEN /\ outcome' = [outcome EXCEPT ![g] = Append(@, "success")]
            /\ stage' = [stage EXCEPT ![g] = "over"]
       ELSE stage' = [stage EXCEPT ![g] = "shifted"] /\ UNCHANGED outcome
    /\ UNCHANGED <<env, pending, timers, posted, held, inflight, store, committed,
                   connected, late, dangling>>

\* The callback is called and the object released, with its timer.
Respond(g, status) ==
    /\ outcome' = [outcome EXCEPT ![g] = Append(@, status)]
    /\ stage' = [stage EXCEPT ![g] = "over"]
    /\ UNCHANGED <<pending, timers, posted, held, late>>

\* A request for the process may be under way; its answer will serve this get.
Request(g) ==
    /\ IF \E h \in pending : req(h).proc = req(g).proc
       THEN UNCHANGED <<posted, held>>
       ELSE posted' = posted \cup {g} /\ held' = held \cup {g}
    /\ stage' = [stage EXCEPT ![g] = "pending"]
    /\ pending' = pending \cup {g}
    /\ timers' = IF "timeout" \in req(g).dirs THEN timers \cup {g} ELSE timers
    /\ late' = [late EXCEPT ![g] = committed[req(g).proc]]
    /\ UNCHANGED outcome

_getnbfn(g) ==
    /\ stage[g] = "shifted"
    /\ IF req(g).key \in store[req(g).proc] THEN Respond(g, "success")
       ELSE IF req(g).key = JobKey
       THEN IF "immediate" \in req(g).dirs
            THEN /\ stage' = [stage EXCEPT ![g] = "query"]
                 /\ UNCHANGED <<outcome, pending, timers, posted, held, late>>
            ELSE Respond(g, "not_found")
       ELSE IF ~connected \/ "optional" \in req(g).dirs THEN Respond(g, "not_found")
       ELSE Request(g)
    /\ UNCHANGED <<env, inflight, store, committed, connected, dangling>>

\* infocb: the answer to the PMIx_Query the get was turned into.
infocb(g, status) ==
    /\ stage[g] = "query"
    /\ Respond(g, status)
    /\ UNCHANGED <<env, inflight, store, committed, connected, dangling>>

-----------------------------------------------------------------------------
(* The server *)

\* A process commits (more of) its keys.
Commit(p, k) ==
    /\ k \notin committed[p]
    /\ committed[p] = {} \/ "recommit" \in env.faults
    /\ committed' = [committed EXCEPT ![p] = @ \cup {k}]
    /\ UNCHANGED <<env, stage, outcome, pending, timers, posted, held, inflight, store,
                   connected, late, dangling>>

\* The server answers with all there is, or with an error.
ServerReplies(g, status) ==
    /\ g \in held
    /\ IF status = "success" THEN committed[req(g).proc] # {}
       ELSE "error" \in env.faults \/ committed[req(g).proc] = {}
    /\ held' = held \ {g}
    /\ inflight' = inflight \cup {[for |-> g, status |-> status,
                                  data |-> IF status = "success" THEN committed[req(g).proc]
                                           ELSE {}]}
    /\ UNCHANGED <<env, stage, outcome, pending, timers, posted, store, committed,
                   connected, late, dangling>>

-----------------------------------------------------------------------------
(* Answers *)

\* Mutant: the search of the pending requests stops at the first one.
Mut_waiting_first(p, from) ==
    LET them == {g \in from : req(g).proc = p}
    IN  IF them = {} THEN {} ELSE {CHOOSE g \in them : TRUE}

\* The pending requests for process p.
WaitingFor(p, from) == {g \in from : req(g).proc = p}

\* Mutant: the timers of the answered requests go on.
Mut_answer_keeps_timers(ps) ==
    LET them == UNION {WaitingFor(p, pending) : p \in ps}
    IN  /\ outcome' = [g \in Gets |->
              IF g \notin them THEN outcome[g]
              ELSE Append(outcome[g], IF req(g).key \in store'[req(g).proc] THEN "success"
                                      ELSE "not_found")]
        /\ stage' = [g \in Gets |-> IF g \in them THEN "over" ELSE stage[g]]
        /\ pending' = pending \ them
        /\ UNCHANGED timers

\* Every pending request of the processes ps is looked up again and answered,
\* whatever the status the server sent.
AnswerAll(ps) ==
    LET them == UNION {WaitingFor(p, pending) : p \in ps}
    IN  /\ outcome' = [g \in Gets |->
              IF g \notin them THEN outcome[g]
              ELSE Append(outcome[g], IF req(g).key \in store'[req(g).proc] THEN "success"
                                      ELSE "not_found")]
        /\ stage' = [g \in Gets |-> IF g \in them THEN "over" ELSE stage[g]]
        /\ pending' = pending \ them
        /\ timers' = timers \ them

\* The callbacks _getnb_cbfunc of the gets in asked begin by reading the callback
\* object of the get that asked; if that was released, what they read is undefined.
CallBack(asked) ==
    LET released == {g \in asked : stage[g] = "over"}
    IN  /\ dangling' = (dangling \/ released # {})
        /\ \E S \in SUBSET released :
             AnswerAll({req(g).proc : g \in (asked \ released) \cup S})

_getnb_cbfunc(m) ==
    /\ m \in inflight
    /\ inflight' = inflight \ {m}
    /\ posted' = posted \ {m.for}
    /\ store' = [store EXCEPT ![req(m.for).proc] = @ \cup m.data]
    /\ CallBack({m.for})
    /\ UNCHANGED <<env, held, committed, connected, late>>

timeout(g) ==
    /\ g \in timers
    /\ outcome' = [outcome EXCEPT ![g] = Append(@, "timeout")]
    /\ stage' = [stage EXCEPT ![g] = "over"]
    /\ pending' = pending \ {g}
    /\ timers' = timers \ {g}
    /\ UNCHANGED <<env, posted, held, inflight, store, committed, connected, late, dangling>>

\* The connection is lost: every posted receive is completed with an empty
\* message (pmix_ptl_base_lost_connection).
LostConnection ==
    /\ "lost" \in env.faults /\ connected
    /\ connected' = FALSE
    /\ held' = {} /\ inflight' = {} /\ UNCHANGED store
    /\ CallBack(posted)
    /\ UNCHANGED <<env, posted, committed, late>>

Statuses == {"success", "not_found"}

Next ==
    \/ \E g \in Gets : \/ PMIx_Get(g) \/ _getnbfn(g) \/ timeout(g)
                       \/ \E s \in Statuses : infocb(g, s) \/ ServerReplies(g, s)
    \/ \E p \in Procs, k \in Keys : Commit(p, k)
    \/ \E m \in inflight : _getnb_cbfunc(m)
    \/ LostConnection

\* The progress thread runs; the host and the server answer.
Fairness ==
    /\ \A g \in Gets : /\ WF_vars(_getnbfn(g))
                       /\ WF_vars(\E s \in Statuses : infocb(g, s))
                       /\ WF_vars(\E s \in Statuses : ServerReplies(g, s))
    /\ WF_vars(\E m \in inflight : _getnb_cbfunc(m))

Spec == Init /\ [][Next]_vars /\ Fairness

-----------------------------------------------------------------------------
(* Properties *)

TypeOK ==
    /\ stage \in [Gets -> {"idle", "shifted", "pending", "query", "over"}]
    /\ {g \in Gets : stage[g] = "pending"} = pending
    /\ held \cup {m.for : m \in inflight} \subseteq posted
    /\ timers \subseteq pending

\* No get is answered twice, whatever timers, answers and losses race, and a get
\* is over once it is answered.
AnsweredOnce ==
    \A g \in Gets : /\ Len(outcome[g]) <= 1
                    /\ stage[g] = "over" <=> outcome[g] # <<>>

\* "If we do, then no need to ask again": while no get has timed out, the server
\* is asked about a process at most once at a time, and a get that waits has a
\* request under way that will answer it.
OneRequest ==
    (connected /\ \A g \in Gets : outcome[g] # <<"timeout">>) =>
       /\ \A g, h \in posted : req(g).proc = req(h).proc => g = h
       /\ \A g \in pending :
            \E h \in posted : req(h).proc = req(g).proc /\ stage[h] = "pending"

\* The callback object named by a posted receive is there until its message
\* arrives, unless it was released by its own timer.  That holds up to the first
\* message that comes for a released object: what its callback reads there is
\* undefined, and may answer gets whose own message is still to come.  Such a
\* message comes only after a get has timed out.
ReceivesOwned ==
    /\ (connected /\ ~dangling) =>
          \A g \in posted : stage[g] = "pending" \/ outcome[g] = <<"timeout">>
    /\ dangling => \E g \in InUse : "timeout" \in req(g).dirs /\ outcome[g] = <<"timeout">>

\* Gets of one process share one request, and each is answered once.
GetsSound == TypeOK /\ AnsweredOnce /\ OneRequest /\ ReceivesOwned

\* Every get is answered, if no timer releases the object another one waits on.
GetsComplete ==
    \A g \in Gets : stage[g] = "shifted" ~> (stage[g] = "over" \/ dangling)

\* "no need to ask again as the request will return _all_ data from that proc":
\* a get that joins a request under way finds what the server had by then.
JoinedIsServed ==
    \A g \in InUse : (outcome[g] = <<"not_found">> /\ connected) => req(g).key \notin late[g]

=============================================================================
