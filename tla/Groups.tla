------------------------------- MODULE Groups -------------------------------
(***************************************************************************)
(* Construction and destruction of a group of processes: the calls of its  *)
(* local members (src/src/client/pmix_client_group.c) and the trackers the *)
(* server keeps of them until its host, or the last local member, has      *)
(* completed the operation (src/src/server/pmix_server_ops.c).  A caller   *)
(* may ask for a timeout, for which the tracker has a timer.               *)
(***************************************************************************)
EXTENDS Integers, FiniteSets

CONSTANTS
    Members,        \* the local members of the group
    Scenarios       \* [remote, hosted, timed, verdicts, faults]; timed: who asks for a timeout

Ops == {"construct", "destruct"}
None == [nlocal |-> 0, cbs |-> {}]

VARIABLES
    env,        \* the scenario
    call,       \* call[p]: the operation p waits for, or "none"
    round,      \* round[p]: how many of its operations have ended
    answers,    \* answers[p]: the statuses of its operations, in a function on rounds
    grp,        \* pmix_server_globals.groups holds the group
    trk,        \* trk[op]: the tracker on the list of collectives
    host,       \* operations the host is working on
    cbs,        \* results shifted to the progress thread: [op, status]
    gone,       \* processes that have lost their connection
    armed,      \* operations whose tracker on the list has its timer running
    wild        \* what was done to memory that is not what it is taken for

vars == <<env, call, round, answers, grp, trk, host, cbs, gone, armed, wild>>

\* "result": a result came for a tracker that is off the list; "caddy": the caddy
\* of a caller was released twice; "rearmed": the event of a running timer was set
\* again; "stray": a tracker was released with its timer running; "fired":
\* grp_timeout took a tracker for a caddy.
Misuses == {"result", "caddy", "rearmed", "stray", "fired"}

Rounds == 1 .. 3

Init ==
    /\ env \in Scenarios
    /\ call = [p \in Members |-> "none"]
    /\ round = [p \in Members |-> 0]
    /\ answers = [p \in Members |-> [r \in Rounds |-> "none"]]
    /\ grp = FALSE
    /\ trk = [op \in Ops |-> None]
    /\ host = {} /\ cbs = {} /\ gone = {} /\ armed = {} /\ wild = {}

\* The members call construct and destruct by turns.
NextOp(p) == IF round[p] % 2 = 0 THEN "construct" ELSE "destruct"

\* The replies to the processes in S (grp_cbfunc at each of them).
Answer(S, status) ==
    /\ answers' = [p \in Members |->
          IF p \in S THEN [answers[p] EXCEPT ![round[p] + 1] = status] ELSE answers[p]]
    /\ round' = [p \in Members |-> IF p \in S THEN round[p] + 1 ELSE round[p]]

-----------------------------------------------------------------------------
(* The handlers of the server *)

\* get_tracker, or new_tracker with the number of local members that are left.
Tracker(op) ==
    IF trk[op] # None THEN trk[op]
    ELSE [nlocal |-> Cardinality(Members \ gone), cbs |-> {}]

\* The operation can be done without the host: no remote member, no context id.
Local(op) == op = "construct" /\ ~env.remote

\* A timeout is read from the first caller of a construct, and from every caller
\* of a destruct; the timer is that of the tracker.
Timed(op, p) == p \in env.timed /\ (op = "destruct" \/ trk[op] = None)
Arm(op, p) == IF Timed(op, p) THEN {op} ELSE {}
Rearmed(op, p) == IF Timed(op, p) /\ op \in armed THEN {"rearmed"} ELSE {}

\* The caller waits on the tracker.
Joins(op, t, p) ==
    /\ trk' = [trk EXCEPT ![op] = t]
    /\ call' = [call EXCEPT ![p] = op]
    /\ wild' = wild \cup Rearmed(op, p)
    /\ UNCHANGED <<round, answers>>

\* The last local member has called: the operation goes to the host, whose
\* verdict may be that it is done already, or an error, which is reported to the
\* last caller only, because the tracker and the other callers are released.  The
\* caddy of the last caller is released with them, and once more by the
\* switchyard.  Without a host the timer is not stopped before.
Upcall(op, t, p, verdict) ==
    \/ /\ verdict = "success"
       /\ host' = host \cup {op}
       /\ armed' = armed \cup Arm(op, p)
       /\ Joins(op, t, p)
       /\ UNCHANGED cbs
    \/ /\ verdict = "succeeded"
       /\ cbs' = cbs \cup {[op |-> op, status |-> "success"]}
       /\ armed' = armed \ {op}
       /\ Joins(op, t, p)
       /\ UNCHANGED host
    \/ /\ verdict \notin {"success", "succeeded"}
       /\ trk' = [trk EXCEPT ![op] = None]
       /\ armed' = armed \ {op}
       /\ wild' = wild \cup Rearmed(op, p) \cup {"caddy"}
             \cup (IF ~env.hosted /\ op \in armed \cup Arm(op, p) THEN {"stray"} ELSE {})
       /\ Answer({p}, verdict)
       /\ UNCHANGED <<host, cbs, call>>

\* The operation is done by the server itself.
Done(op, t, p) ==
    /\ cbs' = cbs \cup {[op |-> op, status |-> "success"]}
    /\ armed' = armed \cup Arm(op, p)
    /\ Joins(op, t, p)
    /\ UNCHANGED host

\* Mutant: the operation goes to the host at the first call.
Mut_contribute_eager(op, p, verdict) ==
    LET t == [Tracker(op) EXCEPT !.cbs = @ \cup {p}]
    IN  IF Local(op) THEN Done(op, t, p) ELSE Upcall(op, t, p, verdict)

\* The caller joins the tracker; the last one completes it.
Contribute(op, p, verdict) ==
    LET t == [Tracker(op) EXCEPT !.cbs = @ \cup {p}]
    IN  IF Cardinality(t.cbs) # t.nlocal
        THEN /\ armed' = armed \cup Arm(op, p)
             /\ Joins(op, t, p)
             /\ UNCHANGED <<host, cbs>>
        ELSE IF Local(op) THEN Done(op, t, p) ELSE Upcall(op, t, p, verdict)

\* The server has not stopped at a null pointer.
Alive == "fired" \notin wild

Idle(p) == Alive /\ p \notin gone /\ call[p] = "none" /\ round[p] < 3

\* PMIx_Group_construct, pmix_server_grpconstruct.  A group of the same name
\* that is there already is taken as it is.
GrpConstruct(p, verdict) ==
    /\ Idle(p) /\ NextOp(p) = "construct"
    /\ grp' = TRUE
    /\ Contribute("construct", p, IF env.hosted THEN verdict ELSE "not_supported")
    /\ UNCHANGED <<env, gone>>

\* PMIx_Group_destruct, pmix_server_grpdestruct
GrpDestruct(p, verdict) ==
    /\ Idle(p) /\ NextOp(p) = "destruct"
    /\ IF ~env.hosted \/ ~grp
       THEN /\ Answer({p}, IF env.hosted THEN "not_found" ELSE "not_supported")
            /\ UNCHANGED <<call, trk, host, cbs, armed, wild>>
       ELSE Contribute("destruct", p, verdict)
    /\ UNCHANGED <<env, grp, gone>>

-----------------------------------------------------------------------------
(* Completion *)

\* grpcbfunc, called by the host
HostCallback(op, status) ==
    /\ Alive /\ op \in host
    /\ host' = host \ {op}
    /\ cbs' = cbs \cup {[op |-> op, status |-> status]}
    /\ UNCHANGED <<env, call, round, answers, grp, trk, gone, armed, wild>>

\* _grpcbfunc: the timer is stopped, the callers that are still there are
\* answered, the tracker goes, and so does a destructed group, whatever the status.
_grpcbfunc(r) ==
    /\ Alive /\ r \in cbs
    /\ cbs' = cbs \ {r}
    /\ armed' = armed \ {r.op}
    /\ grp' = (grp /\ r.op = "construct")
    /\ IF trk[r.op] = None
       THEN wild' = wild \cup {"result"} /\ UNCHANGED <<call, round, answers, trk>>
       ELSE /\ Answer(trk[r.op].cbs, r.status)
            /\ call' = [p \in Members |-> IF p \in trk[r.op].cbs THEN "none" ELSE call[p]]
            /\ trk' = [trk EXCEPT ![r.op] = None]
            /\ UNCHANGED wild
    /\ UNCHANGED <<env, host, gone>>

\* grp_timeout is given the tracker, and takes it for the caddy of a caller: the
\* peer it replies to is a null pointer among the bytes of the tracker's name.
grp_timeout ==
    /\ Alive /\ (armed # {} \/ "stray" \in wild)
    /\ wild' = wild \cup {"fired"}
    /\ UNCHANGED <<env, call, round, answers, grp, trk, host, cbs, gone, armed>>

\* pmix_ptl_base_lost_connection: the process is taken off the trackers.  A
\* tracker with no caller left goes off the list, and the event of its timer is
\* set for another purpose; the callers that are left on the tracker of a group
\* are told nothing, and nobody looks whether they are now all there.
LostConnection(p) ==
    LET last == {op \in Ops : trk[op].cbs = {p}}
    IN  /\ "lost" \in env.faults /\ Alive /\ p \notin gone
        /\ gone' = gone \cup {p}
        /\ call' = [call EXCEPT ![p] = "none"]
        /\ trk' = [op \in Ops |->
              IF trk[op] = None \/ p \notin trk[op].cbs THEN trk[op]
              ELSE IF op \in last THEN None
              ELSE [nlocal |-> trk[op].nlocal - 1, cbs |-> trk[op].cbs \ {p}]]
        /\ armed' = armed \ last
        /\ wild' = wild \cup (IF armed \cap last # {} THEN {"rearmed"} ELSE {})
        /\ UNCHANGED <<env, round, answers, grp, host, cbs>>

Next ==
    \/ \E p \in Members : \/ \E v \in env.verdicts : GrpConstruct(p, v) \/ GrpDestruct(p, v)
                          \/ LostConnection(p)
    \/ \E op \in Ops, s \in {"success", "error"} : HostCallback(op, s)
    \/ \E r \in cbs : _grpcbfunc(r)
    \/ grp_timeout

\* Members that construct a group destruct it; the host calls back.
Fairness ==
    /\ \A p \in Members : WF_vars(\E v \in env.verdicts : GrpConstruct(p, v) \/ GrpDestruct(p, v))
    /\ \A op \in Ops : WF_vars(\E s \in {"success", "error"} : HostCallback(op, s))
    /\ WF_vars(\E r \in cbs : _grpcbfunc(r))

Spec == Init /\ [][Next]_vars /\ Fairness

-----------------------------------------------------------------------------
(* Properties *)

\* The host may refuse the operation, or have no support for groups.
MayRefuse == ~env.hosted \/ ~(env.verdicts \subseteq {"success", "succeeded"})

TypeOK ==
    /\ call \in [Members -> Ops \cup {"none"}]
    /\ round \in [Members -> 0 .. 3]
    /\ grp \in BOOLEAN /\ host \subseteq Ops /\ armed \subseteq Ops /\ wild \subseteq Misuses

\* A process that waits is on the tracker of its operation, unless the host
\* refused the operation and the tracker was released with the other callers.
WaitersTracked ==
    \A p \in Members : call[p] # "none" =>
       \/ trk[call[p]] # None /\ p \in trk[call[p]].cbs
       \/ MayRefuse

\* The members learn the same: no operation ends well for one local member and
\* badly for another, unless the host refused it or one of them is lost.
SameOutcome ==
    (~MayRefuse /\ gone = {}) =>
       \A p, q \in Members, r \in Rounds :
          (answers[p][r] # "none" /\ answers[q][r] # "none") => answers[p][r] = answers[q][r]

\* The members are answered together, as long as the host does not refuse and
\* nobody is lost: no answer comes before all local members have contributed, and
\* then it is queued to all of them by the same handler.
NobodyAhead ==
    (~MayRefuse /\ gone = {}) => \A p, q \in Members : round[p] = round[q]

\* The tracker of a result that comes back is on the list of collectives,
\* unless the last of its callers was lost meanwhile.
ResultTracked == ("result" \in wild \/ \E r \in cbs : trk[r.op] = None) => gone # {}

\* A timer that runs is that of a tracker on the list, so that it is stopped when
\* the tracker is released; only a construct that finds no host leaves one behind.
\* No event is set while it runs, unless two members give a timeout for the same
\* destruct or the only caller is lost; no timer fires unless one was asked for.
TimersOwned ==
    /\ \A op \in armed : trk[op] # None
    /\ "stray" \in wild => ~env.hosted /\ env.timed # {}
    /\ "rearmed" \in wild => gone # {} \/ \E p, q \in env.timed : p # q
    /\ "fired" \in wild => env.timed # {}

\* No caddy is released twice, unless the host refused the operation of the last
\* caller (whose caddy goes with the tracker and again in the switchyard).
CaddyReleasedOnce == "caddy" \in wild => MayRefuse

\* The members of a group go through its rounds together, with the same answers.
MembersAgree ==
    /\ TypeOK /\ WaitersTracked /\ SameOutcome /\ NobodyAhead
    /\ ResultTracked /\ TimersOwned /\ CaddyReleasedOnce

\* A member that waits is answered, unless the host refuses the operation, a
\* member is lost, or a timeout that was asked for expires.
WaitersAnswered ==
    \A p \in Members : call[p] # "none" ~> (call[p] = "none" \/ gone # {} \/ MayRefuse \/ ~Alive)

\* A timeout that expires ends the wait.  Does not hold: grp_timeout does not
\* reach the caller.
TimeoutAnswers == ~Alive ~> \A p \in Members : call[p] = "none"

\* Nothing is done to memory that is not what it is taken for.  Does not hold,
\* in the cases that ResultTracked, TimersOwned and CaddyReleasedOnce name.
NoMisuse == wild = {}

\* "we need to let them know that this proc has disappeared as otherwise the
\* collective will never complete": a member does not wait for a lost one.
LossIsTold == \A p \in Members : call[p] # "none" ~> call[p] = "none"

=============================================================================
