------------------------------ MODULE MCComms ------------------------------
(***************************************************************************)
(* The client and its server, for TLC: the messages between them           *)
(* (Messaging), gets (ClientGet), groups (Groups) and the requests passed  *)
(* to the host (Services).  In a behaviour one of the four has something   *)
(* to do; the others are in the scenario without work.                     *)
(***************************************************************************)
EXTENDS Messaging, TLC

CONSTANTS Parts,               \* the parts that run
          q1, q2, q3, n1, n2, b1,   \* calls, notifications, heartbeats
          g1, g2, g3, pa, pb, k1, k2, jk,   \* gets, processes, keys
          p1, p2, p3,          \* members of a group
          c1, c2               \* callers of the server's services

VARIABLES
    part,
    genv, stage, goutcome, pending, timers, gposted, gheld, inflight, store, committed, gconnected,
    late, dangling,
    renv, call, round, answers, grp, trk, host, cbs, gone, armed, wild,
    senv, sconnected, lock, caller, told, request, upcall, reply, soutcome, caddies, cached

-----------------------------------------------------------------------------
(* The scenarios *)

Mail(c, n, b, mon, f) == [calls |-> c, notes |-> n, beats |-> b, monitored |-> mon, faults |-> f]
NoMail == Mail({}, {}, {}, TRUE, {})
Mails == {Mail({q1, q2, q3}, {}, {}, TRUE, {}), Mail({q1}, {n1, n2}, {}, TRUE, {}),
          Mail({q1}, {n1}, {}, TRUE, {"short"}),
          Mail({q1}, {}, {b1}, FALSE, {"short"}), Mail({q1}, {}, {b1}, TRUE, {"short"}),
          Mail({q1, q2}, {}, {}, TRUE, {"server"}), Mail({q1, q2}, {}, {}, TRUE, {"client"}),
          Mail({q1}, {n1}, {}, TRUE, {"server", "short"})}

\* The server closes the connection while a call is made.
Closing == {Mail({q1}, {}, {}, TRUE, {"server"})}
MailRuns == Mails \cup Closing \cup {NoMail}

Get(p, k, d) == [proc |-> p, key |-> k, dirs |-> d]
Two(r1, r2, f) == [req |-> (g1 :> r1 @@ g2 :> r2), faults |-> f]
Three(r1, r2, r3, f) == [req |-> (g1 :> r1 @@ g2 :> r2 @@ g3 :> r3), faults |-> f]
NoGets == [req |-> << >>, faults |-> {}]
GetRuns == {Three(Get(pa, k1, {}), Get(pa, k2, {}), Get(pb, k1, {}), {"lost", "error"}),
            Three(Get(pa, k1, {"timeout"}), Get(pa, k1, {}), Get(pa, k2, {"optional"}), {}),
            Two(Get(pa, k1, {"timeout"}), Get(pa, k1, {"timeout"}), {"lost"}),
            Two(Get(pa, jk, {"immediate"}), Get(pa, jk, {}), {"tsafe", "recommit"}),
            Two(Get(pa, k1, {}), Get(pa, k1, {}), {"tsafe"})}

Grp(r, h, t, v, f) == [remote |-> r, hosted |-> h, timed |-> t, verdicts |-> v, faults |-> f]
Group(r, h, v, f) == Grp(r, h, {}, v, f)
NoGroup == Group(FALSE, TRUE, {}, {})
GroupRuns == {Group(FALSE, TRUE, {"success", "succeeded"}, {}),
              Group(TRUE, TRUE, {"success", "succeeded"}, {}),
              Group(TRUE, FALSE, {"success"}, {}), Group(TRUE, TRUE, {"success", "error"}, {}),
              Group(TRUE, TRUE, {"success"}, {"lost"}), Group(FALSE, TRUE, {"succeeded"}, {"lost"}),
              Grp(FALSE, TRUE, {p1}, {"success", "succeeded", "error"}, {}),
              Grp(TRUE, TRUE, {p1, p2}, {"success", "succeeded"}, {"lost"}),
              Grp(TRUE, FALSE, {p1}, {"success"}, {})}

Counts(n) == [procs |-> n, infos |-> n, keys |-> n, apps |-> n, queries |-> n, dirs |-> n, codes |-> n]
Operations == {"publish", "lookup", "unpublish", "spawn", "query", "alloc", "job_ctrl", "monitor",
               "get_cred", "validate", "log", "stdin", "abort"}
Request(ops, n, supported, f) ==
    [ops |-> ops, args |-> Counts(n), results |-> n, supported |-> supported,
     verdicts |-> {"SUCCESS", "ERROR", "OPERATION_SUCCEEDED"}, faults |-> f]
NoRequest == Request(<< >>, 1, {}, {})
Pairs == {<<"publish", "lookup">>, <<"unpublish", "spawn">>, <<"query", "alloc">>,
          <<"job_ctrl", "monitor">>, <<"get_cred", "validate">>, <<"log", "stdin">>, <<"abort", "query">>}
Both(o) == (c1 :> o[1] @@ c2 :> o[2])
RequestRuns == {Request(Both(o), n, Operations, {}) : o \in Pairs, n \in {0, 2}}
               \cup {Request(Both(o), 1, Operations \ {o[2]}, {"lost"}) : o \in Pairs}

\* A value is published, and a query repeated.
Publishing == {Request(c1 :> "publish", 1, Operations, {})}
Requery == {Request(Both(<<"query", "query">>), 1, Operations, {"requery"})}

-----------------------------------------------------------------------------
G == INSTANCE ClientGet WITH
        Gets <- {g1, g2, g3}, Procs <- {pa, pb}, Keys <- {k1, k2}, JobKey <- jk,
        Scenarios <- GetRuns \cup {NoGets},
        env <- genv, outcome <- goutcome, posted <- gposted, held <- gheld, connected <- gconnected
R == INSTANCE Groups WITH
        Members <- {p1, p2, p3}, Scenarios <- GroupRuns \cup {NoGroup}, env <- renv
S == INSTANCE Services WITH
        Callers <- {c1, c2}, Scenarios <- RequestRuns \cup Publishing \cup Requery \cup {NoRequest},
        env <- senv, connected <- sconnected, outcome <- soutcome

gvars == <<genv, stage, goutcome, pending, timers, gposted, gheld, inflight, store, committed,
           gconnected, late, dangling>>
rvars == <<renv, call, round, answers, grp, trk, host, cbs, gone, armed, wild>>
svars == <<senv, sconnected, lock, caller, told, request, upcall, reply, soutcome, caddies, cached>>

MCInit ==
    /\ part \in Parts
    /\ env \in CASE part = "messages" -> Mails [] part = "closing" -> Closing [] OTHER -> {NoMail}
    /\ genv \in IF part = "gets" THEN GetRuns ELSE {NoGets}
    /\ renv \in IF part = "groups" THEN GroupRuns ELSE {NoGroup}
    /\ senv \in CASE part = "services" -> RequestRuns [] part = "publishing" -> Publishing
                  [] part = "requery" -> Requery [] OTHER -> {NoRequest}
    /\ Init /\ G!Init /\ R!Init /\ S!Init

MCNext ==
    \/ Next /\ UNCHANGED <<part, gvars, rvars, svars>>
    \/ part = "gets" /\ G!Next /\ UNCHANGED <<part, vars, rvars, svars>>
    \/ R!Next /\ UNCHANGED <<part, vars, gvars, svars>>
    \/ S!Next /\ UNCHANGED <<part, vars, gvars, rvars>>

MCSpec == /\ MCInit /\ [][MCNext]_<<part, vars, gvars, rvars, svars>>
          /\ Fairness /\ G!Fairness /\ R!Fairness /\ S!Fairness

-----------------------------------------------------------------------------
(* The properties of the parts; each is documented where it is defined.    *)

\* ClientGet: gets share a request and are answered once.
GetsSound == G!GetsSound
\* Groups: the members stay together and get the same answer.
MembersAgree == R!MembersAgree
\* Services: requests are read as packed and answered as decided.
ServicesSound == S!ServicesSound
\* What is posted completes, every get ends, every member of a group is answered,
\* and the calls of the server's services return.
CommsEnd == PostedCompleted /\ G!GetsComplete /\ R!WaitersAnswered /\ S!CallsReturn
\* Services: a publish that succeeds was confirmed.
PublishConfirmed == S!PublishConfirmed
\* Services: the global lock is held by a caller in its function.
LockReleased == S!LockReleased
\* ClientGet: a get that joins a request finds what the server had by then.
JoinedIsServed == G!JoinedIsServed
\* Groups: a member does not wait for a lost one.
LossIsTold == R!LossIsTold
\* Services: what the host calls done succeeds.
SuccessTold == S!SuccessTold
\* Groups: a timeout that expires ends the wait.
TimeoutAnswers == R!TimeoutAnswers
\* Groups: memory is what it is taken for.
NoMisuse == R!NoMisuse
=============================================================================
