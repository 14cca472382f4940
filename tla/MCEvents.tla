----------------------------- MODULE MCEvents -----------------------------
(***************************************************************************)
(* The event system for TLC, one part per behaviour: the handlers of a     *)
(* client (EventHandlers), the server (Notifications), the cache both use  *)
(* (NotifyCache), and the hotel in which the cache is kept (Hotel), whose  *)
(* rooms come and go in any order.                                         *)
(***************************************************************************)
EXTENDS NotifyCache, Sequences

CONSTANTS
    Parts,                          \* the parts that are checked
    WILDCARD, MAX_ERR_CONSTANT, Server,
    c1, c2, grp,                    \* status codes
    rs, ra, rm, rd, rl, rf, rg, rh, rk, rn,   \* registrations
    re, rp, ru, ro, rt,
    e1, e2, e3, e4, e5,             \* events
    p1, p2,                         \* clients
    HandlerScenarios, ServerScenarios

VARIABLES
    part,
    env, events, hdlr, index, acks, chains, calls, notifications, happened, up, down,
    srv, srvcache, undefined,
    senv, todo, regs, queue, cache, refs, sent, hosted, awaited, answered, processed, groups

-----------------------------------------------------------------------------
(* Handlers *)

Req(codes, where, range) ==
    [codes |-> codes, where |-> where, range |-> range, name |-> NULL,
     xfer |-> FALSE, affected |-> {}]

Proc(ns, r) == [ns |-> ns, rank |-> r]

Requests == {rs, ra, rm, rd, rl, rf, rg, rh, rk, rn, re, rp, ru, ro, rt}

\* Two handlers for one code, one for both, two default ones, a last one for a
\* code and one for all, and two first ones; three that want to be the first for
\* a code, two that name a place, one of them without a name of its own; one for
\* events of the process itself.
ReqTable == [q \in Requests |->
    CASE q = rs -> [Req({c1}, "none", "undef") EXCEPT !.affected = {Proc("A", 1)}]
      [] q = ra -> Req({c1}, "append", "session")
      [] q = rm -> Req({c1, c2}, "none", "namespace")
      [] q \in {rd, re} -> Req({}, "none", "undef")
      [] q = rt -> Req({}, "last_overall", "undef")
      [] q = rp -> Req({c1}, "none", "proc_local")
      [] q = ru -> Req({c2}, "first", "undef")
      [] q = ro -> Req({c1}, "after", "undef")
      [] q = rl -> Req({c2}, "last_overall", "undef")
      [] q \in {rf, rg} -> Req({c1}, "first_overall", "undef")
      [] q \in {rh, rk} -> [Req({c1}, "first", "undef") EXCEPT !.name = "h"]
      [] q = rn -> [Req({c1}, "after", "undef") EXCEPT !.name = "h"]]

ClientEvent(status, source, nondefault, affected) ==
    [status |-> status, source |-> source, nondefault |-> nondefault,
     targets |-> "none", affected |-> affected, range |-> "session"]

ClientEvents == [e \in {e1, e2, e3} |->
    CASE e = e1 -> ClientEvent(c1, "peer", FALSE, {Proc("A", WILDCARD)})
      [] e = e2 -> ClientEvent(c2, "me", TRUE, {})
      [] e = e3 -> ClientEvent(c2, "other", FALSE, {})]

Scenario(reqs, evs, faults) == [reqs |-> reqs, events |-> evs, faults |-> faults]

SomeHandlers ==
    {Scenario({rs, rm}, {e1}, {}), Scenario({rs, ra}, {e1}, {}),
     Scenario({rm, rd}, {e1, e2}, {}), Scenario({rs, rd, rl}, {e3}, {}),
     Scenario({rs, rm}, {e1}, {"refused"}), Scenario({rs, rl, rd}, {}, {"refused"}), Scenario({rs, ra}, {e1}, {"send"}),
     Scenario({rs, rd}, {e1}, {"host_refused"}), Scenario({rl, rm}, {e3}, {"send"}),
     Scenario({rs, rm}, {e1}, {"dereg_running"}), Scenario({rf, rg}, {}, {"send"}),
     Scenario({rh, rk, rn}, {}, {}), Scenario({rh, ra}, {e1}, {}),
     Scenario({rf, rs}, {e1}, {}), Scenario({rf, rs}, {e1}, {"threads"}), Scenario({rd, re, rt}, {e1}, {}),
     Scenario({rs, ra, rp}, {}, {}), Scenario({rh, ru, ra}, {}, {}),
     Scenario({rh, ru}, {e2}, {"refused"}), Scenario({rh, ro}, {}, {}),
     Scenario({rs, rm}, {e1}, {"threads"}), Scenario({rm, rl}, {e2}, {"dereg_running"}),
     Scenario({rs, rm}, {e1}, {"threads", "dereg_running"}),
     Scenario({rm, ru}, {e2}, {"refused"})}

H == INSTANCE EventHandlers WITH
        Reqs <- Requests, req <- ReqTable, Events <- {e1, e2, e3}, ev <- ClientEvents,
        Codes <- {c1, c2}, max_events <- 1, Scenarios <- HandlerScenarios

-----------------------------------------------------------------------------
(* The server *)

Event(status, source, targets, range, nondefault) ==
    [status |-> status, source |-> source, targets |-> targets, range |-> range,
     nondefault |-> nondefault, nocache |-> FALSE]

\* From a client, from the server itself, from elsewhere for p1 only, for
\* non-default handlers only, malformed.
ServerEvents == [e \in {e1, e2, e3, e4, e5} |->
    CASE e = e1 -> Event(c1, p1, {}, "session", FALSE)
      [] e = e2 -> Event(c1, Server, {}, "session", FALSE)
      [] e = e3 -> Event(grp, NULL, {p1}, "custom", FALSE)
      [] e = e4 -> [Event(c2, NULL, {}, "local", TRUE) EXCEPT !.nocache = TRUE]
      [] e = e5 -> Event(c2, p2, {p1}, "local", FALSE)]

Reg(codes) == [op |-> "register", codes |-> codes]
Dereg(codes) == [op |-> "deregister", codes |-> codes]

\* p2 registers for a code and for everything, p1 for one or the other.
BothWays == [p \in {p1, p2} |-> IF p = p2 THEN <<Reg({c1}), Reg({})>> ELSE <<Reg({c1, c2})>>]
InAndOut == [p \in {p1, p2} |-> IF p = p2 THEN <<Reg({c1}), Dereg({c1}), Reg({c1})>>
                                ELSE <<Reg({}), Dereg({MAX_ERR_CONSTANT})>>]

Distribution(reqs, evs, host) == [reqs |-> reqs, events |-> evs, host |-> host]

SomeDistributions ==
    {Distribution(BothWays, {e1, e2, e3}, "async"), Distribution(InAndOut, {e1, e4}, "done"),
     Distribution(InAndOut, {e1, e5}, "none"), Distribution(BothWays, {e1, e2}, "error")}

N == INSTANCE Notifications WITH
        Peers <- {p1, p2}, Events <- {e1, e2, e3, e4, e5}, ev <- ServerEvents,
        Codes <- {c1, c2, grp}, GROUP_CONSTRUCT_COMPLETE <- grp, max_events <- 2,
        Scenarios <- ServerScenarios, env <- senv, notifications <- cache

-----------------------------------------------------------------------------
MCInit ==
    /\ part \in Parts
    /\ H!Init /\ (part # "handlers" => env = CHOOSE x \in HandlerScenarios : TRUE)
    /\ N!Init /\ (part # "server" => senv = CHOOSE x \in ServerScenarios : TRUE)
    /\ CacheInit

hvars == <<env, events, hdlr, index, acks, chains, calls, notifications, happened, up, down,
           srv, srvcache, undefined>>
nvars == <<senv, todo, regs, queue, cache, refs, sent, hosted, awaited, answered, processed,
           groups>>

MCNext ==
    \/ part = "handlers" /\ H!Next /\ UNCHANGED <<part, nvars, cachevars>>
    \/ part = "server" /\ N!Next /\ UNCHANGED <<part, hvars, cachevars>>
    \/ part = "cache" /\ CacheNext /\ UNCHANGED <<part, hvars, nvars>>
    \/ part = "hotel" /\ Next /\ UNCHANGED <<part, hvars, nvars, newest, before>>

MCSpec == MCInit /\ [][MCNext]_<<part, hvars, nvars, cachevars>> /\ H!Fairness /\ N!Fairness

-----------------------------------------------------------------------------
(* The properties of the parts; each is documented where it is defined.    *)

\* EventHandlers: handlers are on their lists, answered once, and live when used.
HandlersSound == H!HandlersSound
\* EventHandlers: the server knows the codes of every acknowledged handler.
ServerCovers == H!ServerCovers
\* Notifications: whoever is registered has been sent one copy of what is cached.
EventsDelivered == [](part = "server" => N!RegisteredSaw) /\ N!NoCopies
\* Notifications: events are processed and answered once and freed with their last holder.
CaddiesSound == N!CaddiesSound
\* EventHandlers and Notifications: registrations, chains and generated events
\* come to their end.
EventsEnd == H!HandlersEnd /\ N!GeneratorAnswered
\* EventHandlers: a handler is given an event once.
SeenOnce == H!SeenOnce
\* EventHandlers: no handler is used that is not there.
NeverWild == H!NeverWild
\* EventHandlers: a registration is acknowledged once.
OneAck == H!OneAck
\* EventHandlers: an acknowledged handler is known to the server.
KnownToServer == H!KnownToServer
\* Notifications: no caddy is leaked.
NoneLeaked == N!NoneLeaked
\* Notifications: whoever generated an event is answered.
AllAnswered == N!AllAnswered
\* Notifications: a client is sent no event of its own.
NotToSource == N!NotToSource
\* Notifications: a malformed event is sent to nobody.
RefusedNotSent == N!RefusedNotSent
=============================================================================
