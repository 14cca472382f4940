--------------------------- MODULE Notifications ---------------------------
(***************************************************************************)
(* Events in the server: the registrations of the local clients            *)
(* (pmix_server_register_events, pmix_server_deregister_events), the       *)
(* distribution of an event to them (_notify_client_event), events sent by *)
(* a client (pmix_server_event_recvd_from_client, intermed_step) and by    *)
(* the host (PMIx_Notify_event), the hand-over to the host and the cache.  *)
(***************************************************************************)
EXTENDS Integers, SequencesExt

CONSTANTS
    Peers,              \* the local clients
    Events,             \* events, generated once each
    ev,                 \* what each is
    Codes, MAX_ERR_CONSTANT, GROUP_CONSTRUCT_COMPLETE,
    Server,             \* the server as the source of an event
    max_events,
    NULL,
    Scenarios           \* [reqs: the registrations each peer makes, in order
                        \*  (<<>> for a deregistration of all), events, host:
                        \*  how the host's notify_event answers]

VARIABLES
    env,            \* the scenario
    todo,           \* registrations each peer still makes
    regs,           \* pmix_server_globals.events: the peers of each code
    queue,          \* caddies shifted to the progress thread, in order
    notifications,  \* the cache: a hotel of caddies
    refs,           \* references held on the caddy of each event
    sent,           \* the notifications sent to each peer, in order
    hosted,         \* events the host was asked to distribute
    awaited,        \* events whose host callback is due
    answered,       \* statuses given to whoever generated the event
    processed,      \* how often the event went through _notify_client_event
    groups          \* pmix_server_globals.groups, from GROUP_CONSTRUCT_COMPLETE

vars == <<env, todo, regs, queue, notifications, refs, sent, hosted, awaited,
          answered, processed, groups>>

NC == INSTANCE NotifyCache WITH num_rooms <- max_events, Occupants <- Events,
                                hotel <- notifications, newest <- NULL, before <- <<>>

AllCodes == Codes \cup {MAX_ERR_CONSTANT}

Init ==
    /\ env \in Scenarios
    /\ todo = env.reqs
    /\ regs = [c \in AllCodes |-> {}]
    /\ queue = <<>>
    /\ notifications = NC!pmix_hotel_init
    /\ refs = [e \in Events |-> 0]
    /\ sent = [p \in Peers |-> <<>>]
    /\ hosted = {} /\ awaited = {}
    /\ answered = [e \in Events |-> <<>>]
    /\ processed = [e \in Events |-> 0]
    /\ groups = <<>>

Answer(e, status) == answered' = [answered EXCEPT ![e] = Append(@, status)]

-----------------------------------------------------------------------------
(* Generating events *)

Fresh(e) == /\ processed[e] = 0
            /\ ~Contains(queue, e)

\* The new caddy is shifted to the progress thread.
Shift(e) == /\ queue' = Append(queue, e)
            /\ refs' = [refs EXCEPT ![e] = @ + 1]
            /\ UNCHANGED <<env, todo, regs, notifications, sent, hosted, awaited, answered,
                           processed, groups>>

\* pmix_server_event_recvd_from_client: an event from one of our clients.
pmix_server_event_recvd_from_client(e) ==
    /\ ev[e].source \in Peers /\ Fresh(e)
    /\ Shift(e)

\* pmix_server_notify_client_of_event, called by the host.  An event that
\* carries our own name as the proxy was passed up by us and is dropped.
\* (An event of the server itself is passed up without that mark; a host that
\* gave it back would have it processed again.)
pmix_server_notify_client_of_event(e) ==
    \/ e \in hosted /\ ev[e].source \in Peers /\ UNCHANGED vars
    \/ ev[e].source \notin Peers /\ Fresh(e) /\ Shift(e)

-----------------------------------------------------------------------------
(* _notify_client_event *)

\* The clients that get the event, each once however often they registered.
Recipients(e) ==
    SetToSeq({p \in regs[ev[e].status] \cup
                    (IF ev[e].nondefault THEN {} ELSE regs[MAX_ERR_CONSTANT]) :
                 /\ p # ev[e].source
                 /\ ev[e].targets = {} \/ p \in ev[e].targets})

SendTo(ps, e) ==
    sent' = [p \in Peers |-> sent[p] \o [i \in DOMAIN SelectSeq(ps, LAMBDA x : x = p) |-> e]]

\* Mutant: the cache does not hold a reference of its own.
Mut_cache_no_retain(e) == refs[e]

\* PMIX_RETAIN before the event is cached.
RefsCached(e) == IF ev[e].nocache THEN refs[e] ELSE refs[e] + 1

\* The caddy that notify_event_cache turned out is released.
Released(h) == {o \in Events : Contains([r \in 1 .. max_events |-> notifications.rooms[r - 1]], o)
                               /\ \A r \in NC!Rooms : h.rooms[r] # o}

\* A custom range needs targets, a completed group its members.
BadParam(e) == \/ ev[e].targets # {} /\ ev[e].range # "custom"
               \/ ev[e].status = GROUP_CONSTRUCT_COMPLETE /\ ev[e].targets = {}

\* What the generator of the event is told, or the host asked, when the event
\* has been distributed: intermed_step for the event of a client.
IntermedStep(e) ==
    CASE ev[e].range = "local" ->
           Answer(e, "SUCCESS") /\ UNCHANGED <<hosted, awaited>>
      [] env.host = "none" ->
           Answer(e, "NOT_SUPPORTED") /\ UNCHANGED <<hosted, awaited>>
      [] env.host = "async" ->
           /\ hosted' = hosted \cup {e} /\ awaited' = awaited \cup {e}
           /\ UNCHANGED answered
      [] env.host = "done" ->
           Answer(e, "SUCCESS") /\ hosted' = hosted \cup {e} /\ UNCHANGED awaited
      [] OTHER ->
           Answer(e, "ERROR") /\ UNCHANGED <<hosted, awaited>>

\* An event of our own goes up too.  The caddy is then held for the callback
\* of the host, whose return status is not looked at.
PassUp(e) ==
    /\ hosted' = hosted \cup {e}
    /\ awaited' = IF env.host = "async" THEN awaited \cup {e} ELSE awaited
    /\ UNCHANGED answered

\* _notify_client_event: cache, refuse what is malformed, send to the clients,
\* hand on, answer.  The server's own handlers are EventHandlers.
_notify_client_event ==
    LET e == Head(queue)
        h == IF ev[e].nocache THEN notifications
             ELSE NC!notify_event_cache(notifications, e)
        up == /\ ev[e].source = Server /\ env.host # "none"
              /\ ev[e].range \notin {"local", "proc_local"}
    IN /\ queue # <<>>
       /\ queue' = Tail(queue)
       /\ notifications' = h
       /\ processed' = [processed EXCEPT ![e] = @ + 1]
       /\ refs' = [o \in Events |->
                     CASE o = e -> RefsCached(e) - (IF ~BadParam(e) /\ up THEN 0 ELSE 1)
                       [] o \in Released(h) -> refs[o] - 1
                       [] OTHER -> refs[o]]
       /\ IF BadParam(e)
          THEN Answer(e, "BAD_PARAM") /\ UNCHANGED <<sent, hosted, awaited, groups>>
          ELSE /\ groups' = IF ev[e].status = GROUP_CONSTRUCT_COMPLETE
                            THEN Append(groups, e) ELSE groups
               /\ IF ev[e].range = "proc_local" THEN UNCHANGED sent
                  ELSE SendTo(Recipients(e), e)
               /\ IF up THEN PassUp(e)
                  ELSE IF ev[e].source \in Peers THEN IntermedStep(e)
                  ELSE Answer(e, "SUCCESS") /\ UNCHANGED <<hosted, awaited>>
       /\ UNCHANGED <<env, todo, regs>>

\* local_cbfunc: the host is done with an event.
HostCallback(e) ==
    /\ e \in awaited
    /\ awaited' = awaited \ {e}
    /\ Answer(e, "SUCCESS")
    /\ refs' = IF ev[e].source = Server THEN [refs EXCEPT ![e] = @ - 1] ELSE refs
    /\ UNCHANGED <<env, todo, regs, queue, notifications, sent, hosted, processed, groups>>

\* _notification_eviction_cbfunc: the cache's reference is released.
EvictNotification(r) ==
    /\ NC!Evict(r)
    /\ refs' = [refs EXCEPT ![notifications.rooms[r]] = @ - 1]
    /\ UNCHANGED <<env, todo, regs, queue, sent, hosted, awaited, answered, processed, groups>>

-----------------------------------------------------------------------------
(* Registrations *)

Cached == SelectSeq([r \in 1 .. max_events |-> NC!pmix_hotel_knock(notifications, r - 1)],
                    LAMBDA e : e # NULL)

\* Mutant: only a registration for all codes looks at the cache.
Mut_replay_default_only(p, codes) ==
    SelectSeq(Cached, LAMBDA e : codes = {} /\ ~ev[e].nondefault)

\* The cached events a client gets when it registers.  Its own events are left
\* out only when they have targets.
Replay(p, codes) ==
    SelectSeq(Cached, LAMBDA e :
        /\ IF codes = {} THEN ~ev[e].nondefault ELSE ev[e].status \in codes
        /\ ev[e].targets = {} \/ (p \in ev[e].targets /\ p # ev[e].source))

pmix_server_register_events(p) ==
    LET codes == Head(todo[p]).codes
        cs == IF codes = {} THEN {MAX_ERR_CONSTANT} ELSE codes
    IN /\ todo[p] # <<>> /\ Head(todo[p]).op = "register"
       /\ todo' = [todo EXCEPT ![p] = Tail(@)]
       /\ regs' = [c \in AllCodes |-> IF c \in cs THEN regs[c] \cup {p} ELSE regs[c]]
       /\ sent' = [sent EXCEPT ![p] = @ \o Replay(p, codes)]
       /\ UNCHANGED <<env, queue, notifications, refs, hosted, awaited, answered, processed,
                      groups>>

pmix_server_deregister_events(p) ==
    /\ todo[p] # <<>> /\ Head(todo[p]).op = "deregister"
    /\ todo' = [todo EXCEPT ![p] = Tail(@)]
    /\ regs' = [c \in AllCodes |-> IF c \in Head(todo[p]).codes THEN regs[c] \ {p}
                                   ELSE regs[c]]
    /\ UNCHANGED <<env, queue, notifications, refs, sent, hosted, awaited, answered, processed,
                   groups>>

-----------------------------------------------------------------------------
Next ==
    \/ \E e \in env.events : \/ pmix_server_event_recvd_from_client(e)
                             \/ pmix_server_notify_client_of_event(e)
                             \/ HostCallback(e)
    \/ _notify_client_event
    \/ \E r \in NC!Rooms : EvictNotification(r)
    \/ \E p \in Peers : pmix_server_register_events(p) \/ pmix_server_deregister_events(p)

\* The progress thread runs, and the host calls back.
Fairness == /\ WF_vars(_notify_client_event)
            /\ \A e \in Events : WF_vars(HostCallback(e))

Spec == Init /\ [][Next]_vars /\ Fairness

-----------------------------------------------------------------------------
(* Properties *)

InCache(e) == \E r \in NC!Rooms : notifications.rooms[r] = e

Interested(p, e) ==
    /\ \/ p \in regs[ev[e].status]
       \/ p \in regs[MAX_ERR_CONSTANT] /\ ~ev[e].nondefault
    /\ p # ev[e].source
    /\ ev[e].targets = {} \/ p \in ev[e].targets

\* Types of the variables.
TypeOK ==
    /\ regs \in [AllCodes -> SUBSET Peers]
    /\ queue \in Seq(Events)
    /\ refs \in [Events -> Nat]
    /\ \A p \in Peers : sent[p] \in Seq(Events)
    /\ awaited \subseteq hosted /\ hosted \subseteq Events

\* "the notice may be coming too early. So cache the message": a client that is
\* registered for an event still in the cache has been sent it, whichever came
\* first, the event or the registration.
RegisteredSaw ==
    \A e \in Events, p \in Peers :
        (InCache(e) /\ Interested(p, e) /\ ~BadParam(e) /\ ev[e].range # "proc_local")
        => Contains(sent[p], e)

\* One step sends an event at most once to the same client: a client registered
\* both for the code and for everything is notified once.
NoCopies ==
    [][\A p \in Peers : \A i, j \in (Len(sent[p]) + 1) .. Len(sent'[p]) :
          sent'[p][i] = sent'[p][j] => i = j]_vars

\* An event of a client goes through the server once: what the server passed up
\* to its host and gets back is dropped.
ProcessedOnce ==
    \A e \in Events : ev[e].source \in Peers =>
        processed[e] + Cardinality({i \in DOMAIN queue : queue[i] = e}) <= 1

\* Who holds the caddy of e: the progress thread, the cache, and the callback of
\* the host for an event of our own.
Holders(e) == Cardinality({i \in DOMAIN queue : queue[i] = e})
                + (IF InCache(e) THEN 1 ELSE 0)
                + (IF e \in awaited /\ ev[e].source = Server THEN 1 ELSE 0)

\* An event of our own that the host took or refused at once: nobody will call
\* local_cbfunc.
Forgotten(e) == e \in hosted /\ ev[e].source = Server /\ env.host \in {"done", "error"}

\* A caddy has a reference for each of its holders, so it is not freed under
\* one of them, and no other reference, so it is freed with the last; except for
\* one reference on the caddy of an event of our own whose host answered at
\* once, which is leaked.
RefsHeld == \A e \in Events : refs[e] = Holders(e) + (IF Forgotten(e) THEN 1 ELSE 0)

\* No caddy is leaked.
NoneLeaked == \A e \in Events : refs[e] = Holders(e)

\* Whoever generated an event is answered at most once.
AnsweredOnce == \A e \in Events : Len(answered[e]) <= 1

\* An event is processed once, answered once, and freed when its last holder is done.
CaddiesSound == TypeOK /\ ProcessedOnce /\ RefsHeld /\ AnsweredOnce

\* Whoever generated an event is answered, except for an event of our own whose
\* host answered at once.
GeneratorAnswered ==
    \A e \in Events : Contains(queue, e) ~> (answered[e] # <<>> \/ Forgotten(e))

\* Whoever generated an event is answered.
AllAnswered == \A e \in Events : Contains(queue, e) ~> answered[e] # <<>>

\* A client is sent no event it generated itself.
NotToSource == \A p \in Peers : \A i \in DOMAIN sent[p] : ev[sent[p][i]].source # p

\* A malformed event, refused with BAD_PARAM, is sent to nobody.
RefusedNotSent == \A p \in Peers : \A i \in DOMAIN sent[p] : ~BadParam(sent[p][i])

=============================================================================
