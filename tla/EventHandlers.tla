--------------------------- MODULE EventHandlers ---------------------------
(***************************************************************************)
(* The event handlers of a client (src/src/event/pmix_event_registration.c *)
(* and pmix_event_notification.c): the ordered lists of handlers, the      *)
(* count of registrations per status code that decides when the server is  *)
(* told, the chain along which one event is handed from handler to         *)
(* handler, and the replay of cached events to late registrations.  The    *)
(* server side is one peer's rows of pmix_server_globals.events and the    *)
(* server's cache.                                                         *)
(*                                                                         *)
(* Registrations, deregistrations and messages are handled in the progress *)
(* thread.  An event of the process itself is not: PMIx_Notify_event       *)
(* caches it and looks for its first handler in the caller's thread,       *)
(* without a lock, and progress_local_event_hdlr looks for the next one in *)
(* whatever thread the handler answers from.  Such a search is two steps:  *)
(* it begins with the lists as they are, and ends with what they were or   *)
(* are then; where a handler it may have stood on was freed in between,    *)
(* its outcome is undefined.                                               *)
(***************************************************************************)
EXTENDS Integers, SequencesExt

CONSTANTS
    Reqs,               \* registrations the application makes, once each
    req,                \* what each asks for
    Events,             \* events that happen, once each
    ev,                 \* what each is
    Codes,              \* status codes
    MAX_ERR_CONSTANT,   \* the code of default registrations
    max_events,         \* rooms of the notification cache
    WILDCARD, NULL,
    Scenarios           \* what application and server may do: which registrations
                        \* are made, which events happen, and which of the faults
                        \* "send" (the message cannot be sent), "refused" and
                        \* "host_refused" (by the server, by its host),
                        \* "threads" (handlers answer from threads of their own)
                        \* and "dereg_running" (a handler is deregistered while it
                        \* or a search is running)

VARIABLES
    env,            \* the scenario
    events,         \* pmix_globals.events
    hdlr,           \* handler objects: "none", "live" or "freed"
    index,          \* the index of each handler
    acks,           \* what each registration was told: statuses, oldest first
    chains,         \* chains that wait for a handler to answer, or are searched
                    \* for the next one (from is what the lists were)
    calls,          \* how often each handler was given each event: never, once, more
    notifications,  \* the client's cache: a hotel of events
    happened,       \* the events that happened
    up, down,       \* messages to and from the server, in order
    srv,            \* codes the server has this client registered for
    srvcache,       \* events the server has cached
    undefined       \* the program dereferenced a null pointer or a freed handler

vars == <<env, events, hdlr, index, acks, chains, calls, notifications, happened,
          up, down, srv, srvcache, undefined>>

NC == INSTANCE NotifyCache WITH num_rooms <- max_events, Occupants <- Events,
                                hotel <- notifications, newest <- NULL, before <- <<>>

AllCodes == Codes \cup {MAX_ERR_CONSTANT}

\* The codes a registration stands for with the server.
CodesOf(q) == IF req[q].codes = {} THEN {MAX_ERR_CONSTANT} ELSE req[q].codes

ListOf(q) == CASE req[q].codes = {} -> "default_events"
               [] Cardinality(req[q].codes) = 1 -> "single_events"
               [] OTHER -> "multi_events"

Overall == {"first_overall", "last_overall"}

\* Did the registration carry any info (0 < cd->ninfo)?
HasInfo(q) == \/ req[q].where # "none" \/ req[q].range # "undef"
              \/ req[q].xfer \/ req[q].affected # {}

Init ==
    /\ env \in Scenarios
    /\ events = [nhdlrs |-> 0, first |-> NULL, last |-> NULL,
                 actives |-> [c \in AllCodes |-> 0],
                 single_events |-> <<>>, multi_events |-> <<>>,
                 default_events |-> <<>>]
    /\ hdlr = [q \in Reqs |-> "none"]
    /\ index = [q \in Reqs |-> -1]
    /\ acks = [q \in Reqs |-> <<>>]
    /\ chains = <<>>
    /\ calls = [q \in Reqs |-> [e \in Events |-> 0]]
    /\ notifications = NC!pmix_hotel_init
    /\ happened = {}
    /\ up = <<>> /\ down = <<>>
    /\ srv = {} /\ srvcache = <<>>
    /\ undefined = FALSE

-----------------------------------------------------------------------------
(* Which handlers an event is for *)

\* src is "me", "peer" (my namespace) or "other".
pmix_notify_check_range(range, src) ==
    \/ range \in {"undef", "session"}
    \/ range = "namespace" /\ src \in {"me", "peer"}
    \/ range = "proc_local" /\ src = "me"

pmix_notify_check_affected(interested, affected) ==
    \/ interested = {}
    \/ affected = {}
    \/ \E a \in affected, i \in interested :
          /\ a.ns = i.ns
          /\ WILDCARD \in {a.rank, i.rank} \/ a.rank = i.rank

Fits(q, ch) == /\ pmix_notify_check_range(req[q].range, ch.source)
               /\ pmix_notify_check_affected(req[q].affected, ch.affected)

\* pmix_prep_event_chain: the chain of an event.
pmix_prep_event_chain(e) ==
    [e |-> e, status |-> ev[e].status, source |-> ev[e].source,
     nondefault |-> ev[e].nondefault, affected |-> ev[e].affected,
     targets |-> ev[e].targets, endchain |-> FALSE, evhdlr |-> NULL, from |-> NULL]

Matching(list, ch) == SelectSeq(list, LAMBDA q : Fits(q, ch) /\
                                  (req[q].codes = {} \/ ch.status \in req[q].codes))

\* The "last" handler ends the chain even when its codes do not match.
TakeLast(es, ch) ==
    IF es.last # NULL /\ Fits(es.last, ch)
    THEN [ch EXCEPT !.endchain = TRUE,
                    !.evhdlr = IF \/ req[es.last].codes = {}
                                  \/ ch.status \in req[es.last].codes
                               THEN es.last ELSE NULL]
    ELSE [ch EXCEPT !.evhdlr = NULL]

\* A "first" handler for several codes, or for all, is not asked which
\* processes it is interested in, and neither is one for a single code (its
\* second branch takes what the first one turned down).
TakesFirst(es, ch) ==
    /\ es.first # NULL
    /\ req[es.first].codes = {} \/ ch.status \in req[es.first].codes
    /\ pmix_notify_check_range(req[es.first].range, ch.source)

\* pmix_invoke_local_event_hdlr: the chain with the handler called first in
\* evhdlr, NULL when there is none.
pmix_invoke_local_event_hdlr(es, ch) ==
    LET found == Matching(es.single_events \o es.multi_events \o
                          (IF ch.nondefault THEN <<>> ELSE es.default_events), ch)
    IN IF ch.targets = "others" THEN [ch EXCEPT !.evhdlr = NULL]
       ELSE IF TakesFirst(es, ch) THEN [ch EXCEPT !.evhdlr = es.first]
       ELSE IF found # <<>> THEN [ch EXCEPT !.evhdlr = Head(found)]
       ELSE TakeLast(es, ch)

\* The entries of a list behind q.
Behind(list, q) == SubSeq(list, SelectInSeq(list, LAMBDA x : x = q) + 1, Len(list))

\* Mutant: the search for the next handler starts at the handler itself.
Mut_progress_from_self(es, ch) ==
    LET q == ch.evhdlr
        found == Matching(es[ListOf(q)], ch)
    IN IF found # <<>> THEN [ch EXCEPT !.evhdlr = Head(found)] ELSE TakeLast(es, ch)

\* progress_local_event_hdlr, after a handler that is on a list did not end the
\* chain.  Of the default handlers only the next one is looked at.
NextHandler(es, ch) ==
    LET q == ch.evhdlr
        l == ListOf(q)
        single == IF l = "single_events"
                  THEN Matching(Behind(es.single_events, q), ch) ELSE <<>>
        multi == CASE l = "single_events" -> Matching(es.multi_events, ch)
                   [] l = "multi_events" -> Matching(Behind(es.multi_events, q), ch)
                   [] OTHER -> <<>>
        defaults == IF l = "default_events" THEN Behind(es.default_events, q)
                    ELSE es.default_events
        default == IF ch.nondefault \/ defaults = <<>> THEN <<>>
                   ELSE Matching(<<Head(defaults)>>, ch)
        found == single \o multi \o default
    IN IF found # <<>> THEN [ch EXCEPT !.evhdlr = Head(found)] ELSE TakeLast(es, ch)

-----------------------------------------------------------------------------
(* Calling handlers *)

\* Start the chains, in order; those that found a handler wait for it.
Started(chs) == SelectSeq(chs, LAMBDA ch : ch.evhdlr # NULL)

\* The handlers of the chains are called with their events.
Called(c, chs) ==
    FoldLeft(LAMBDA acc, ch : [acc EXCEPT ![ch.evhdlr][ch.e] = IF @ < 2 THEN @ + 1 ELSE @],
             c, Started(chs))

\* The events in the cache, in the order of their rooms.
Cached == SelectSeq([r \in 1 .. max_events |-> NC!pmix_hotel_knock(notifications, r - 1)],
                    LAMBDA e : e # NULL)

\* check_cached_events: one single-shot chain per matching cached event.  The
\* chain comes from this process, and what the event says of itself is copied
\* only when the registration carried info.  The codes were freed by the first
\* acknowledgement; at a second one the handler counts as a default one.
check_cached_events(es, q) ==
    LET codes == IF acks[q] = <<>> THEN req[q].codes ELSE {}
        hits == SelectSeq(Cached, LAMBDA e :
                    /\ IF codes = {} THEN ~ev[e].nondefault ELSE ev[e].status \in codes
                    /\ ev[e].targets # "others"
                    /\ pmix_notify_check_affected(req[q].affected, ev[e].affected))
        Replay(e) == [pmix_prep_event_chain(e) EXCEPT
                         !.endchain = TRUE, !.source = "me", !.targets = "none",
                         !.nondefault = HasInfo(q) /\ @,
                         !.affected = IF HasInfo(q) THEN @ ELSE {}]
    IN [i \in 1 .. Len(hits) |-> pmix_invoke_local_event_hdlr(es, Replay(hits[i]))]

\* Acknowledge q and replay cached events; es is the new value of events.
Ack(es, q, status) ==
    LET chs == check_cached_events(es, q)
    IN /\ acks' = [acks EXCEPT ![q] = Append(@, status)]
       /\ chains' = chains \o Started(chs)
       /\ calls' = Called(calls, chs)

-----------------------------------------------------------------------------
(* Registration *)

\* The place of a new handler in its list; <<>> when there is none for it.
\* "before" and "after" look for the handler's own name, not for the locator.
Place(list, q) ==
    LET Where(x) == req[x].where
        named == SelectInSeq(list, LAMBDA x : req[x].name # NULL /\ req[x].name = req[q].name)
    IN CASE list = <<>> \/ Where(q) = "none" -> <<q>> \o list
         [] Where(q) = "first" ->
               IF Where(Head(list)) = "first" THEN <<>> ELSE <<q>> \o list
         [] Where(q) = "last" ->
               IF Where(Last(list)) = "last" THEN <<>> ELSE Append(list, q)
         [] Where(q) = "prepend" ->
               IF Where(Head(list)) = "first" THEN InsertAt(list, 2, q) ELSE <<q>> \o list
         [] Where(q) = "append" ->
               IF Where(Last(list)) = "last" THEN InsertAt(list, Len(list), q)
               ELSE Append(list, q)
         [] OTHER -> IF named = 0 THEN <<>>
                     ELSE InsertAt(list, IF Where(q) = "before" THEN named ELSE named + 1, q)

\* _add_hdlr counts the codes and says whether the server has to be told.
_add_hdlr(es, q) ==
    [es EXCEPT !.actives = [c \in AllCodes |-> IF c \in CodesOf(q) THEN @[c] + 1 ELSE @[c]]]

NeedRegister(es, q) == (\E c \in CodesOf(q) : es.actives[c] = 0) \/ req[q].xfer

\* The event handler is created with the next index.
NewHdlr(es) == [es EXCEPT !.nhdlrs = @ + 1]

\* reg_event_hdlr, position "first overall" or "last overall" requested.
RegisterOverall(q) ==
    LET pos == IF req[q].where = "first_overall" THEN "first" ELSE "last"
        added == _add_hdlr([NewHdlr(events) EXCEPT ![pos] = q], q)
    IN /\ hdlr[q] = "none" /\ acks[q] = <<>>
       /\ req[q].where \in Overall
       /\ \/ /\ events[pos] # NULL          \* someone already took that position
             /\ Ack(events, q, "EVENT_REGISTRATION")
             /\ UNCHANGED <<events, hdlr, index, up>>
          \/ /\ events[pos] = NULL
             /\ hdlr' = [hdlr EXCEPT ![q] = "live"]
             /\ index' = [index EXCEPT ![q] = events.nhdlrs]
             /\ events' = added
             /\ IF NeedRegister(events, q)
                THEN /\ up' = Append(up, [cmd |-> "REGEVENTS", q |-> q, codes |-> CodesOf(q)])
                     /\ UNCHANGED <<acks, chains, calls>>
                ELSE Ack(added, q, "SUCCESS") /\ up' = up
          \/ /\ "send" \in env.faults /\ events[pos] = NULL /\ NeedRegister(events, q)
             /\ hdlr' = [hdlr EXCEPT ![q] = "freed"]
             /\ events' = [added EXCEPT !.nhdlrs = @ - 1, ![pos] = NULL]
             /\ Ack([added EXCEPT !.nhdlrs = @ - 1, ![pos] = NULL], q, "EVENT_REGISTRATION")
             /\ UNCHANGED <<index, up>>
       /\ UNCHANGED <<notifications, happened, down, srv, srvcache, undefined>>

\* The handler that is to stand before or after another has no name of its own,
\* and the names on the list are compared with that.
NamelessPlace(q) ==
    /\ req[q].where \in {"before", "after"} /\ req[q].name = NULL
    /\ \E i \in DOMAIN events[ListOf(q)] : req[events[ListOf(q)][i]].name # NULL

\* reg_event_hdlr, any other position.  The server is told before the place in
\* the list is known to be free; a handler without a place is acknowledged as
\* failed here, and once more by regevents_cbfunc when the server was told.
RegisterListed(q) ==
    LET l == ListOf(q)
        placed == Place(events[l], q)
        local == req[q].range = "proc_local"
        counted == IF local THEN NewHdlr(events) ELSE _add_hdlr(NewHdlr(events), q)
        listed == [counted EXCEPT ![l] = placed]
        dropped == [counted EXCEPT !.nhdlrs = @ - 1]
        told == ~local /\ NeedRegister(events, q)
    IN /\ hdlr[q] = "none" /\ acks[q] = <<>>
       /\ req[q].where \notin Overall /\ ~NamelessPlace(q)
       /\ \/ /\ index' = [index EXCEPT ![q] = events.nhdlrs]
             /\ up' = IF told THEN Append(up, [cmd |-> "REGEVENTS", q |-> q, codes |-> CodesOf(q)])
                      ELSE up
             /\ IF placed = <<>>
                THEN /\ hdlr' = [hdlr EXCEPT ![q] = "freed"]
                     /\ events' = dropped
                     /\ Ack(dropped, q, "EVENT_REGISTRATION")
                ELSE /\ hdlr' = [hdlr EXCEPT ![q] = "live"]
                     /\ events' = listed
                     /\ IF told THEN UNCHANGED <<acks, chains, calls>>
                        ELSE Ack(listed, q, "SUCCESS")
          \/ /\ "send" \in env.faults /\ told
             /\ hdlr' = [hdlr EXCEPT ![q] = "freed"]
             /\ events' = dropped
             /\ Ack(dropped, q, "EVENT_REGISTRATION")
             /\ UNCHANGED <<index, up>>
       /\ UNCHANGED <<notifications, happened, down, srv, srvcache, undefined>>

\* reg_event_hdlr, comparing a name with the null pointer.
RegisterNameless(q) ==
    /\ hdlr[q] = "none" /\ acks[q] = <<>>
    /\ NamelessPlace(q)
    /\ undefined' = TRUE
    /\ UNCHANGED <<events, hdlr, index, acks, chains, calls, notifications, happened, up,
                   down, srv, srvcache>>

\* A refused handler is taken off; the counts in actives stay.
Unlisted(es, q) ==
    CASE req[q].where = "first_overall" -> [es EXCEPT !.first = NULL]
      [] req[q].where = "last_overall" -> [es EXCEPT !.last = NULL]
      [] OTHER -> [es EXCEPT ![ListOf(q)] = SelectSeq(@, LAMBDA x : x # q)]

\* regevents_cbfunc.  The handler may have been freed when it found no place in
\* its list.
RegEventsReply ==
    LET m == Head(down)
        q == m.q
        es == Unlisted(events, q)
    IN /\ down # <<>> /\ m.kind = "ack"
       /\ down' = Tail(down)
       /\ IF m.ok
          THEN Ack(events, q, "SUCCESS") /\ UNCHANGED <<events, hdlr, undefined>>
          ELSE IF hdlr[q] = "freed"
          THEN undefined' = TRUE /\ UNCHANGED <<events, hdlr, acks, chains, calls>>
          ELSE /\ events' = es
               /\ hdlr' = [hdlr EXCEPT ![q] = "freed"]
               /\ Ack(es, q, "SERVER_FAILED_REQUEST")
               /\ UNCHANGED undefined
       /\ UNCHANGED <<index, notifications, happened, up, srv, srvcache>>

-----------------------------------------------------------------------------
(* Deregistration *)

\* Take back one registration of each of these codes that has any.
Uncount(actives, cs) ==
    [c \in AllCodes |-> IF c \in cs /\ actives[c] > 0 THEN actives[c] - 1 ELSE actives[c]]

\* Mutant: the server is told of every code.
Mut_gone_all(actives, cs) == cs

\* The codes whose last registration this was.
Gone(actives, cs) == {c \in cs : actives[c] = 1}

\* Mutant: the handler is released and stays on its list.
Mut_dereg_stays(q) ==
    /\ Contains(events[ListOf(q)], q)
    /\ events' = [events EXCEPT !.actives = Uncount(@, req[q].codes)]
    /\ UNCHANGED up

\* dereg_event_hdlr for a handler on a list: the default registration is
\* withdrawn when the list is empty, without a look at its count.
DeregisterListed(q) ==
    LET l == ListOf(q)
        rest == SelectSeq(events[l], LAMBDA x : x # q)
        cs == req[q].codes
    IN /\ Contains(events[l], q)
       /\ events' = [events EXCEPT ![l] = rest, !.actives = Uncount(@, cs)]
       /\ up' = Append(up, [cmd |-> "DEREGEVENTS", q |-> q,
                            codes |-> IF cs # {} THEN Gone(events.actives, cs)
                                      ELSE IF rest = <<>> THEN {MAX_ERR_CONSTANT} ELSE {}])

\* dereg_event_hdlr for the first or last handler: the message is built and
\* then not sent.
DeregisterOverall(q) ==
    /\ q \in {events.first, events.last}
    /\ events' = [events EXCEPT !.first = IF @ = q THEN NULL ELSE @,
                                !.last = IF @ = q THEN NULL ELSE @,
                                !.actives = Uncount(@, req[q].codes)]
    /\ UNCHANGED up

\* dereg_event_hdlr: the handler p with the index the application was told for
\* its registration q.
Deregister(q, p) ==
    /\ acks[q] # <<>> /\ Last(acks[q]) = "SUCCESS"
    /\ hdlr[p] = "live" /\ index[p] = index[q]
    /\ \/ "dereg_running" \in env.faults
       \/ \A i \in DOMAIN chains : chains[i].evhdlr # p /\ chains[i].from = NULL
    /\ DeregisterListed(p) \/ DeregisterOverall(p)
    /\ hdlr' = [hdlr EXCEPT ![p] = "freed"]
    /\ UNCHANGED <<index, acks, chains, calls, notifications, happened, down, srv,
                   srvcache, undefined>>

-----------------------------------------------------------------------------
(* Events *)

\* PMIx_Notify_event in the client, in the caller's thread: cache it, tell the
\* server unless it is for this process only, begin the search for a handler.
notify_server_of_event(e) ==
    /\ e \notin happened /\ ev[e].source = "me"
    /\ happened' = happened \cup {e}
    /\ notifications' = NC!notify_event_cache(notifications, e)
    /\ up' = IF ev[e].range = "proc_local" THEN up
             ELSE Append(up, [cmd |-> "NOTIFY", e |-> e])
    /\ chains' = Append(chains, [pmix_prep_event_chain(e) EXCEPT !.from = events])
    /\ UNCHANGED <<events, hdlr, index, acks, calls, down, srv, srvcache, undefined>>

\* _notification_eviction_cbfunc
EvictNotification(r) ==
    /\ NC!Evict(r)
    /\ UNCHANGED <<events, hdlr, index, acks, chains, calls, happened, up, down, srv,
                   srvcache, undefined>>

\* pmix_client_notify_recv
pmix_client_notify_recv ==
    LET m == Head(down)
        ch == pmix_invoke_local_event_hdlr(events, pmix_prep_event_chain(m.e))
    IN /\ down # <<>> /\ m.kind = "notify"
       /\ down' = Tail(down)
       /\ chains' = chains \o Started(<<ch>>)
       /\ calls' = Called(calls, <<ch>>)
       /\ UNCHANGED <<events, hdlr, index, acks, notifications, happened, up, srv,
                      srvcache, undefined>>

OnList(es, q) == Contains(es[ListOf(q)], q)

\* A "first" handler is on no list: its next pointer is NULL, which is taken for
\* a handler (unless it is a default one and the event is not for those).
NullNext(es, ch) == /\ ~OnList(es, ch.evhdlr)
                    /\ ~(req[ch.evhdlr].codes = {} /\ ch.nondefault)

\* What the search that follows an event or an answer finds.
Found(es, ch) ==
    IF ch.evhdlr = NULL THEN pmix_invoke_local_event_hdlr(es, ch)
    ELSE IF req[ch.evhdlr].codes = {} /\ ch.nondefault THEN TakeLast(es, ch)
    ELSE NextHandler(es, ch)

\* The search of chain i ends with this result.
Continue(i, nxt) ==
    /\ chains' = IF nxt.evhdlr = NULL THEN RemoveAt(chains, i)
                 ELSE [chains EXCEPT ![i] = nxt]
    /\ calls' = Called(calls, <<nxt>>)
    /\ UNCHANGED undefined

Crash == undefined' = TRUE /\ UNCHANGED <<chains, calls>>

\* progress_local_event_hdlr: the handler of chain i answers, and complete says
\* whether it ends the chain; the next one is searched here when the handler
\* answers in the progress thread.
ProgressChain(i, complete) ==
    LET ch == chains[i]
    IN /\ i \in DOMAIN chains /\ ch.from = NULL
       /\ IF hdlr[ch.evhdlr] = "freed" THEN Crash
          ELSE IF complete \/ ch.endchain
          THEN chains' = RemoveAt(chains, i) /\ UNCHANGED <<calls, undefined>>
          ELSE IF "threads" \in env.faults
          THEN chains' = [chains EXCEPT ![i].from = events] /\ UNCHANGED <<calls, undefined>>
          ELSE IF NullNext(events, ch) THEN Crash
          ELSE Continue(i, Found(events, ch))
       /\ UNCHANGED <<events, hdlr, index, acks, notifications, happened, up, down, srv,
                      srvcache>>

\* The handlers a search may stand on.
Visited(es) == ({es.first, es.last} \ {NULL}) \cup
               ToSet(es.single_events \o es.multi_events \o es.default_events)

\* A search outside the progress thread ends.
SearchEnds(i) ==
    LET ch == chains[i]
    IN /\ i \in DOMAIN chains /\ ch.from # NULL
       /\ \/ /\ ch.evhdlr # NULL => hdlr[ch.evhdlr] # "freed"
             /\ \E es \in {ch.from, events} :
                   LET nxt == [Found(es, ch) EXCEPT !.from = NULL]
                   IN IF ch.evhdlr # NULL /\ NullNext(es, ch) THEN Crash
                      ELSE /\ nxt.evhdlr # NULL => hdlr[nxt.evhdlr] # "freed"
                           /\ Continue(i, nxt)
          \/ (\E q \in Visited(ch.from) : hdlr[q] = "freed") /\ Crash
       /\ UNCHANGED <<events, hdlr, index, acks, notifications, happened, up, down, srv,
                      srvcache>>

-----------------------------------------------------------------------------
(* The server *)

Notify(e) == [kind |-> "notify", e |-> e]

\* Does the server send e to a peer registered for these codes?
Wanted(e, cs) == /\ ev[e].targets # "others"
                 /\ \/ ev[e].status \in cs
                    \/ MAX_ERR_CONSTANT \in cs /\ ~ev[e].nondefault

\* An event from elsewhere reaches the server: _notify_client_event caches it
\* and sends it to the client if it is registered.
ServerEvent(e) ==
    /\ e \notin happened /\ ev[e].source # "me"
    /\ happened' = happened \cup {e}
    /\ srvcache' = Append(srvcache, e)
    /\ down' = IF Wanted(e, srv) THEN Append(down, Notify(e)) ELSE down
    /\ UNCHANGED <<events, hdlr, index, acks, chains, calls, notifications, up, srv,
                   undefined>>

\* The server takes the next message: pmix_server_register_events (matching
\* cached events go out before the acknowledgement),
\* pmix_server_deregister_events, or an event of this client, which is cached
\* and not sent back.
ServerRecv ==
    LET m == Head(up)
        hits == SelectSeq(srvcache, LAMBDA e : Wanted(e, m.codes))
        Ack1(ok) == <<[kind |-> "ack", q |-> m.q, ok |-> ok]>>
    IN /\ up # <<>>
       /\ up' = Tail(up)
       /\ CASE m.cmd = "REGEVENTS" ->
               \/ /\ srv' = srv \cup m.codes
                  /\ down' = down \o [i \in DOMAIN hits |-> Notify(hits[i])] \o Ack1(TRUE)
                  /\ UNCHANGED srvcache
               \/ /\ "refused" \in env.faults
                  /\ down' = down \o Ack1(FALSE)
                  /\ UNCHANGED <<srv, srvcache>>
               \/ /\ "host_refused" \in env.faults     \* stored before the host is asked
                  /\ srv' = srv \cup m.codes
                  /\ down' = down \o Ack1(FALSE)
                  /\ UNCHANGED srvcache
            [] m.cmd = "DEREGEVENTS" ->
               srv' = srv \ m.codes /\ UNCHANGED <<down, srvcache>>
            [] OTHER ->
               srvcache' = Append(srvcache, m.e) /\ UNCHANGED <<srv, down>>
       /\ UNCHANGED <<events, hdlr, index, acks, chains, calls, notifications, happened,
                      undefined>>

-----------------------------------------------------------------------------
Step ==
    \/ \E q \in env.reqs : RegisterOverall(q) \/ RegisterListed(q) \/ RegisterNameless(q)
    \/ \E q, p \in env.reqs : Deregister(q, p)
    \/ RegEventsReply
    \/ \E e \in env.events : notify_server_of_event(e) \/ ServerEvent(e)
    \/ \E r \in 0 .. (max_events - 1) : EvictNotification(r)
    \/ pmix_client_notify_recv
    \/ \E i \in DOMAIN chains : \E complete \in BOOLEAN : ProgressChain(i, complete)
    \/ \E i \in DOMAIN chains : SearchEnds(i)
    \/ ServerRecv

\* Nothing is said of the program once it has gone wrong.
Defined(A) == ~undefined /\ A /\ UNCHANGED env

Next == Defined(Step)

\* The progress threads of client and server run, handlers answer, and searches
\* in other threads end.
Fairness ==
    /\ WF_vars(Defined(RegEventsReply))
    /\ WF_vars(Defined(pmix_client_notify_recv))
    /\ WF_vars(Defined(ServerRecv))
    /\ WF_vars(Defined(\E i \in DOMAIN chains : ProgressChain(i, FALSE)))
    /\ WF_vars(Defined(\E i \in DOMAIN chains : SearchEnds(i)))

Spec == Init /\ [][Next]_vars /\ Fairness

-----------------------------------------------------------------------------
(* Properties *)

Live == {q \in Reqs : hdlr[q] = "live"}

Placed(q) == q \in {events.first, events.last} \/ Contains(events[ListOf(q)], q)

\* Types of the variables.
TypeOK ==
    /\ events.nhdlrs \in Nat
    /\ {events.first, events.last} \subseteq Reqs \cup {NULL}
    /\ events.actives \in [AllCodes -> Nat]
    /\ \A l \in {"single_events", "multi_events", "default_events"} : events[l] \in Seq(Reqs)
    /\ hdlr \in [Reqs -> {"none", "live", "freed"}]
    /\ \A i \in DOMAIN chains : \/ chains[i].evhdlr \in Reqs
                                \/ chains[i].evhdlr = NULL /\ chains[i].from # NULL
    /\ srv \subseteq AllCodes
    /\ undefined \in BOOLEAN

\* A handler object is reachable from pmix_globals.events exactly while it is
\* allocated, and then in one place: nothing that a registration, its refusal
\* or a deregistration does leaves a freed handler on a list.
PlacedIffLive ==
    \A q \in Reqs :
        /\ Placed(q) <=> hdlr[q] = "live"
        /\ Cardinality({i \in DOMAIN events[ListOf(q)] : events[ListOf(q)][i] = q})
             + (IF q \in {events.first, events.last} THEN 1 ELSE 0) <= 1

\* The index an application deregisters with names one handler, although nhdlrs
\* is taken back when a registration fails: no other registered handler has the
\* index of one that was acknowledged.  (A registration that was told first that
\* it failed and then that it succeeded has an index some later one may have.)
IndexUnique ==
    /\ \A p, q \in Live : index[p] = index[q] => p = q
    /\ \A p \in Live, q \in Reqs :
          (index[p] = index[q] /\ acks[q] # <<>> /\ acks[q][1] = "SUCCESS") => p = q

\* What the server will have this client registered for when it has taken the
\* messages that are on their way.
SrvAfter ==
    FoldLeft(LAMBDA acc, m : CASE m.cmd = "REGEVENTS" -> acc \cup m.codes
                               [] m.cmd = "DEREGEVENTS" -> acc \ m.codes
                               [] OTHER -> acc, srv, up)

\* The registration of p was refused, and the answer may still be on its way.
Refused(p) == \/ acks[p] # <<>> /\ acks[p][1] # "SUCCESS"
              \/ \E i \in DOMAIN down : down[i].kind = "ack" /\ down[i].q = p /\ ~down[i].ok

\* The deregistration or failure of p may leave the server without the code c of
\* others: a deregistered default handler stays counted while the server is told
\* to forget it, a local one is taken off a count it was never added to, and a
\* registration that failed stays counted.
Miscounted(p, c) ==
    /\ c \in CodesOf(p)
    /\ \/ hdlr[p] = "freed" /\ (req[p].codes = {} \/ req[p].range = "proc_local")
       \/ Refused(p)

\* A handler that was acknowledged as registered, and is not for events of the
\* process itself only, is known to the server under each of its codes, however
\* the registrations and deregistrations of other handlers for the same codes
\* interleave (the counts in actives decide who is told).  The exceptions are
\* the codes of a handler that was miscounted.
ServerCovers ==
    \A q \in Live : (acks[q] # <<>> /\ req[q].range # "proc_local") =>
        \A c \in CodesOf(q) : c \in SrvAfter \/ \E p \in Reqs : Miscounted(p, c)

\* The completion callback of a registration is called once, except that one for
\* which the list had no place is first told that it failed, and then what the
\* server answered.
AckedOnce ==
    \A q \in Reqs : \/ Len(acks[q]) <= 1
                    \/ Len(acks[q]) = 2 /\ acks[q][1] = "EVENT_REGISTRATION"
                       /\ req[q].where \notin {"none", "prepend", "append"} \cup Overall

\* The place of a handler in the order in which a chain visits them.
Rank(q) == <<CASE q = events.first -> 0 [] q = events.last -> 4
               [] ListOf(q) = "single_events" -> 1
               [] ListOf(q) = "multi_events" -> 2
               [] OTHER -> 3,
             SelectInSeq(events[ListOf(q)], LAMBDA x : x = q)>>

Before(a, b) == a[1] < b[1] \/ (a[1] = b[1] /\ a[2] < b[2])

\* A chain only moves on: from single-code to multi-code to default handlers to
\* the last one, and within a list towards its end, whatever was registered or
\* deregistered while a handler was at work.  So it ends, and no handler is
\* given the same event twice by one chain.
ChainAdvances ==
    [][\A i \in DOMAIN chains :
          (/\ Len(chains') = Len(chains) /\ chains[i].evhdlr # NULL
           /\ chains'[i].evhdlr # chains[i].evhdlr)
          => Before(Rank(chains[i].evhdlr), Rank(chains'[i].evhdlr))]_vars

\* An event for non-default handlers never reaches a default handler, neither
\* directly nor from the cache.
NondefaultRespected ==
    \A q \in Reqs, e \in Events :
        (ev[e].nondefault /\ req[q].codes = {} /\ req[q].where \notin Overall)
        => calls[q][e] = 0

\* The program uses a null or freed handler in these cases and no others: a
\* "first" handler does not end the chain; a handler is deregistered while it
\* or a search is running; the server refuses a handler that was called or stood
\* on before the answer came, or that had found no place and was freed; a handler
\* is placed by a name it does not have.
NoWildHandler ==
    undefined => \E q \in Reqs :
        \/ q = events.first /\ \E i \in DOMAIN chains : chains[i].evhdlr = q
        \/ hdlr[q] = "freed" /\ "dereg_running" \in env.faults
        \/ /\ hdlr[q] = "freed" /\ env.faults \cap {"refused", "host_refused"} # {}
           /\ acks[q] # <<>> /\ acks[q][1] # "SUCCESS"
        \/ NamelessPlace(q)

\* Handlers are where their registrations put them, answered once and named by
\* one index each, and the ways in which a chain can meet one that is not there
\* are known.
HandlersSound ==
    /\ TypeOK /\ PlacedIffLive /\ IndexUnique
    /\ AckedOnce /\ NondefaultRespected /\ NoWildHandler

Unanswered == {q \in Reqs : hdlr[q] = "live" /\ acks[q] = <<>>}

\* Every registration is answered, unless the process goes down in one of the
\* cases of NoWildHandler.
RegistrationAnswered == Unanswered # {} ~> (Unanswered = {} \/ undefined)

\* Every chain ends, and its event is released, unless the process goes down in
\* one of the cases of NoWildHandler.
ChainsEnd == chains # <<>> ~> (chains = <<>> \/ undefined)

\* Registrations and chains of handlers come to their end, a chain by moving on.
HandlersEnd == ChainAdvances /\ RegistrationAnswered /\ ChainsEnd

\* No handler is used that is not there.
NeverWild == ~undefined

\* The completion callback of a registration is called once.
OneAck == \A q \in Reqs : Len(acks[q]) <= 1

\* An acknowledged handler is known to the server.
KnownToServer ==
    env.faults = {} => \A q \in Live : (acks[q] # <<>> /\ req[q].range # "proc_local")
                                     => CodesOf(q) \subseteq SrvAfter

\* A handler is given an event once.
SeenOnce == \A q \in Reqs, e \in Events : calls[q][e] <= 1

=============================================================================
