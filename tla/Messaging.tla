----------------------------- MODULE Messaging -----------------------------
(***************************************************************************)
(* The message layer between a client and its server                       *)
(* (src/src/mca/ptl/base/ptl_base_sendrecv.c, ptl_types.h): requests with  *)
(* dynamic tags and posted receives, the send queue of a peer, reads and   *)
(* writes that move part of a message, and the loss of the connection.     *)
(* Each side is one progress thread: libevent runs the active events in    *)
(* order and polls the socket when none is left.                           *)
(***************************************************************************)
EXTENDS Integers, Sequences

CONSTANTS
    Calls,          \* requests of the client's threads (PMIx_Get, PMIx_Fence, ...)
    Notes,          \* messages the server sends on the reserved tag NOTIFY
    Beats,          \* heartbeats: one-way messages without data
    DynamicTags,    \* PMIX_PTL_TAG_DYNAMIC .. UINT32_MAX - 1 has this many tags
    Scenarios       \* [calls, notes, beats, monitored, faults]

Sides == {"client", "server"}
Other(s) == IF s = "client" THEN "server" ELSE "client"

NOTIFY == 0
HEARTBEAT == 1
DYNAMIC == 2
UINT_MAX == DYNAMIC + DynamicTags

VARIABLES
    env,        \* the scenario
    waiting,    \* calls that were made
    refused,    \* calls turned away: not connected
    outcome,    \* outcome[c]: how the callback of c was called, in order
    connected,  \* pmix_globals.connected of the client
    tag,        \* pmix_ptl_globals.current_tag of the client
    posted,     \* posted_recvs of the client: [tag, for]
    order,      \* calls in the order in which they were put on the send queue
    events,     \* events[s]: the active events of the progress thread of s
    peer,       \* peer[s]: what s keeps of its connection
    wire,       \* wire[s]: units on their way to s
    closed,     \* the sides that have closed their socket
    handled,    \* the calls the server took up, in order
    held,       \* those it has yet to answer
    beats,      \* heartbeats that reached the sensor
    unexpected, \* unexpected_msgs of the client
    stray       \* messages on a dynamic tag nobody waited for; garbled headers

vars == <<env, waiting, refused, outcome, connected, tag, posted, order, events,
          peer, wire, closed, handled, held, beats, unexpected, stray>>

Message(t, body, n) == [tag |-> t, body |-> body, nbytes |-> n]

\* A message on the wire: two units of header, then its data.
HdrUnits == 2
Units(m) == [i \in 1 .. HdrUnits + m.nbytes |-> <<m, i>>]

None == <<>>

Init ==
    /\ env \in Scenarios
    /\ waiting = {} /\ refused = {}
    /\ outcome = [c \in Calls |-> <<>>]
    /\ connected = TRUE
    /\ tag = DYNAMIC
    /\ posted = <<[tag |-> NOTIFY, for |-> "notify"]>>
    /\ order = <<>>
    /\ events = [s \in Sides |-> <<>>]
    /\ peer = [s \in Sides |->
                  [sd |-> TRUE, finalized |-> FALSE, send_msg |-> None,
                   send_queue |-> <<>>, send_ev |-> FALSE, recv_msg |-> None]]
    /\ wire = [s \in Sides |-> <<>>]
    /\ closed = {}
    /\ handled = <<>> /\ held = {} /\ beats = {}
    /\ unexpected = {} /\ stray = {}

-----------------------------------------------------------------------------
(* Calls *)

\* A non-blocking operation: it is refused unless the client is connected, and
\* otherwise shifted to the progress thread.
Call(c) ==
    /\ c \in env.calls \ (waiting \cup refused)
    /\ IF connected
       THEN /\ waiting' = waiting \cup {c}
            /\ events' = [events EXCEPT !["client"] =
                              Append(@, [ev |-> "send_recv", body |-> c])]
            /\ UNCHANGED refused
       ELSE refused' = refused \cup {c} /\ UNCHANGED <<waiting, events>>
    /\ UNCHANGED <<env, outcome, connected, tag, posted, order, peer, wire, closed,
                   handled, held, beats, unexpected, stray>>

\* PMIx_Heartbeat, and a notification of the server, go out without an answer.
SendOneway(s, x) ==
    /\ x \in IF s = "client" THEN env.beats ELSE env.notes
    /\ s \notin closed
    /\ env' = [env EXCEPT !.beats = @ \ {x}, !.notes = @ \ {x}]
    /\ events' = [events EXCEPT ![s] = Append(@, [ev |-> "send_oneway", body |-> x])]
    /\ UNCHANGED <<waiting, refused, outcome, connected, tag, posted, order, peer, wire,
                   closed, handled, held, beats, unexpected, stray>>

\* The server, or its host, has the answer to a request.
Answer(c) ==
    /\ c \in {m.body : m \in held} /\ "server" \notin closed
    /\ \E m \in held : /\ m.body = c
                       /\ held' = held \ {m}
                       /\ events' = [events EXCEPT !["server"] =
                                         Append(@, [ev |-> "reply", body |-> m])]
    /\ UNCHANGED <<env, waiting, refused, outcome, connected, tag, posted, order, peer,
                   wire, closed, handled, beats, unexpected, stray>>

-----------------------------------------------------------------------------
(* The send queue *)

Queued(p, m) ==
    IF p.send_msg = None THEN [p EXCEPT !.send_msg = Units(m), !.send_ev = TRUE]
    ELSE [p EXCEPT !.send_queue = Append(@, m), !.send_ev = TRUE]

\* Mutant: the tag stays at the last one instead of wrapping.
Mut_next_tag_no_wrap(t) == IF t + 1 >= UINT_MAX THEN UINT_MAX - 1 ELSE t + 1

NextTag(t) == IF t + 1 = UINT_MAX THEN DYNAMIC ELSE t + 1

pmix_ptl_base_send_recv(c) ==
    IF ~peer["client"].sd THEN UNCHANGED <<tag, posted, order, peer>>
    ELSE /\ tag' = NextTag(tag)
         /\ posted' = <<[tag |-> tag', for |-> c]>> \o posted
         /\ order' = Append(order, c)
         /\ peer' = [peer EXCEPT !["client"] = Queued(@, Message(tag', c, 1))]

pmix_ptl_base_send(s, x) ==
    IF ~peer[s].sd THEN UNCHANGED peer
    ELSE peer' = [peer EXCEPT ![s] =
                     Queued(@, IF x \in Beats THEN Message(HEARTBEAT, x, 0)
                               ELSE Message(NOTIFY, x, 1))]

\* PMIX_SERVER_QUEUE_REPLY
QueueReply(m) ==
    IF peer["server"].finalized THEN UNCHANGED peer
    ELSE peer' = [peer EXCEPT !["server"] = Queued(@, m)]

-----------------------------------------------------------------------------
(* The loss of the connection *)

IsHandler(e) == e.ev \in {"recv", "send"}

\* The active events q of a side without those of its socket.  Poll activates
\* these two when there are no others, so that what is left of them comes first.
Deleted(q) == IF q # <<>> /\ IsHandler(Head(q)) THEN Tail(q) ELSE q

\* The socket is closed, its two events are deleted, and a client calls the
\* callback of every receive that is posted, but leaves it posted.
LostConnection(s) ==
    /\ peer' = [peer EXCEPT ![s].sd = FALSE, ![s].send_ev = FALSE, ![s].recv_msg = None,
                            ![s].finalized = (s = "server")]
    /\ closed' = closed \cup {s}
    /\ events' = [events EXCEPT ![s] = Deleted(Tail(@))]
    /\ IF s = "client"
       THEN /\ connected' = FALSE
            /\ outcome' = [c \in Calls |->
                  IF \E i \in DOMAIN posted : posted[i].for = c
                  THEN Append(outcome[c], "lost") ELSE outcome[c]]
       ELSE UNCHANGED <<connected, outcome>>

-----------------------------------------------------------------------------
(* The handlers of the socket *)

\* A write takes all that is left of the message or, when the socket is busy,
\* a part of it.
Written(s) ==
    LET n == Len(peer[s].send_msg)
    IN  {n} \cup (IF "short" \in env.faults /\ n > HdrUnits THEN {HdrUnits} ELSE {})
            \cup (IF "short_hdr" \in env.faults THEN 1 .. n ELSE {})

Wrote(s, k) ==
    LET left == peer[s].send_msg
        queue == peer[s].send_queue
    IN  /\ wire' = [wire EXCEPT ![Other(s)] = @ \o SubSeq(left, 1, k)]
        /\ peer' = [peer EXCEPT ![s] =
              IF k < Len(left) THEN [@ EXCEPT !.send_msg = SubSeq(left, k + 1, Len(left))]
              ELSE IF queue = <<>> THEN [@ EXCEPT !.send_msg = None, !.send_ev = FALSE]
              ELSE [@ EXCEPT !.send_msg = Units(Head(queue)), !.send_queue = Tail(queue)]]

\* send_msg and pmix_ptl_base_send_handler: the write fails only when the other
\* side has closed the socket.
SendHandler(s) ==
    \/ /\ Other(s) \in closed /\ "epipe" \in env.faults
       /\ LostConnection(s)
       /\ UNCHANGED <<wire, stray>>
    \/ /\ \E k \in Written(s) : Wrote(s, k)
       /\ events' = [events EXCEPT ![s] = Tail(@)]
       /\ UNCHANGED <<closed, connected, outcome, stray>>

\* PMIX_ACTIVATE_POST_MSG: the message is complete.
Complete(s, m, rest) ==
    /\ events' = [events EXCEPT ![s] = Append(Tail(@), [ev |-> "process_msg", body |-> m])]
    /\ peer' = [peer EXCEPT ![s].recv_msg = None]
    /\ wire' = [wire EXCEPT ![s] = rest]
    /\ UNCHANGED <<closed, connected, outcome>>

\* Nothing more can be read for now; what was read of the data is kept.
Blocked(s, m, rest) ==
    /\ events' = [events EXCEPT ![s] = Tail(@)]
    /\ peer' = [peer EXCEPT ![s].recv_msg = m]
    /\ wire' = [wire EXCEPT ![s] = rest]
    /\ UNCHANGED <<closed, connected, outcome>>

ReadFailed(s) == LostConnection(s) /\ wire' = [wire EXCEPT ![s] = <<>>]

ReadData(s, m, w) ==
    IF m.nbytes = 0 THEN Complete(s, m, w)
    ELSE IF w # <<>> THEN Complete(s, m, Tail(w))
    ELSE IF Other(s) \in closed THEN ReadFailed(s)
    ELSE Blocked(s, m, w)

\* read_bytes for the header starts over with a local buffer each time, so that
\* a part of a header that was read is lost.
IsHeader(w) == w[1] = <<w[1][1], 1>> /\ w[2] = <<w[1][1], 2>>

\* pmix_ptl_base_recv_handler
RecvHandler(s) ==
    LET w == wire[s]
    IN  IF peer[s].recv_msg # None
        THEN ReadData(s, peer[s].recv_msg, w) /\ UNCHANGED stray
        ELSE IF Len(w) < HdrUnits
        THEN /\ IF Other(s) \in closed THEN ReadFailed(s) ELSE Blocked(s, None, <<>>)
             /\ UNCHANGED stray
        ELSE IF ~IsHeader(w)
        THEN ReadFailed(s) /\ stray' = stray \cup {"garbled"}
        ELSE ReadData(s, w[1][1], SubSeq(w, HdrUnits + 1, Len(w))) /\ UNCHANGED stray

-----------------------------------------------------------------------------
(* Messages received *)

Matches(m) == {i \in DOMAIN posted : posted[i].tag = m.tag}

FirstMatch(m) == CHOOSE i \in Matches(m) : \A j \in Matches(m) : i <= j

\* Mutant: the receive at the head of the list is taken off.
Mut_recv_first(i) == IF posted[i].tag < DYNAMIC THEN posted ELSE Tail(posted)

\* A receive on a dynamic tag is for one message.
RecvDone(i) ==
    IF posted[i].tag < DYNAMIC THEN posted
    ELSE SubSeq(posted, 1, i - 1) \o SubSeq(posted, i + 1, Len(posted))

\* pmix_ptl_base_process_msg at the client
ProcessAtClient(m) ==
    /\ IF Matches(m) # {}
       THEN LET i == FirstMatch(m) IN
            /\ outcome' = IF posted[i].for = "notify" THEN outcome
                          ELSE [outcome EXCEPT ![posted[i].for] = Append(@, m.body)]
            /\ posted' = RecvDone(i)
            /\ UNCHANGED <<unexpected, stray>>
       ELSE IF m.tag >= DYNAMIC
       THEN stray' = stray \cup {m} /\ UNCHANGED <<outcome, posted, unexpected>>
       ELSE unexpected' = unexpected \cup {m} /\ UNCHANGED <<outcome, posted, stray>>
    /\ UNCHANGED <<peer, handled, held, beats>>

\* At the server the heartbeat sensor posts a receive in front of the one that
\* takes every tag (pmix_server_message_handler, which cannot unpack a command
\* from an empty message and answers with the error).
ProcessAtServer(m) ==
    /\ IF m.tag = HEARTBEAT
       THEN /\ IF env.monitored
               THEN beats' = beats \cup {m.body} /\ UNCHANGED peer
               ELSE QueueReply([m EXCEPT !.nbytes = 1]) /\ UNCHANGED beats
            /\ UNCHANGED <<handled, held>>
       ELSE /\ handled' = Append(handled, m.body)
            /\ held' = held \cup {m}
            /\ UNCHANGED <<beats, peer>>
    /\ UNCHANGED <<outcome, posted, unexpected, stray>>

-----------------------------------------------------------------------------
(* The progress thread of a side *)

Ready(s) ==
    {e \in {"recv", "send"} :
       /\ peer[s].sd
       /\ IF e = "recv" THEN wire[s] # <<>> \/ Other(s) \in closed ELSE peer[s].send_ev}

Poll(s) ==
    /\ events[s] = <<>> /\ Ready(s) # {}
    /\ \E q \in {<<"recv">>, <<"send">>, <<"recv", "send">>, <<"send", "recv">>} :
         /\ {q[i] : i \in DOMAIN q} = Ready(s)
         /\ events' = [events EXCEPT ![s] = [i \in DOMAIN q |-> [ev |-> q[i], body |-> None]]]
    /\ UNCHANGED <<env, waiting, refused, outcome, connected, tag, posted, order, peer,
                   wire, closed, handled, held, beats, unexpected, stray>>

NextEvent(s, ev) == events[s] # <<>> /\ Head(events[s]).ev = ev

RunHandler(s) ==
    /\ \/ NextEvent(s, "send") /\ SendHandler(s)
       \/ NextEvent(s, "recv") /\ RecvHandler(s)
    /\ UNCHANGED <<env, waiting, refused, tag, posted, order, handled, held, beats,
                   unexpected>>

RunEvent(s) ==
    LET x == Head(events[s]).body IN
    /\ \/ /\ NextEvent(s, "send_recv")
          /\ pmix_ptl_base_send_recv(x)
          /\ UNCHANGED <<outcome, handled, held, beats, unexpected, stray>>
       \/ /\ NextEvent(s, "send_oneway")
          /\ pmix_ptl_base_send(s, x)
          /\ UNCHANGED <<outcome, tag, posted, order, handled, held, beats, unexpected, stray>>
       \/ /\ NextEvent(s, "reply")
          /\ QueueReply(x)
          /\ UNCHANGED <<outcome, tag, posted, order, handled, held, beats, unexpected, stray>>
       \/ /\ NextEvent(s, "process_msg")
          /\ IF s = "client" THEN ProcessAtClient(x) ELSE ProcessAtServer(x)
          /\ UNCHANGED <<tag, order>>
    /\ events' = [events EXCEPT ![s] = Tail(@)]
    /\ UNCHANGED <<env, waiting, refused, connected, wire, closed>>

\* The process of one side ends; what it had written may be lost in part.
Crash(s) ==
    /\ s \in env.faults /\ closed = {}
    /\ closed' = {s}
    /\ events' = [events EXCEPT ![s] = <<>>]
    /\ peer' = [peer EXCEPT ![s].sd = FALSE]
    /\ held' = IF s = "server" THEN {} ELSE held
    /\ env' = IF s = "client" THEN [env EXCEPT !.calls = {}, !.beats = {}] ELSE env
    /\ \E k \in {0, Len(wire[Other(s)])} :
         wire' = [wire EXCEPT ![Other(s)] = SubSeq(@, 1, k), ![s] = <<>>]
    /\ UNCHANGED <<waiting, refused, outcome, connected, tag, posted, order, handled,
                   beats, unexpected, stray>>

Next ==
    \/ \E c \in Calls : Call(c) \/ Answer(c)
    \/ \E s \in Sides :
         \/ \E x \in Beats \cup Notes : SendOneway(s, x)
         \/ Poll(s) \/ RunHandler(s) \/ RunEvent(s) \/ Crash(s)

\* The progress threads run, and the server answers what it was asked.
Fairness ==
    /\ \A s \in Sides : WF_vars(Poll(s)) /\ WF_vars(RunHandler(s)) /\ WF_vars(RunEvent(s))
    /\ \A c \in Calls : WF_vars(Answer(c))

Spec == Init /\ [][Next]_vars /\ Fairness

-----------------------------------------------------------------------------
(* Properties *)

TypeOK ==
    /\ waiting \cup refused \subseteq Calls /\ waiting \cap refused = {}
    /\ connected \in BOOLEAN
    /\ tag \in DYNAMIC .. UINT_MAX - 1
    /\ \A i \in DOMAIN posted : posted[i].tag \in {NOTIFY} \cup DYNAMIC .. UINT_MAX - 1
    /\ \A s \in Sides : peer[s].send_ev => peer[s].send_msg # None

\* The server takes requests up in the order in which the client's progress
\* thread queued them: a write that moves part of a message, the queue behind
\* it and the reads at the server neither reorder, repeat nor skip any, unless a
\* header comes in parts, which are lost.
HandledInOrder == "short_hdr" \in env.faults \/ handled = SubSeq(order, 1, Len(handled))

\* "we cannot have unexpected messages in this subsystem as the server never
\* sends us something that we didn't previously request": no message on a
\* dynamic tag finds no receive, and every header read is one that was sent.
NothingStray == "short_hdr" \in env.faults \/ stray = {}

\* An unmonitored heartbeat is answered with an error nobody asked for, which
\* the client keeps for good; nothing else is ever kept.
OnlyBeatsKept == \A m \in unexpected : m.tag = HEARTBEAT /\ ~env.monitored

\* What a side queued the other handles in that order, by the receive it is meant
\* for, and nothing but heartbeats is kept without one.
MessagesSound == TypeOK /\ HandledInOrder /\ NothingStray /\ OnlyBeatsKept

\* A call as its caller sees it.
CallState(c) ==
    IF c \in refused THEN "refused"
    ELSE IF outcome[c] = <<c>> THEN "answered"
    ELSE IF outcome[c] = <<"lost">> THEN "lost"
    ELSE IF outcome[c] # <<>> THEN "confused"
    ELSE IF c \in waiting THEN "waiting" ELSE "idle"

Answers == INSTANCE Rpc WITH st <- [c \in Calls |-> CallState(c)], up <- connected

\* The message layer implements the abstract call: one outcome for each call,
\* the answer to that very call or, at the loss of the connection, the loss.
AnsweredAsAsked == Answers!Spec

\* A request that is on the list of posted receives is completed: by its answer
\* or by the loss of the connection.
PostedCompleted ==
    \A c \in Calls :
       (\E i \in DOMAIN order : order[i] = c)
          ~> (outcome[c] # <<>> \/ "client" \in env.faults)

\* "to preclude any chance of hanging, cycle thru the list of posted recvs and
\* complete any that are the return call from a sendrecv": no call hangs.
NoCallHangs == \A c \in Calls : c \in waiting ~> outcome[c] # <<>>

=============================================================================
