----------------------------- MODULE Connection -----------------------------
(***************************************************************************)
(* How a client, a tool or a launcher connects to a PMIx server: the       *)
(* handshake of ptl/tcp and ptl/usock, the listener thread, and the        *)
(* server's book-keeping of the peers it accepts (the clients array, the   *)
(* proc_cnt, peerid and reference count of a rank's record, and whether    *)
(* the record is still on its namespace's list).                           *)
(*                                                                         *)
(* The two ends run concurrently.  The server's progress thread executes   *)
(* one handler at a time, but a connector reads, times out, closes and     *)
(* retries between any two words the handler writes; the server may die at *)
(* any moment.  A connection carries a sequence of words towards the       *)
(* connector: statuses (SUCCESS is 0, failures are negative), indices into *)
(* the clients array, and the two identifiers a tool is sent.              *)
(*                                                                         *)
(* The handlers know a connection by the number of its descriptor.  The    *)
(* destructor of a peer closes it, and most failures then use or close the *)
(* number once more; the listener thread may have been given it for a new  *)
(* connection in between, which is then the one written to or closed.      *)
(***************************************************************************)
EXTENDS Integers, Sequences, FiniteSets

CONSTANTS
    Procs,          \* the connecting processes
    Ranks,          \* identities: registered ranks, and what a tool is named
    Scenarios,      \* how each process connects: see env
    MaxClients,     \* the most slots of pmix_server_globals.clients
    MaxRetries      \* PMIX_MAX_RETRIES

VARIABLES
    env,        \* [Procs -> [via, flag, rank, ver, mods, sec, cred,
                \* handshake_max_retries]], and the
                \* registered ranks, whether the host takes tools and may
                \* refuse, the room for clients, and whether the server may fail
    cl,         \* the connector: where it is, attempts, connection, results
    conns,      \* every connection ever made, in order: who made it, as whom
                \* the handler knows it, the server's descriptor for it, what
                \* is sent, and (stray) whether the handler of another
                \* connection wrote to it, read it or closed it
    events,     \* what was pushed to the progress thread's event library
    job,        \* the handler the progress thread is in: <<conn, step, rc>>
    clients,    \* pmix_server_globals.clients: a connection, or 0 for NULL
    ranks,      \* the rank info: listed, proc_cnt, peerid, its reference
                \* count, and whether that once fell to 0
    listen_thread_active,
    alive       \* the server process exists

vars == <<env, cl, conns, events, job, clients, ranks, listen_thread_active, alive>>

SUCCESS == 0
NOT_FOUND == -1
NOT_SUPPORTED == -2
UNREACH == -3
REFUSED == -4
INVALID_CRED == -5
BAD_PARAM == -6
OwnId == 50         \* the identifier the host gives a tool
ServerId == 60
Nobody == -9        \* a name that was never read

Idle == <<0, "idle", 0>>
ConnStates == {"backlog", "event", "handling", "host", "peer", "orphan", "lost", "closed"}

who(c) == conns[c].name
flag(c) == env.proc[who(c)].flag
via(c) == env.proc[conns[c].who].via
rank(c) == env.proc[who(c)].rank
need_id(f) == f \in {3, 6}
launched(f) == f \in {5, 8}
----------------------------------------------------------------------------
(* The connector. *)

\* CLOSE_THE_SOCKET and the decision to go round again: only a receive that
\* timed out is retried, and only while attempts remain ("give it two tries"
\* over usock).
Attempts(p) == IF env.proc[p].via = "tcp" THEN env.proc[p].handshake_max_retries ELSE 2

Hangup(p, retry) ==
    /\ conns' = [conns EXCEPT ![cl[p].sd].copen = FALSE]
    /\ cl' = [cl EXCEPT ![p] =
                 IF retry /\ @.tries + 1 < Attempts(p)
                 THEN [@ EXCEPT !.at = "connect", !.tries = @ + 1, !.sd = 0]
                 ELSE [@ EXCEPT !.at = "down", !.sd = 0]]

\* pmix_ptl_base_connect: the k-th attempt is the first the kernel accepts;
\* a success on the very last one is taken for a failure and closed.
pmix_ptl_base_connect(p) ==
    /\ cl[p].at = "connect"
    /\ \E k \in 1 .. MaxRetries + 1 :
          IF k < MaxRetries /\ alive
          THEN /\ conns' = Append(conns, [who |-> p, name |-> p, fd |-> 0, sent |-> "no", copen |-> TRUE,
                                          sopen |-> TRUE, at |-> "backlog", words |-> <<>>,
                                          stray |-> FALSE])
               /\ cl' = [cl EXCEPT ![p].at = "ack", ![p].sd = Len(conns) + 1]
          ELSE /\ cl' = [cl EXCEPT ![p].at = "down"]
               /\ UNCHANGED conns
    /\ UNCHANGED <<env, events, job, clients, ranks, listen_thread_active, alive>>

\* Sending our identity: no credential can be made, or the send fails, and
\* the connection is closed at once.
Identify(p, transport) ==
    /\ cl[p].at = "ack"
    /\ env.proc[p].via = transport
    /\ \/ /\ conns[cl[p].sd].sopen
          /\ conns' = [conns EXCEPT ![cl[p].sd].sent = "yes"]
          /\ cl' = [cl EXCEPT ![p].at = "status"]
       \/ Hangup(p, FALSE)
    /\ UNCHANGED <<env, events, job, clients, ranks, listen_thread_active, alive>>

send_connect_ack(p) == Identify(p, "tcp")
usock_send_connect_ack(p) == Identify(p, "usock")

\* pmix_ptl_base_recv_blocking on the connector's side: the next word, the
\* end of the stream, or the expiry of SO_RCVTIMEO.
Words(p) == conns[cl[p].sd].words
Hears(p) == Words(p) # <<>>
Closed(p) == Words(p) = <<>> /\ ~conns[cl[p].sd].sopen
\* Mutant: receives are not timed.
Mut_Late(p) == FALSE
Late(p) == Words(p) = <<>> /\ conns[cl[p].sd].sopen
Consume(p) == conns' = [conns EXCEPT ![cl[p].sd].words = Tail(@)]

\* The status reply opens the way to the index (a client) or to the
\* identifiers (a tool); any other status is returned to the caller.
recv_status(p) ==
    /\ cl[p].at = "status"
    /\ \/ /\ Hears(p) /\ Head(Words(p)) = SUCCESS
          /\ Consume(p)
          /\ cl' = [cl EXCEPT ![p].at = CASE env.proc[p].flag = 0 -> "index"
                                          [] need_id(env.proc[p].flag) -> "id"
                                          [] OTHER -> "server"]
       \/ Hears(p) /\ Head(Words(p)) # SUCCESS /\ Hangup(p, FALSE)
       \/ Closed(p) /\ Hangup(p, FALSE)
       \/ Late(p) /\ Hangup(p, TRUE)

\* The client's index into the server's array: whatever word comes next.
recv_index(p) ==
    /\ cl[p].at = "index"
    /\ \/ /\ Hears(p)
          /\ Consume(p)
          /\ cl' = [cl EXCEPT ![p].at = "up", ![p].pindex = Head(Words(p))]
       \/ Closed(p) /\ Hangup(p, FALSE)
       \/ Late(p) /\ Hangup(p, TRUE)

\* A tool without an identifier receives one.
recv_id(p) ==
    /\ cl[p].at = "id"
    /\ \/ /\ Hears(p)
          /\ Consume(p)
          /\ cl' = [cl EXCEPT ![p].at = "server", ![p].id = Head(Words(p))]
       \/ Closed(p) /\ Hangup(p, FALSE)
       \/ Late(p) /\ Hangup(p, TRUE)

\* The server's identifier: the result of the receive is not looked at.
recv_server(p) ==
    /\ cl[p].at = "server"
    /\ \/ /\ Hears(p)
          /\ Consume(p)
          /\ cl' = [cl EXCEPT ![p].at = "security", ![p].server = Head(Words(p))]
       \/ /\ ~Hears(p)
          /\ cl' = [cl EXCEPT ![p].at = "security"]
          /\ UNCHANGED conns

\* The result of the validation: not looked at either, so that a receive that
\* fails leaves the earlier SUCCESS in place.
recv_security(p) ==
    /\ cl[p].at = "security"
    /\ \/ /\ Hears(p) /\ Head(Words(p)) = SUCCESS
          /\ Consume(p)
          /\ cl' = [cl EXCEPT ![p].at = "up"]
       \/ Hears(p) /\ Head(Words(p)) # SUCCESS /\ Hangup(p, FALSE)
       \/ /\ ~Hears(p)
          /\ cl' = [cl EXCEPT ![p].at = "up"]
          /\ UNCHANGED conns

recv_connect_ack(p) ==
    /\ p \in DOMAIN env.proc /\ env.proc[p].via = "tcp"
    /\ recv_status(p) \/ recv_index(p) \/ recv_id(p) \/ recv_server(p) \/ recv_security(p)
    /\ UNCHANGED <<env, events, job, clients, ranks, listen_thread_active, alive>>

\* The same over usock, which only clients use.
usock_recv_connect_ack(p) ==
    /\ p \in DOMAIN env.proc /\ env.proc[p].via = "usock"
    /\ recv_status(p) \/ recv_index(p)
    /\ UNCHANGED <<env, events, job, clients, ranks, listen_thread_active, alive>>

\* A connected process goes away; its end of the socket closes.
Leave(p) ==
    /\ cl[p].at = "up"
    /\ cl' = [cl EXCEPT ![p].at = "left", ![p].sd = 0]
    /\ conns' = [conns EXCEPT ![cl[p].sd].copen = FALSE]
    /\ UNCHANGED <<env, events, job, clients, ranks, listen_thread_active, alive>>
----------------------------------------------------------------------------
(* The server's listener thread. *)

\* accept returns the lowest number that is not in use.
Free == {n \in 1 .. Len(conns) : \A d \in DOMAIN conns : conns[d].sopen => conns[d].fd # n}
NewDescriptor == CHOOSE n \in Free : \A k \in Free : n <= k

\* One connection is accepted and handed to the progress thread.
listen_thread(c) ==
    /\ alive /\ listen_thread_active
    /\ conns[c].at = "backlog"
    /\ \A d \in 1 .. c - 1 : conns[d].at # "backlog"
    /\ conns' = [conns EXCEPT ![c].at = "event", ![c].fd = NewDescriptor]
    /\ events' = Append(events, <<c, "handler", SUCCESS>>)
    /\ UNCHANGED <<env, cl, job, clients, ranks, listen_thread_active, alive>>

\* accept fails for want of descriptors or memory: the thread ends for good.
listen_thread_fails ==
    /\ env.faults /\ alive /\ listen_thread_active
    /\ \E c \in DOMAIN conns : conns[c].at = "backlog"
    /\ listen_thread_active' = FALSE
    /\ UNCHANGED <<env, cl, conns, events, job, clients, ranks, alive>>
----------------------------------------------------------------------------
(* The server's handlers. *)

\* The connection that now has the descriptor of connection c, or 0.
Sock(c) ==
    LET D == {d \in DOMAIN conns : conns[d].sopen /\ conns[d].fd = conns[c].fd} IN
    IF D = {} THEN 0 ELSE CHOOSE d \in D : TRUE

\* The server process ends and all its sockets close.
Crash ==
    /\ alive' = FALSE
    /\ conns' = [c \in DOMAIN conns |-> [conns[c] EXCEPT !.sopen = FALSE, !.at = "closed"]]
    /\ job' = Idle
    /\ events' = <<>>
    /\ clients' = <<>>
    /\ UNCHANGED ranks

\* pmix_ptl_base_send_blocking: a send may fail once the other end is closed,
\* and what is sent to a closed end is lost; on a closed descriptor it fails.
After(c, at) == [conns EXCEPT ![c].at = at]
Put(c, w) ==
    [conns[Sock(c)] EXCEPT !.words = IF conns[Sock(c)].copen THEN Append(@, w) ELSE @,
                           !.stray = @ \/ Sock(c) # c]
Sent(c, w, at) ==
    [[conns EXCEPT ![Sock(c)] = Put(c, w)] EXCEPT ![c].at = at]
Fails(c) == Sock(c) # 0 => ~conns[Sock(c)].copen

\* CLOSE_THE_SOCKET: whatever connection has the number is closed.
Shut(c, at) ==
    [d \in DOMAIN conns |->
        [conns[d] EXCEPT !.sopen = @ /\ d # Sock(c), !.at = IF d = c THEN at ELSE @,
                         !.stray = @ \/ (d = Sock(c) /\ d # c)]]
\* The number of a closed descriptor is used again only if a connection waits
\* to be accepted; if nobody takes it, what the handler does with it is void.
Reusable == listen_thread_active /\ \E d \in DOMAIN conns : conns[d].at = "backlog"
Goes(c, K, step, rc) ==
    \/ job' = Idle /\ conns' = [K EXCEPT ![c].at = "closed"]
    \/ Reusable /\ job' = <<c, step, rc>> /\ conns' = [K EXCEPT ![c].at = "handling"]

\* A failure that ends with CLOSE_THE_SOCKET.
CloseAndEnd(c) ==
    IF Sock(c) = 0 THEN Goes(c, conns, "close", 0)
    ELSE job' = Idle /\ conns' = Shut(c, "closed")

\* pmix_pointer_array_add: the lowest free slot.
FreeSlots == {i \in DOMAIN clients : clients[i] = 0}
Slot == IF FreeSlots # {} THEN CHOOSE i \in FreeSlots : \A j \in FreeSlots : i <= j
        ELSE Len(clients) + 1
Room == Slot <= env.room
Added(c) == IF Slot \in DOMAIN clients THEN [clients EXCEPT ![Slot] = c]
            ELSE Append(clients, c)
SlotOf(c) == CHOOSE i \in DOMAIN clients : clients[i] = c
Removed(c) == [clients EXCEPT ![SlotOf(c)] = 0]

\* The error: label.  The reply is sent; tcp closes the socket only if that
\* fails, usock always does.
Reply(c, rc) ==
    \/ /\ Sock(c) # 0 /\ via(c) = "tcp"
       /\ conns' = Sent(c, rc, IF Sock(c) = c THEN "orphan" ELSE "closed")
       /\ job' = Idle
    \/ /\ Sock(c) # 0 /\ via(c) = "usock"
       /\ conns' = [Sent(c, rc, "closed") EXCEPT ![Sock(c)].sopen = FALSE]
       /\ job' = Idle
    \/ Fails(c) /\ CloseAndEnd(c)

\* Reached when the peer has been released.
error ==
    /\ alive /\ job[2] = "error"
    /\ Reply(job[1], job[3])
    /\ UNCHANGED <<env, cl, events, clients, ranks, listen_thread_active, alive>>

\* CLOSE_THE_SOCKET(pnd->sd), after the peer's destructor or a failed send.
close_socket ==
    LET c == job[1] IN
    /\ alive /\ job[2] = "close"
    /\ conns' = Shut(c, "closed")
    /\ job' = Idle
    /\ UNCHANGED <<env, cl, events, clients, ranks, listen_thread_active, alive>>

\* PMIX_RELEASE of a rank's record, n times, over of which nobody holds: at 0
\* it is freed, on the list or not.  (Kept for clients; a tool's record is not
\* shared.)
Drop(rec, n, over) ==
    [rec EXCEPT !.refs = @ - n, !.over = @ + over, !.freed = @ \/ rec.refs = n]

Extra(c) == IF via(c) = "usock" THEN 1 ELSE 0

\* Mutant: the count is taken back, the slot is not.
Mut_Undo(c) ==
    /\ ranks' = [ranks EXCEPT ![rank(c)] =
                    Drop([@ EXCEPT !.proc_cnt = @ - 1], 1 + Extra(c), Extra(c))]
    /\ UNCHANGED clients
\* What every failure after the peer was added takes back: the count and the
\* slot, but not the peerid, and the reference of the peer to the record; usock
\* releases the record once more.
Undo(c) ==
    /\ ranks' = [ranks EXCEPT ![rank(c)] =
                    Drop([@ EXCEPT !.proc_cnt = @ - 1], 1 + Extra(c), Extra(c))]
    /\ clients' = Removed(c)

\* PMIX_RELEASE of the peer, whose destructor closes the socket; then the
\* error: label, or the socket is closed.
Abort(c, step, rc) ==
    /\ Undo(c)
    /\ Goes(c, Shut(c, "handling"), step, rc)

\* A client's part of connection_handler up to the validation.  A record that
\* was freed is found, or not, or reading it ends the process.  A module the
\* server lacks is reported with the status left from the receive.
handle_client(c) ==
    LET info == ranks[rank(c)]
        mods == env.proc[who(c)].mods IN
    \/ /\ ~info.listed \/ info.freed
       /\ Reply(c, NOT_FOUND)
       /\ UNCHANGED <<clients, ranks>>
    \/ /\ info.listed /\ ~Room
       /\ ranks' = [ranks EXCEPT ![rank(c)] = Drop([@ EXCEPT !.refs = @ + 1], 1 + Extra(c), Extra(c))]
       /\ Goes(c, Shut(c, "handling"), "close", 0)
       /\ UNCHANGED clients
    \/ /\ info.listed /\ Room /\ mods # "all"
       /\ LET extra == IF mods = "no gds" THEN 0 ELSE Extra(c) IN
          ranks' = [ranks EXCEPT ![rank(c)] =
                       Drop([@ EXCEPT !.peerid = Slot - 1, !.refs = @ + 1], 1 + extra, extra)]
       /\ Goes(c, Shut(c, "handling"), "error", SUCCESS)
       /\ UNCHANGED clients
    \/ /\ info.listed /\ Room /\ mods = "all"
       /\ ranks' = [ranks EXCEPT ![rank(c)] =
                       [@ EXCEPT !.proc_cnt = @ + 1, !.peerid = Slot - 1, !.refs = @ + 1]]
       /\ clients' = Added(c)
       /\ conns' = After(c, "handling")
       /\ job' = <<c, "validate", 0>>

\* usock: a version below 1.2.5 is turned away unanswered, and so is one it
\* does not know, once the rank was found.  (Releasing that peer reads a
\* namespace pointer nobody set; see UsesWild.)
handle_usock(c) ==
    LET ver == env.proc[who(c)].ver IN
    \/ /\ ver = 0 \/ (ver = 4 /\ ranks[rank(c)].listed)
       /\ CloseAndEnd(c)
       /\ UNCHANGED <<clients, ranks>>
    \/ /\ ver \in 1 .. 3 \/ (ver = 4 /\ (~ranks[rank(c)].listed \/ ranks[rank(c)].freed))
       /\ IF ver = 4 THEN Reply(c, NOT_FOUND) /\ UNCHANGED <<clients, ranks>>
          ELSE handle_client(c)

\* A tool's part of connection_handler: one launched by a server must be
\* registered; the host names the tool, or if it does not take tools the one
\* that has a name is processed at once.  rest is what remains queued.
handle_tool(c, rest) ==
    \/ /\ launched(flag(c)) /\ ~ranks[rank(c)].listed
       /\ Reply(c, NOT_FOUND)
       /\ events' = rest
    \/ /\ launched(flag(c)) => ranks[rank(c)].listed
       /\ \/ /\ env.proc[who(c)].mods # "all"     \* its bfrops is unknown
             /\ CloseAndEnd(c)
             /\ events' = rest
          \/ /\ env.proc[who(c)].mods = "all" /\ ~env.tools /\ need_id(flag(c))
             /\ Reply(c, NOT_SUPPORTED)
             /\ events' = rest
          \/ /\ env.proc[who(c)].mods = "all" /\ ~env.tools /\ ~need_id(flag(c))
             /\ conns' = After(c, "event")
             /\ events' = Append(rest, <<c, "process", SUCCESS>>)
             /\ job' = Idle
          \/ /\ env.proc[who(c)].mods = "all" /\ env.tools
             /\ conns' = After(c, "host")
             /\ events' = rest
             /\ job' = Idle

\* What is no identity: tcp replies, usock closes.
Unreadable(c) == IF via(c) = "tcp" THEN Reply(c, BAD_PARAM) ELSE CloseAndEnd(c)
\* An identity sent over the other transport.
Foreign(c) == env.proc[who(c)].via # via(c)

\* The progress thread takes the next accepted connection.  It blocks until
\* the header and the payload are there, or the other end has closed.  If the
\* identity was read by the handler of a connection with the same descriptor,
\* it takes the first message of the connected process for one.
connection_handler ==
    /\ alive /\ job = Idle /\ events # <<>>
    /\ LET c == Head(events)[1]
           d == Sock(c) IN
       /\ Head(events)[2] = "handler"
       /\ \/ /\ d # 0 => conns[d].sent # "yes" /\ ~conns[d].copen
             /\ CloseAndEnd(c)
             /\ events' = Tail(events)
             /\ UNCHANGED <<clients, ranks>>
          \/ /\ d # 0 /\ conns[d].sent = "taken" /\ cl[conns[d].who].at = "up"
             /\ Unreadable(c)
             /\ events' = Tail(events)
             /\ UNCHANGED <<clients, ranks>>
          \/ /\ d # 0 /\ conns[d].sent = "yes"
             /\ conns' = [conns EXCEPT ![d].sent = "taken", ![d].stray = @ \/ c # d,
                                       ![c].name = conns[d].who, ![c].at = "handling"]
             /\ job' = <<c, "read", 0>>
             /\ events' = Tail(events)
             /\ UNCHANGED <<clients, ranks>>
    /\ UNCHANGED <<env, cl, listen_thread_active, alive>>

\* The rest of the handler, with the identity it read.
handle_identity ==
    LET c == job[1] IN
    /\ alive /\ job[2] = "read"
    /\ \/ Foreign(c) /\ Unreadable(c) /\ UNCHANGED <<events, clients, ranks>>
       \/ ~Foreign(c) /\ flag(c) = 0 /\ via(c) = "tcp" /\ handle_client(c) /\ UNCHANGED events
       \/ ~Foreign(c) /\ flag(c) = 0 /\ via(c) = "usock" /\ handle_usock(c) /\ UNCHANGED events
       \/ ~Foreign(c) /\ flag(c) # 0 /\ handle_tool(c, events) /\ UNCHANGED <<clients, ranks>>
    /\ UNCHANGED <<env, cl, listen_thread_active, alive>>

\* PMIX_PSEC_VALIDATE_CONNECTION: the result goes to the other end, and the
\* result of that send is what the handler goes on with.
Verdict(c) == IF env.proc[who(c)].cred THEN SUCCESS ELSE INVALID_CRED

validate_client ==
    LET c == job[1] IN
    /\ alive /\ job[2] = "validate"
    /\ \/ /\ Sock(c) # 0
          /\ conns' = Sent(c, Verdict(c), "handling")
          /\ job' = <<c, IF via(c) = "tcp" THEN "status" ELSE "index", 0>>
          /\ UNCHANGED <<clients, ranks>>
       \/ Fails(c) /\ Abort(c, IF via(c) = "tcp" THEN "error" ELSE "close", UNREACH)
    /\ UNCHANGED <<env, cl, events, listen_thread_active, alive>>

\* tcp only: "tell the client all is good".
send_status ==
    LET c == job[1] IN
    /\ alive /\ job[2] = "status"
    /\ \/ /\ Sock(c) # 0
          /\ conns' = Sent(c, SUCCESS, "handling")
          /\ job' = <<c, "index", 0>>
          /\ UNCHANGED <<clients, ranks>>
       \/ Fails(c) /\ Abort(c, "close", 0)
    /\ UNCHANGED <<env, cl, events, listen_thread_active, alive>>

\* The client's array index.
send_index ==
    LET c == job[1] IN
    /\ alive /\ job[2] = "index"
    /\ \/ /\ Sock(c) # 0
          /\ conns' = Sent(c, SlotOf(c) - 1, "handling")
          /\ job' = <<c, "host", 0>>
          /\ UNCHANGED <<clients, ranks>>
       \/ Fails(c) /\ Abort(c, IF via(c) = "tcp" THEN "error" ELSE "close", UNREACH)
    /\ UNCHANGED <<env, cl, events, listen_thread_active, alive>>

\* The host hears of the client and may refuse it; otherwise the events of
\* the peer are started.  (After a refusal usock goes on to use the peer it
\* released; see UsesWild.)
client_connected ==
    LET c == job[1] IN
    /\ alive /\ job[2] = "host"
    /\ \/ /\ conns' = After(c, "peer")
          /\ job' = Idle
          /\ UNCHANGED <<clients, ranks>>
       \/ env.refuses /\ Abort(c, IF via(c) = "tcp" THEN "error" ELSE "close", REFUSED)
    /\ UNCHANGED <<env, cl, events, listen_thread_active, alive>>

\* The host names (or refuses) a tool, from its own thread.
cnct_cbfunc(c) ==
    /\ alive /\ conns[c].at = "host"
    /\ conns' = After(c, "event")
    /\ \E status \in {SUCCESS} \cup (IF env.refuses THEN {REFUSED} ELSE {}) :
          events' = Append(events, <<c, "process", status>>)
    /\ UNCHANGED <<env, cl, job, clients, ranks, listen_thread_active, alive>>

\* The answer to a tool starts with the host's status; a refused tool's peer
\* is released, its socket (which the peer does not have yet) is not closed.
process_cbfunc ==
    /\ alive /\ job = Idle /\ events # <<>>
    /\ LET c == Head(events)[1]
           status == Head(events)[3] IN
       /\ Head(events)[2] = "process"
       /\ \/ /\ Sock(c) # 0 /\ status = SUCCESS
             /\ conns' = Sent(c, SUCCESS, "handling")
             /\ job' = <<c, IF need_id(flag(c)) THEN "id" ELSE "server", 0>>
          \/ /\ Sock(c) # 0 /\ status # SUCCESS
             /\ conns' = Sent(c, status, "orphan")
             /\ job' = Idle
          \/ Fails(c) /\ CloseAndEnd(c)
    /\ events' = Tail(events)
    /\ UNCHANGED <<env, cl, clients, ranks, listen_thread_active, alive>>

\* The tool's identifier, when it asked for one.
send_id ==
    LET c == job[1] IN
    /\ alive /\ job[2] = "id"
    /\ \/ /\ Sock(c) # 0
          /\ conns' = Sent(c, OwnId, "handling")
          /\ job' = <<c, "server", 0>>
       \/ Fails(c) /\ CloseAndEnd(c)
    /\ UNCHANGED <<env, cl, events, clients, ranks, listen_thread_active, alive>>

\* The server's own identifier; then a tool nobody registered gets its
\* namespace and rank on the server's lists.
send_server ==
    LET c == job[1] IN
    /\ alive /\ job[2] = "server"
    /\ \/ /\ Sock(c) # 0
          /\ conns' = Sent(c, ServerId, "handling")
          /\ job' = <<c, "tool", 0>>
          /\ ranks' = [ranks EXCEPT ![rank(c)].listed = TRUE]
       \/ Fails(c) /\ CloseAndEnd(c) /\ UNCHANGED ranks
    /\ UNCHANGED <<env, cl, events, clients, listen_thread_active, alive>>

\* The rest of process_cbfunc.  Every failure takes the namespace off the
\* list, a registered one too; a missing module releases the peer, which closes
\* the socket, and closes it again; with no room for the peer the socket stays
\* open.  (For a launched tool the peerid is written through a pointer that
\* was never set; see UsesWild.)
finish_tool ==
    LET c == job[1]
        sec == env.proc[who(c)].sec IN
    /\ alive /\ job[2] = "tool"
    /\ \/ /\ \/ ~sec /\ Goes(c, Shut(c, "handling"), "close", 0)
             \/ sec /\ Fails(c) /\ CloseAndEnd(c)
             \/ sec /\ Sock(c) # 0 /\ ~Room /\ conns' = Sent(c, Verdict(c), "orphan") /\ job' = Idle
          /\ ranks' = [ranks EXCEPT ![rank(c)].listed = FALSE]
          /\ UNCHANGED clients
       \/ /\ sec /\ Sock(c) # 0 /\ Room
          /\ conns' = Sent(c, Verdict(c), "peer")
          /\ job' = Idle
          /\ clients' = Added(c)
          /\ ranks' = IF launched(flag(c)) THEN ranks
                      ELSE [ranks EXCEPT ![rank(c)].peerid = Slot - 1]
    /\ UNCHANGED <<env, cl, events, listen_thread_active, alive>>

\* What a lost client's peer gives back: the place of the record on the list,
\* and two references.  A record another clone of the process took off the
\* list before loses one too many, unless the first of the two frees it.
Lost(c) ==
    LET rec == ranks[rank(c)] IN
    IF flag(c) # 0 THEN [rec EXCEPT !.listed = FALSE]
    ELSE IF rec.refs = 1 THEN [Drop(rec, 1, 0) EXCEPT !.listed = FALSE]
    ELSE [Drop(rec, 2, IF rec.listed THEN 0 ELSE 1) EXCEPT !.listed = FALSE]

\* The recv event of a peer whose other end closed: its rank leaves the
\* namespace's list, its slot is cleared, its proc_cnt is left alone.
pmix_ptl_base_lost_connection(c) ==
    /\ alive /\ job = Idle
    /\ conns[c].at = "peer" /\ Sock(c) # 0 /\ ~conns[Sock(c)].copen
    /\ conns' = Shut(c, "lost")
    /\ clients' = Removed(c)
    /\ ranks' = [ranks EXCEPT ![rank(c)] = Lost(c)]
    /\ UNCHANGED <<env, cl, events, job, listen_thread_active, alive>>

server_dies ==
    /\ env.faults /\ alive
    /\ Crash
    /\ UNCHANGED <<env, cl, listen_thread_active>>

\* The progress thread is about to use memory that was freed or never set: the
\* list a freed record is on, the namespace of a peer of an unknown version,
\* the peer released after a refusal, the record of a launched tool, the record
\* of a lost peer.
UsesWild ==
    LET c == job[1] IN
    \/ /\ job[2] = "read" /\ flag(c) = 0 /\ ranks[rank(c)].listed
       /\ ranks[rank(c)].freed \/ (via(c) = "usock" /\ env.proc[who(c)].ver = 4)
    \/ job[2] = "host" /\ via(c) = "usock" /\ env.refuses
    \/ job[2] = "tool" /\ launched(flag(c)) /\ env.proc[who(c)].sec /\ Room
    \/ \E d \in DOMAIN conns :
          /\ conns[d].at = "peer" /\ Sock(d) # 0 /\ ~conns[Sock(d)].copen
          /\ ranks[rank(d)].freed

\* It may end the process, or go unnoticed, which the handlers describe.
wild_access ==
    /\ alive /\ UsesWild
    /\ Crash
    /\ UNCHANGED <<env, cl, listen_thread_active>>
----------------------------------------------------------------------------
Init ==
    /\ env \in Scenarios
    /\ cl = [p \in Procs |-> [at |-> IF p \in DOMAIN env.proc THEN "connect" ELSE "left",
                              tries |-> 0, sd |-> 0, pindex |-> Nobody,
                              id |-> Nobody, server |-> Nobody]]
    /\ conns = <<>>
    /\ events = <<>>
    /\ job = Idle
    /\ clients = <<>>
    /\ ranks = [r \in Ranks |-> [listed |-> r \in env.registered, proc_cnt |-> 0,
                                 peerid |-> Nobody,
                                 refs |-> IF r \in env.registered THEN 1 ELSE 0,
                                 over |-> 0, freed |-> FALSE]]
    /\ listen_thread_active = TRUE
    /\ alive = TRUE

Connector(p) ==
    \/ pmix_ptl_base_connect(p)
    \/ send_connect_ack(p) \/ recv_connect_ack(p)
    \/ usock_send_connect_ack(p) \/ usock_recv_connect_ack(p)

Server ==
    \/ connection_handler \/ handle_identity \/ error \/ close_socket \/ validate_client \/ send_status \/ send_index
    \/ client_connected \/ process_cbfunc \/ send_id \/ send_server \/ finish_tool
    \/ \E c \in DOMAIN conns : pmix_ptl_base_lost_connection(c)

Listener == \E c \in DOMAIN conns : listen_thread(c)

Next ==
    \/ \E p \in Procs : Connector(p) \/ Leave(p)
    \/ Server \/ Listener \/ listen_thread_fails \/ server_dies \/ wild_access
    \/ \E c \in DOMAIN conns : cnct_cbfunc(c)

\* Every connecting process goes on (its receives are timed), and so does the
\* server's progress thread while it lives; the host may never answer.
Fairness ==
    /\ \A p \in Procs : WF_vars(Connector(p))
    /\ WF_vars(Server)

Spec == Init /\ [][Next]_vars /\ Fairness
----------------------------------------------------------------------------
Peers == {c \in DOMAIN conns : conns[c].at = "peer"}
Adding == {c \in DOMAIN conns :
              c = job[1] /\ flag(c) = 0 /\ job[2] \in {"validate", "status", "index", "host"}}
ClientsOf(r) == {c \in Peers \cup Adding : rank(c) = r /\ flag(c) = 0}

\* The clients array holds exactly the peers the server serves and the client
\* whose handshake is in progress, each once, whatever attempts failed or were
\* abandoned in between (ptl_tcp_component.c connection_handler and its undo
\* branches, process_cbfunc).
SlotsSound ==
    /\ \A i, j \in DOMAIN clients : clients[i] # 0 /\ clients[i] = clients[j] => i = j
    /\ {clients[i] : i \in DOMAIN clients} \ {0} = Peers \cup Adding

\* A rank's proc_cnt is the number of connections accepted for it as a client:
\* every failure after the increment took it back (info->proc_cnt in
\* connection_handler; a lost connection does not lower it).
CountsBalance ==
    alive => \A r \in Ranks :
        ranks[r].proc_cnt = Cardinality({c \in DOMAIN conns :
            /\ rank(c) = r /\ flag(c) = 0
            /\ conns[c].at \in {"peer", "lost"} \/ c \in Adding})

\* The references to a client's record are the list's and one for each peer,
\* but for those released once too often: by usock when a handshake fails, and
\* when one of several clones is lost after another took the record off the
\* list (connection_handler, pdes, pmix_ptl_base_lost_connection).
RefsExact ==
    alive => \A r \in Ranks :
        (\A c \in DOMAIN conns : rank(c) = r => flag(c) = 0) /\ ~ranks[r].freed =>
            ranks[r].refs + ranks[r].over =
                (IF ranks[r].listed THEN 1 ELSE 0) + Cardinality(ClientsOf(r))

\* The index a connected process was given is the slot of its own connection
\* for as long as the server has that connection: the handshake's words were
\* read as what they were written as (recv_connect_ack against
\* connection_handler), unless a handler that failed wrote to its descriptor.
IndexAgreed(t) ==
    \A p \in Procs :
        cl[p].at = "up" /\ env.proc[p].flag = 0 /\ env.proc[p].via = t =>
            LET c == cl[p].sd IN
            conns[c].sopen /\ ~conns[c].stray =>
                /\ cl[p].pindex + 1 \in DOMAIN clients
                /\ clients[cl[p].pindex + 1] = c
                /\ conns[c].words = <<>>

UsockIndexAgreed == IndexAgreed("usock")

\* The same of the tcp transport (ptl_tcp.c recv_connect_ack).
TcpIndexAgreed == IndexAgreed("tcp")

\* A process connected over usock is never left with an open socket nobody
\* reads: the server serves it, is still finishing, or has closed, again
\* unless a handler that failed wrote to its descriptor
\* (ptl_usock_component.c connection_handler).
NoneStranded ==
    \A p \in Procs :
        cl[p].at = "up" /\ env.proc[p].via = "usock" =>
            LET c == cl[p].sd IN
            ~conns[c].sopen \/ conns[c].stray \/ c \in Peers \/ c = job[1]

\* The server's array of peers, the counts on its records and the index each client
\* holds agree, and no client is left behind by a server that gave it up.
ConnectionsSound ==
    SlotsSound /\ CountsBalance /\ RefsExact /\ UsockIndexAgreed /\ NoneStranded

\* Too strong: a handler only touches its own connection (pdes closes the
\* socket, the handlers then reply on it or close it again).
NothingStray == \A c \in DOMAIN conns : ~conns[c].stray

\* Too strong: a record on the list, or of a peer, is not freed.
RecordsHeld ==
    alive => \A r \in Ranks : ranks[r].freed => ~ranks[r].listed /\ ClientsOf(r) = {}

\* Too strong: a server that nobody kills lives.
ServerSurvives == env.faults \/ alive

\* Every process that tries to connect comes to an end, connected or not: the
\* receives are timed and the attempts counted, even if the server dies, its
\* listener stops or its host never answers (try_connect, recv_connect_ack).
Settles == \A p \in Procs : <>(cl[p].at \in {"up", "down", "left"})

\* The slot of a connection whose other end has closed, and that of one no
\* handler of another connection touched.
Abandoned(i) ==
    i \in DOMAIN clients /\ clients[i] # 0 /\ ~conns[clients[i]].copen
OwnAbandoned(i) == Abandoned(i) /\ ~conns[clients[i]].stray

\* The server forgets every connection whose other end has closed, one it
\* accepted after the process gave up on it included: no slot stays occupied
\* by such a connection (pmix_ptl_base_lost_connection).
AbandonedForgotten == \A i \in 1 .. MaxClients : OwnAbandoned(i) ~> ~OwnAbandoned(i)

\* Too strong: the same of a connection whose descriptor another handler closed.
AllForgotten == \A i \in 1 .. MaxClients : Abandoned(i) ~> ~Abandoned(i)
=============================================================================
