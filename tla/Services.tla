------------------------------ MODULE Services ------------------------------
(***************************************************************************)
(* The requests a client makes of its server and the server passes to its  *)
(* host: publish, lookup, unpublish, spawn, query, allocation, job         *)
(* control, monitoring, credentials, logging, forwarded stdin and abort.   *)
(* A caller takes the global lock, checks, packs and sends; the server     *)
(* unpacks and calls the host; the host answers at once or in a callback;  *)
(* the reply wakes the caller.                                             *)
(***************************************************************************)
EXTENDS Naturals, Sequences, FiniteSets

-----------------------------------------------------------------------------
(* The commands of the client-server protocol: what each client function   *)
(* packs, what the server's handler of the command unpacks, what the       *)
(* server's callback packs into the reply and what the client's callback   *)
(* makes of it.  A function that packs or unpacks is a program, the        *)
(* sequence of its PMIX_BFROPS_PACK or PMIX_BFROPS_UNPACK calls.           *)


\* The steps of a program: one value; a count; an array of that many, packed
\* or unpacked only when there are any; an array whatever the count; an array
\* with room for one more; that many single values; the status of a reply.
Val(t)    == [act |-> "val", type |-> t, count |-> "one"]
Num(c)    == [act |-> "num", type |-> "size", count |-> c]
Arr(t, c) == [act |-> "arr", type |-> t, count |-> c]
All(t, c) == [act |-> "all", type |-> t, count |-> c]
More(t, c) == [act |-> "more", type |-> t, count |-> c]
Rep(t, c) == [act |-> "rep", type |-> t, count |-> c]
Status    == [act |-> "status", type |-> "status", count |-> "one"]

\* What PMIX_BFROPS_PACK adds to a buffer: the type, how many, and the value
\* where a reader decides on it.
Item(t, n, v) == [type |-> t, num |-> n, value |-> v]

\* a[c] is the count c of the caller's arguments, a.status the status replied.
ItemsOf(step, a) ==
    CASE step.act = "val"    -> <<Item(step.type, 1, 0)>>
      [] step.act = "num"    -> <<Item("size", 1, a[step.count])>>
      [] step.act = "status" -> <<Item("status", 1, a.status)>>
      [] step.act = "arr"    -> IF a[step.count] > 0 THEN <<Item(step.type, a[step.count], 0)>> ELSE <<>>
      [] step.act = "all"    -> <<Item(step.type, a[step.count], 0)>>
      [] step.act = "rep"    -> [i \in 1 .. a[step.count] |-> Item(step.type, 1, 0)]

Pack(program, a) ==
    LET buf[i \in 0 .. Len(program)] ==
            IF i = 0 THEN <<>> ELSE buf[i - 1] \o ItemsOf(program[i], a)
    IN  buf[Len(program)]

\* A reader: the result so far, what is left of the buffer, the counts read.
Reader(buf) == [rc |-> "SUCCESS", buf |-> buf, got |-> [c \in {} |-> 0], status |-> "none"]

\* PMIX_BFROPS_UNPACK of at most max values of type t.
Unpacked(r, t, max) ==
    CASE r.rc # "SUCCESS"        -> r
      [] r.buf = <<>>            -> [r EXCEPT !.rc = "READ_PAST_END_OF_BUFFER"]
      [] r.buf # <<>> /\ Head(r.buf).type # t -> [r EXCEPT !.rc = "PACK_MISMATCH"]
      [] r.buf # <<>> /\ Head(r.buf).num > max -> [r EXCEPT !.rc = "INADEQUATE_SPACE"]
      [] OTHER                   -> [r EXCEPT !.buf = Tail(@)]

UnpackStep(r, step) ==
    LET n == IF r.rc = "SUCCESS" /\ step.count \in DOMAIN r.got THEN r.got[step.count] ELSE 0
        one == Unpacked(r, step.type, 1)
        each[i \in 0 .. n] == IF i = 0 THEN r ELSE Unpacked(each[i - 1], step.type, 1)
    IN  CASE r.rc # "SUCCESS"    -> r
          [] step.act = "val"    -> one
          [] step.act = "num"    ->
                IF one.rc # "SUCCESS" THEN one
                ELSE [one EXCEPT !.got = [c \in DOMAIN @ \cup {step.count} |->
                        IF c = step.count THEN Head(r.buf).value ELSE @[c]]]
          [] step.act = "status" ->
                IF one.rc # "SUCCESS" THEN one ELSE [one EXCEPT !.status = Head(r.buf).value]
          [] step.act = "arr"    -> IF n > 0 THEN Unpacked(r, step.type, n) ELSE r
          [] step.act = "all"    -> Unpacked(r, step.type, n)
          [] step.act = "more"   -> Unpacked(r, step.type, n + 1)
          [] step.act = "rep"    -> each[n]

Unpack(program, buf) ==
    LET r[i \in 0 .. Len(program)] ==
            IF i = 0 THEN Reader(buf)
            ELSE CHOOSE next \in {UnpackStep(last, program[i]) : last \in {r[i - 1]}} : TRUE
    IN  r[Len(program)]

-----------------------------------------------------------------------------
(* What the client functions pack *)

PMIx_Abort        == <<Val("cmd"), Val("status"), Val("string"), Num("procs"), Arr("proc", "procs")>>
PMIx_Publish_nb   == <<Val("cmd"), Val("uint32"), Num("infos"), Arr("info", "infos")>>
PMIx_Lookup_nb    == <<Val("cmd"), Val("uint32"), Num("keys"), Rep("string", "keys"),
                       Num("infos"), Arr("info", "infos")>>
PMIx_Unpublish_nb == <<Val("cmd"), Val("uint32"), Num("keys"), Rep("string", "keys"),
                       Num("infos"), Arr("info", "infos")>>
PMIx_Spawn_nb     == <<Val("cmd"), Num("infos"), Arr("info", "infos"), Num("apps"), Arr("app", "apps")>>
pack_fence        == <<Val("cmd"), Num("procs"), All("proc", "procs"), Num("infos"), Arr("info", "infos")>>
PMIx_Connect_nb   == <<Val("cmd"), Num("procs"), All("proc", "procs"), Num("infos"), Arr("info", "infos")>>
PMIx_Disconnect_nb == <<Val("cmd"), Num("procs"), All("proc", "procs"), Num("infos"), Arr("info", "infos")>>
PMIx_Query_info_nb == <<Val("cmd"), Num("queries"), All("query", "queries")>>
PMIx_Allocation_request_nb == <<Val("cmd"), Val("alloc_directive"), Num("infos"), Arr("info", "infos")>>
PMIx_Job_control_nb == <<Val("cmd"), Num("procs"), Arr("proc", "procs"), Num("infos"), Arr("info", "infos")>>
PMIx_Process_monitor_nb == <<Val("cmd"), Val("info"), Val("status"), Num("infos"), Arr("info", "infos")>>
PMIx_Get_credential == <<Val("cmd"), Num("infos"), Arr("info", "infos")>>
PMIx_Validate_credential == <<Val("cmd"), Val("byte_object"), Num("infos"), Arr("info", "infos")>>
PMIx_Log_nb       == <<Val("cmd"), Val("time"), Num("infos"), Arr("info", "infos"), Num("dirs"), Arr("info", "dirs")>>
PMIx_IOF_pull     == <<Val("cmd"), Num("procs"), All("proc", "procs"), Num("infos"), Arr("info", "infos"),
                       Val("iof_channel")>>
PMIx_IOF_push     == <<Val("cmd"), Num("procs"), Arr("proc", "procs"), Num("infos"), Arr("info", "infos"),
                       Val("byte_object")>>
PMIx_Group_construct_nb == <<Val("cmd"), Val("string"), Num("procs"), All("proc", "procs"),
                             Num("infos"), Arr("info", "infos")>>
PMIx_Group_destruct_nb  == <<Val("cmd"), Val("string"), Num("infos"), Arr("info", "infos")>>
_pack_get         == <<Val("cmd"), Val("string"), Val("proc_rank"), Num("infos"), Arr("info", "infos")>>
_send_to_server   == <<Val("cmd"), Num("codes"), Arr("status", "codes"), Num("infos"), Arr("info", "infos")>>
notify_server_of_event == <<Val("cmd"), Val("status"), Val("data_range"), Num("infos"), Arr("info", "infos")>>

-----------------------------------------------------------------------------
(* What the server's handlers unpack, the command being read by            *)
(* server_switchyard                                                       *)

pmix_server_abort     == <<Val("status"), Val("string"), Num("procs"), Arr("proc", "procs")>>
pmix_server_publish   == <<Val("uint32"), Num("infos"), More("info", "infos")>>
pmix_server_lookup    == <<Val("uint32"), Num("keys"), Rep("string", "keys"), Num("infos"), Arr("info", "infos")>>
pmix_server_unpublish == <<Val("uint32"), Num("keys"), Rep("string", "keys"), Num("infos"), Arr("info", "infos")>>
\* Mutant: the applications are read before the job's directives.
Mut_spawn_apps_first  == <<Num("apps"), Arr("app", "apps"), Num("infos"), Arr("info", "infos")>>
pmix_server_spawn     == <<Num("infos"), Arr("info", "infos"), Num("apps"), Arr("app", "apps")>>
pmix_server_fence     == <<Num("procs"), All("proc", "procs"), Num("infos"), Arr("info", "infos")>>
pmix_server_connect   == <<Num("procs"), All("proc", "procs"), Num("infos"), Arr("info", "infos")>>
pmix_server_disconnect == <<Num("procs"), All("proc", "procs"), Num("infos"), Arr("info", "infos")>>
pmix_server_query     == <<Num("queries"), Arr("query", "queries")>>
pmix_server_alloc     == <<Val("alloc_directive"), Num("infos"), Arr("info", "infos")>>
pmix_server_job_ctrl  == <<Num("procs"), Arr("proc", "procs"), Num("infos"), Arr("info", "infos")>>
pmix_server_monitor   == <<Val("info"), Val("status"), Num("infos"), Arr("info", "infos")>>
pmix_server_get_credential == <<Num("infos"), Arr("info", "infos")>>
pmix_server_validate_credential == <<Val("byte_object"), Num("infos"), Arr("info", "infos")>>
pmix_server_log       == <<Val("time"), Num("infos"), Arr("info", "infos"), Num("dirs"), Arr("info", "dirs")>>
pmix_server_iofreg    == <<Num("procs"), Arr("proc", "procs"), Num("infos"), Arr("info", "infos"), Val("iof_channel")>>
pmix_server_iofstdin  == <<Num("procs"), Arr("proc", "procs"), Num("infos"), Arr("info", "infos"), Val("byte_object")>>
pmix_server_grpconstruct == <<Val("string"), Num("procs"), All("proc", "procs"), Num("infos"), Arr("info", "infos")>>
pmix_server_grpdestruct  == <<Val("string"), Num("infos"), Arr("info", "infos")>>
pmix_server_get       == <<Val("string"), Val("proc_rank"), Num("infos"), Arr("info", "infos")>>
pmix_server_register_events == <<Num("codes"), Arr("status", "codes"), Num("infos"), Arr("info", "infos")>>
pmix_server_event_recvd_from_client ==
    <<Val("status"), Val("data_range"), Num("infos"), Arr("info", "infos")>>

-----------------------------------------------------------------------------
(* What the server's callbacks pack into a reply, given the status and the *)
(* counts of what the host returned                                        *)

IfSuccess(a, steps) == <<Status>> \o IF a.status = "SUCCESS" THEN steps ELSE <<>>

message_handler_reply(a) == <<Status>>
op_cbfunc(a)       == <<Status>>
lookup_cbfunc(a)   == IfSuccess(a, <<Num("infos"), All("pdata", "infos")>>)
_spcb(a)           == <<Status, Val("string"), Rep("kval", "infos")>>
query_cbfunc(a)    == <<Status, Num("infos"), Arr("info", "infos")>>
cred_cbfunc(a)     == IfSuccess(a, <<Val("byte_object"), Num("infos"), Arr("info", "infos")>>)
validate_cbfunc(a) == <<Status, Num("infos"), Arr("info", "infos")>>
_iofreg(a)         == <<Status>>
_grpcbfunc(a)      == <<Status, Val("size")>>

-----------------------------------------------------------------------------
(* What the client's callbacks tell the caller.  A receive completed for a *)
(* lost connection has an empty buffer.  "none": the caller is not called. *)

StatusOf(buf) == LET r == Unpack(<<Status>>, buf)
                 IN  IF r.rc = "SUCCESS" THEN r.status ELSE r.rc

\* The result of the unpack is reported, not the status it yields.
pub_wait_cbfunc(buf) == IF buf = <<>> THEN "UNREACH" ELSE Unpack(<<Status>>, buf).rc

wait_lookup_cbfunc(buf) ==
    CASE buf = <<>>                  -> "UNREACH"
      [] StatusOf(buf) # "SUCCESS"   -> StatusOf(buf)
      [] OTHER -> IF Unpack(<<Status, Num("infos"), Arr("pdata", "infos")>>, buf).rc = "SUCCESS"
                  THEN "SUCCESS" ELSE "none"

\* What follows the status may be absent.
Optional(steps, buf) ==
    LET rc == Unpack(<<Status>> \o steps, buf).rc
    IN  IF rc \in {"SUCCESS", "READ_PAST_END_OF_BUFFER"} THEN StatusOf(buf) ELSE rc

spawn_wait_cbfunc(buf)   == IF buf = <<>> THEN "UNREACH" ELSE Optional(<<Val("string")>>, buf)
connect_wait_cbfunc(buf) == IF buf = <<>> THEN "UNREACH" ELSE Optional(<<Val("byte_object")>>, buf)
fence_wait_cbfunc(buf)   == IF buf = <<>> THEN "UNREACH" ELSE StatusOf(buf)
grp_cbfunc(buf)          == IF buf = <<>> THEN "UNREACH" ELSE Optional(<<Val("size")>>, buf)

\* The callback of queries and allocations requires the results of a success.
query_reply_cbfunc(buf) ==
    IF StatusOf(buf) # "SUCCESS" THEN StatusOf(buf)
    ELSE Unpack(<<Status, Num("infos"), Arr("info", "infos")>>, buf).rc

control_cbfunc(buf) == IF buf = <<>> THEN "COMM_FAILURE" ELSE StatusOf(buf)
getcbfunc(buf)      == IF buf = <<>> THEN "COMM_FAILURE" ELSE StatusOf(buf)
valid_cbfunc(buf)   == IF buf = <<>> THEN "COMM_FAILURE" ELSE StatusOf(buf)
log_cbfunc(buf)     == StatusOf(buf)
msgcbfunc(buf)      == StatusOf(buf)
stdincbfunc(buf)    == IF buf = <<>> THEN "COMM_FAILURE" ELSE StatusOf(buf)
\* PMIx_Abort and PMIx_Commit wait for the reply and do not read it.
wait_cbfunc(buf)    == "SUCCESS"

-----------------------------------------------------------------------------
(* Calls *)

CONSTANTS Callers,     \* threads of the client, one call each
          Scenarios    \* what they call and what the environment may do

VARIABLES env,         \* the scenario of this behaviour
          connected,   \* pmix_globals.connected
          lock,        \* the holder of pmix_global_lock, or "free"
          caller,      \* caller[c]: where the caller is
          told,        \* told[c]: the statuses c was given, in order
          request,     \* request[c]: the message on its way to the server
          upcall,      \* upcall[c]: what the server made of it
          reply,       \* reply[c]: the message on its way to the client
          outcome,     \* outcome[c]: what the server or its host decided
          caddies,     \* the caddies the server holds
          cached       \* results of queries in the client's store

vars == <<env, connected, lock, caller, told, request, upcall, reply, outcome, caddies, cached>>

\* Both sides of each command: what is packed, the handler's unpacking, the
\* callback that replies, the client's callback.
Protocol ==
    [publish     |-> [pack |-> PMIx_Publish_nb,   unpack |-> pmix_server_publish],
     lookup      |-> [pack |-> PMIx_Lookup_nb,    unpack |-> pmix_server_lookup],
     unpublish   |-> [pack |-> PMIx_Unpublish_nb, unpack |-> pmix_server_unpublish],
     spawn       |-> [pack |-> PMIx_Spawn_nb,     unpack |-> pmix_server_spawn],
     query       |-> [pack |-> PMIx_Query_info_nb, unpack |-> pmix_server_query],
     alloc       |-> [pack |-> PMIx_Allocation_request_nb, unpack |-> pmix_server_alloc],
     job_ctrl    |-> [pack |-> PMIx_Job_control_nb, unpack |-> pmix_server_job_ctrl],
     monitor     |-> [pack |-> PMIx_Process_monitor_nb, unpack |-> pmix_server_monitor],
     get_cred    |-> [pack |-> PMIx_Get_credential, unpack |-> pmix_server_get_credential],
     validate    |-> [pack |-> PMIx_Validate_credential, unpack |-> pmix_server_validate_credential],
     log         |-> [pack |-> PMIx_Log_nb,       unpack |-> pmix_server_log],
     stdin       |-> [pack |-> PMIx_IOF_push,     unpack |-> pmix_server_iofstdin],
     abort       |-> [pack |-> PMIx_Abort,        unpack |-> pmix_server_abort],
     fence       |-> [pack |-> pack_fence,        unpack |-> pmix_server_fence],
     connect     |-> [pack |-> PMIx_Connect_nb,   unpack |-> pmix_server_connect],
     disconnect  |-> [pack |-> PMIx_Disconnect_nb, unpack |-> pmix_server_disconnect],
     iof_pull    |-> [pack |-> PMIx_IOF_pull,     unpack |-> pmix_server_iofreg],
     construct   |-> [pack |-> PMIx_Group_construct_nb, unpack |-> pmix_server_grpconstruct],
     destruct    |-> [pack |-> PMIx_Group_destruct_nb, unpack |-> pmix_server_grpdestruct],
     get         |-> [pack |-> _pack_get,         unpack |-> pmix_server_get],
     events      |-> [pack |-> _send_to_server,   unpack |-> pmix_server_register_events],
     notify      |-> [pack |-> notify_server_of_event, unpack |-> pmix_server_event_recvd_from_client]]

Replier(op, a) ==
    CASE op \in {"publish", "unpublish", "log", "stdin", "abort", "fence"} -> op_cbfunc(a)
      [] op = "lookup"   -> lookup_cbfunc(a)
      [] op = "spawn"    -> _spcb(a)
      [] op \in {"query", "alloc", "job_ctrl", "monitor"} -> query_cbfunc(a)
      [] op = "get_cred" -> cred_cbfunc(a)
      [] op = "validate" -> validate_cbfunc(a)

Tell(op, buf) ==
    CASE op \in {"publish", "unpublish"} -> pub_wait_cbfunc(buf)
      [] op = "lookup"   -> wait_lookup_cbfunc(buf)
      [] op = "spawn"    -> spawn_wait_cbfunc(buf)
      [] op \in {"query", "alloc"} -> query_reply_cbfunc(buf)
      [] op \in {"job_ctrl", "monitor"} -> control_cbfunc(buf)
      [] op = "get_cred" -> getcbfunc(buf)
      [] op = "validate" -> valid_cbfunc(buf)
      [] op = "log"      -> log_cbfunc(buf)
      [] op = "stdin"    -> stdincbfunc(buf)
      [] op = "abort"    -> wait_cbfunc(buf)

op(c) == env.ops[c]

-----------------------------------------------------------------------------
(* The client *)

\* A caller takes the lock before it looks at anything.
Enter(c) ==
    /\ c \in DOMAIN env.ops /\ caller[c] = "idle" /\ lock = "free"
    /\ caller' = [caller EXCEPT ![c] = "locked"] /\ lock' = c
    /\ UNCHANGED <<env, connected, told, request, upcall, reply, outcome, caddies, cached>>

\* It refuses a call it cannot serve, and answers some by itself: a query
\* whose results are all in the client's store, and which leaves with the
\* lock; a credential when there is no connection.
BadParam(c) == \/ op(c) = "query" /\ env.args.queries = 0
               \/ op(c) = "log" /\ env.args.infos = 0
NeedsServer(c) == op(c) \notin {"get_cred", "validate", "stdin"}

Check(c) ==
    /\ caller[c] = "locked"
    /\ UNCHANGED <<env, connected, request, upcall, reply, outcome, caddies, cached>>
    /\ \/ /\ BadParam(c)
          /\ caller' = [caller EXCEPT ![c] = "done"]
          /\ told' = [told EXCEPT ![c] = <<"BAD_PARAM">>] /\ lock' = "free"
       \/ /\ ~BadParam(c) /\ op(c) = "query" /\ cached
          /\ caller' = [caller EXCEPT ![c] = "local"]
          /\ UNCHANGED <<told, lock>>
       \/ /\ ~BadParam(c) /\ ~connected /\ ~(op(c) = "query" /\ cached)
          /\ op(c) # "stdin"
          /\ \E rc \in IF NeedsServer(c) THEN {"UNREACH"} ELSE {"SUCCESS", "ERROR"} :
                told' = [told EXCEPT ![c] = <<rc>>]
          /\ caller' = [caller EXCEPT ![c] = "done"] /\ lock' = "free"
       \/ /\ ~BadParam(c) /\ ~(op(c) = "query" /\ cached)
          /\ connected \/ op(c) = "stdin"
          /\ caller' = [caller EXCEPT ![c] = "checked"] /\ lock' = "free"
          /\ UNCHANGED told

\* _local_cbfunc: the event that returns what was found locally.
_local_cbfunc(c) ==
    /\ caller[c] = "local"
    /\ caller' = [caller EXCEPT ![c] = "done"]
    /\ told' = [told EXCEPT ![c] = Append(@, "SUCCESS")]
    /\ UNCHANGED <<env, connected, lock, request, upcall, reply, outcome, caddies, cached>>

\* The message is packed and queued without the lock.  One queued for a
\* connection that has meanwhile closed is dropped, and nothing completes.
Send(c) ==
    /\ caller[c] = "checked"
    /\ caller' = [caller EXCEPT ![c] = IF connected THEN "waiting" ELSE "dropped"]
    /\ request' = [request EXCEPT ![c] =
          IF connected THEN Pack(Protocol[op(c)].pack, env.args) ELSE @]
    /\ UNCHANGED <<env, connected, lock, told, upcall, reply, outcome, caddies, cached>>

Receive(c) ==
    /\ caller[c] = "waiting" /\ reply[c] # <<>>
    /\ caller' = [caller EXCEPT ![c] = IF Tell(op(c), reply[c]) = "none" THEN "dropped" ELSE "done"]
    /\ told' = [told EXCEPT ![c] = IF Tell(op(c), reply[c]) = "none" THEN @
                                   ELSE Append(@, Tell(op(c), reply[c]))]
    /\ reply' = [reply EXCEPT ![c] = <<>>]
    /\ cached' = (cached \/ (op(c) = "query" /\ Tell("query", reply[c]) = "SUCCESS" /\ env.results > 0))
    /\ UNCHANGED <<env, connected, lock, request, upcall, outcome, caddies>>

\* A lost connection completes every receive with an empty buffer.
LostConnection ==
    /\ connected /\ "lost" \in env.faults
    /\ connected' = FALSE
    /\ LET lost == {c \in Callers : caller[c] = "waiting"}
       IN  /\ caller' = [c \in Callers |-> IF c \in lost THEN "done" ELSE caller[c]]
           /\ told' = [c \in Callers |-> IF c \in lost THEN Append(told[c], Tell(op(c), <<>>)) ELSE told[c]]
    /\ request' = [c \in Callers |-> <<>>] /\ reply' = [c \in Callers |-> <<>>]
    /\ UNCHANGED <<env, lock, upcall, outcome, caddies, cached>>

-----------------------------------------------------------------------------
(* The server *)

\* What the host may say: work on it, refuse it, or that it is done already,
\* which the server passes on for any operation, as a success without data.
Verdicts(c) == env.verdicts

\* A caddy for the request and, but for abort, one for the operation.
Caddies(c) == {<<"server", c>>} \cup IF op(c) = "abort" THEN {} ELSE {<<"operation", c>>}

Answer(c, program, a) == [reply EXCEPT ![c] = IF connected THEN Pack(program, a) ELSE @]
Returned(status) == [status |-> status, infos |-> env.results]

\* server_switchyard, the operation's handler and the error reply of
\* pmix_server_message_handler.  What plog refuses keeps its caddy.
Serve(c) ==
    LET read == Unpack(Protocol[op(c)].unpack, Tail(request[c]))
        rcs  == CASE op(c) \notin env.supported /\ op(c) # "abort" -> {"NOT_SUPPORTED"}
                  [] read.rc # "SUCCESS"     -> {read.rc}
                  [] op(c) \notin env.supported -> {"NOT_SUPPORTED"}
                  [] OTHER                   -> Verdicts(c)
    IN  /\ request[c] # <<>>
        /\ request' = [request EXCEPT ![c] = <<>>]
        /\ \E rc \in rcs :
              IF rc = "SUCCESS"
              THEN /\ upcall' = [upcall EXCEPT ![c] = "host"]
                   /\ caddies' = caddies \cup Caddies(c)
                   /\ UNCHANGED <<reply, outcome>>
              ELSE LET status == IF rc = "OPERATION_SUCCEEDED" THEN "SUCCESS" ELSE rc
                   IN  /\ upcall' = [upcall EXCEPT ![c] =
                             IF rc = "OPERATION_SUCCEEDED" THEN "at_once" ELSE "answered"]
                       /\ outcome' = [outcome EXCEPT ![c] = status]
                       /\ reply' = Answer(c, message_handler_reply(Returned(status)), Returned(status))
                       /\ caddies' = IF op(c) = "log" /\ rc \in Verdicts(c)
                                     THEN caddies \cup {<<"operation", c>>} ELSE caddies
        /\ UNCHANGED <<env, connected, lock, caller, told, cached>>

\* The host calls back, from a thread of its own.  The callback of a spawn
\* only shifts to the progress thread.
HostCallback(c) ==
    /\ upcall[c] = "host"
    /\ \E status \in {"SUCCESS", "ERROR"} :
          /\ outcome' = [outcome EXCEPT ![c] = status]
          /\ IF op(c) = "spawn"
             THEN /\ upcall' = [upcall EXCEPT ![c] = "shifted"]
                  /\ caddies' = caddies \ {<<"operation", c>>}
                  /\ UNCHANGED reply
             ELSE /\ upcall' = [upcall EXCEPT ![c] = "answered"]
                  /\ caddies' = caddies \ Caddies(c)
                  /\ reply' = Answer(c, Replier(op(c), Returned(status)), Returned(status))
    /\ UNCHANGED <<env, connected, lock, caller, told, request, cached>>

SpawnReply(c) ==
    /\ upcall[c] = "shifted"
    /\ upcall' = [upcall EXCEPT ![c] = "answered"]
    /\ caddies' = caddies \ Caddies(c)
    /\ reply' = Answer(c, Replier("spawn", Returned(outcome[c])), Returned(outcome[c]))
    /\ UNCHANGED <<env, connected, lock, caller, told, request, outcome, cached>>

-----------------------------------------------------------------------------
Init ==
    /\ env \in Scenarios
    /\ connected = TRUE /\ lock = "free" /\ caddies = {} /\ cached = FALSE
    /\ caller = [c \in Callers |-> "idle"]
    /\ told = [c \in Callers |-> <<>>]
    /\ request = [c \in Callers |-> <<>>] /\ reply = [c \in Callers |-> <<>>]
    /\ upcall = [c \in Callers |-> "none"] /\ outcome = [c \in Callers |-> "none"]

ClientStep(c) == Enter(c) \/ Check(c) \/ _local_cbfunc(c) \/ Send(c) \/ Receive(c)
ServerStep(c) == Serve(c) \/ SpawnReply(c)

Next == \/ \E c \in Callers : ClientStep(c) \/ ServerStep(c) \/ HostCallback(c)
        \/ LostConnection

\* Threads run, events are processed, and a host answers what it accepted.
Fairness == \A c \in Callers : /\ SF_vars(Enter(c))
                               /\ WF_vars(Check(c) \/ _local_cbfunc(c) \/ Send(c) \/ Receive(c))
                               /\ WF_vars(ServerStep(c)) /\ WF_vars(HostCallback(c))
Spec == Init /\ [][Next]_vars /\ Fairness

-----------------------------------------------------------------------------
TypeOK ==
    /\ lock \in Callers \cup {"free"} /\ connected \in BOOLEAN /\ cached \in BOOLEAN
    /\ \A c \in Callers :
          /\ caller[c] \in {"idle", "locked", "local", "checked", "waiting", "dropped", "done"}
          /\ upcall[c] \in {"none", "host", "shifted", "answered", "at_once"}
          /\ \A i \in 1 .. Len(told[c]) : told[c][i] # "none"

SizedBy == [publish |-> "infos", iof_pull |-> "procs", query |-> "queries"]

\* Every handler of the server reads exactly what the client function of the
\* same command packed, whatever the counts of the caller's arrays.  A
\* publish of nothing and an IOF pull from nobody are packed as their handlers
\* cannot read them; PMIx_Query_info_nb refuses a query of nothing.
CommandsAgree ==
    (\A c \in Callers : caller[c] = "idle") =>
        \A o \in DOMAIN Protocol : ~(o \in {"publish", "iof_pull", "query"} /\ env.args[SizedBy[o]] = 0) =>
            LET r == Unpack(Protocol[o].unpack, Tail(Pack(Protocol[o].pack, env.args)))
            IN  r.rc = "SUCCESS" /\ r.buf = <<>>

\* The host said at once that an operation is done whose callback at the client
\* requires the data of a success.
Dataless(c) == upcall[c] = "at_once" /\ op(c) \in {"lookup", "query", "alloc"}

\* A caller gets one answer, and the one the server or its host decided,
\* through the handler, the reply's layout and the client's callback.  Not
\* so for publish, unpublish and abort, whose callbacks drop the status, nor for
\* a lookup, query or allocation that the host calls done at once: the query and
\* the allocation are then told that the reply is too short, and the lookup is not
\* told anything.
StatusTold ==
    \A c \in Callers :
        /\ caller[c] = "done" => Len(told[c]) = 1
        /\ (caller[c] = "done" /\ connected /\ outcome[c] # "none"
               /\ op(c) \notin {"publish", "unpublish", "abort"})
           => told[c] = IF Dataless(c) THEN <<"READ_PAST_END_OF_BUFFER">> ELSE <<outcome[c]>>
        /\ caller[c] = "dropped" => ~connected \/ (Dataless(c) /\ op(c) = "lookup")

\* An operation that the host calls done succeeds.  Does not hold for a query, an
\* allocation (of which src/test/simple/simptest.c:1193 says so) and a lookup.
SuccessTold ==
    \A c \in Callers : (upcall[c] = "at_once" /\ caller[c] = "done" /\ connected)
                       => told[c] = <<"SUCCESS">>

\* The server holds caddies exactly for the requests its host is working on;
\* only what pmix_plog refused keeps one.
CaddiesHeld ==
    \A c \in Callers :
        LET held == {x \in caddies : x[2] = c}
        IN  CASE upcall[c] = "host"    -> held = Caddies(c)
              [] upcall[c] = "shifted" -> held = {<<"server", c>>}
              [] OTHER -> held = {} \/ (op(c) = "log" /\ upcall[c] \in {"answered", "at_once"})

\* A request is read as it was packed, its caller told what was decided, and its
\* caddy held exactly as long as somebody works on it.
ServicesSound == TypeOK /\ CommandsAgree /\ StatusTold /\ CaddiesHeld

\* A caller that enters an API function leaves it with an answer, when the
\* connection lasts and no query is answered from the client's store, but for a
\* lookup that the host calls done at once.
CallsReturn ==
    \A c \in Callers : (c \in DOMAIN env.ops /\ env.faults = {}) =>
        <>(caller[c] = "done" \/ (caller[c] = "dropped" /\ Dataless(c)))

\* PMIx_Publish and PMIx_Unpublish say SUCCESS only of what the server
\* confirmed.
PublishConfirmed ==
    \A c \in DOMAIN env.ops : op(c) \in {"publish", "unpublish"} /\ told[c] = <<"SUCCESS">>
                             => outcome[c] = "SUCCESS"

\* The global lock is held only by a caller that is still in its function.
LockReleased == lock # "free" => caller[lock] # "done"
=============================================================================
