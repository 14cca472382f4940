---------------------------- MODULE DirectModex ----------------------------
(***************************************************************************)
(* Data of one process for another in the PMIx server: a client asks for   *)
(* the data of a target (get); the server answers from its store, waits    *)
(* for the target to commit if it is local, or asks the host, which asks   *)
(* the target's server (direct modex).  Hosts of other nodes ask for the   *)
(* data of local processes in turn.                                        *)
(*                                                                         *)
(* Requests for one target share a pmix_dmdx_local_t ("lcd").  Handlers    *)
(* run in the server's one progress thread; the host answers from threads  *)
(* of its own through dmdx_cbfunc, which only appends to `shifted'.        *)
(*                                                                         *)
(* The store is the one of the gds/hash component: the tables local and    *)
(* remote, and the job-level information of each nspace.  Of the data, only *)
(* whose they are is kept.                                                  *)
(*                                                                         *)
(* Sources: src/src/server/pmix_server_get.c, pmix_server.c,                *)
(* pmix_server_ops.c and src/src/mca/gds/hash/gds_hash.c.                   *)
(***************************************************************************)
EXTENDS Integers, Sequences, FiniteSets

CONSTANTS
    LocalProcs,     \* the processes on this node, [ns |-> n, rank |-> r]
    Registered0,    \* those registered before the first request
    Nspaces,        \* the nspaces of all targets
    Known0,         \* those the host registered before the first request
    WILDCARD,       \* PMIX_RANK_WILDCARD: the job-level information
    Targets,        \* what clients ask for, [ns |-> n, rank |-> r]
    HostTargets,    \* what other nodes ask for
    Immediate,      \* the values of PMIX_IMMEDIATE that clients pass
    Timed,          \* whether clients pass PMIX_TIMEOUT
    Scopes,         \* the scopes of the data that clients commit
    HostReplies,    \* the host's answers: "data", "nodata" or "error"
    MaxPending,     \* bound on the deferred requests for one target
    Lcds,           \* identities of pmix_dmdx_local_t objects
    HOST, NONE,
    Events          \* what else may happen, see EventKinds

EventKinds ==
    {"lost",        \* the connection to a client is lost
     "finalize",    \* a client finalizes while others may ask for its data
     "refuse"}      \* the host does not take a request

LocalOf(n) == {p \in LocalProcs : p.ns = n}

ASSUME DirectModexAssumption ==
    /\ IsFiniteSet(LocalProcs)
    /\ LocalProcs \subseteq [ns : Nspaces, rank : {p.rank : p \in LocalProcs}]
    /\ \A p \in LocalProcs : p.rank # WILDCARD
    /\ Registered0 \subseteq LocalProcs
    /\ Known0 \subseteq Nspaces
    /\ \A p \in Registered0 : p.ns \in Known0
    /\ \A t \in Targets \cup HostTargets : t.ns \in Nspaces
    /\ Immediate \subseteq BOOLEAN /\ Timed \subseteq BOOLEAN
    /\ Scopes \subseteq {"local", "remote", "global"}
    /\ HostReplies \subseteq {"data", "nodata", "error"}
    /\ MaxPending \in Nat
    /\ HOST \notin LocalProcs /\ NONE \notin Nspaces
    /\ Events \subseteq EventKinds

VARIABLES
    nspaces,        \* pmix_server_globals.nspaces: the known nspaces
    nlocalprocs,    \* of each nspace, as told by the host
    all_registered, \* of each nspace
    ranks,          \* the registered local processes, over all nspaces
    clients,        \* pmix_server_globals.clients: the connected ones
    gone,           \* processes that finalized or were lost
    committed,      \* modex_recvd, commit_cnt: those that have committed
    local,          \* processes with data in the table of local scope
    remote,         \* processes with data in the table of remote scope
    job_info,       \* per nspace, whose job-level information is stored
    local_reqs,     \* pmix_server_globals.local_reqs (at most one per target)
    lcd,            \* the pmix_dmdx_local_t objects
    asked,          \* how many answers the host owes per lcd
    shifted,        \* the host's answers queued for the progress thread
    remote_pnd,     \* pmix_server_globals.remote_pnd: per target, how many
    waiting,        \* client side: <<process, target>> of unanswered gets
    answers         \* the answers sent by the last step

vars == <<nspaces, nlocalprocs, all_registered, ranks, clients, gone, committed, local,
          remote, job_info, local_reqs, lcd, asked, shifted, remote_pnd, waiting, answers>>

nsvars == <<nspaces, nlocalprocs, all_registered, ranks, clients, gone>>
store == <<committed, local, remote, job_info>>
reqvars == <<local_reqs, lcd, asked, shifted>>

-----------------------------------------------------------------------------
(* Requests.  refs is the reference count of an lcd: one for the list and   *)
(* one for each request on it; at zero it is freed with its requests.  The *)
(* requests of an lcd are of different processes; `done' says that the     *)
(* caddy of the request, through which it is answered, has been freed.     *)

NoLcd == [proc |-> NONE, loc_reqs |-> {}, refs |-> 0]

Request(p, timer, done) == [proc |-> p, timer |-> timer, done |-> done]

Queued(l) == \E i \in DOMAIN shifted : shifted[i].lcd = l

Timers(l) == {r \in lcd[l].loc_reqs : r.timer}

\* Memory that nothing in use refers to, and so may be taken for a new lcd.
Unused(l) == l \notin local_reqs /\ asked[l] = 0 /\ ~Queued(l) /\ Timers(l) = {}

\* PMIX_RETAIN of an lcd, for a request on it.
Join(d, r) == [proc |-> d.proc, loc_reqs |-> d.loc_reqs \cup {r}, refs |-> d.refs + 1]

\* The lcd with these requests on it.
WithReqs(d, reqs) == [d EXCEPT !.loc_reqs = reqs]

\* PMIX_RELEASE of an lcd.
Release(d) == IF d.refs = 1 THEN NoLcd ELSE [d EXCEPT !.refs = @ - 1]

\* An answer made through the caddy of an answered request is stale.
Answer(p, t, status, stale) == [proc |-> p, target |-> t, status |-> status, stale |-> stale]

AnswersTo(l, status) ==
    {Answer(r.proc, lcd[l].proc, status, r.done) :
        r \in {r \in lcd[l].loc_reqs : r.proc \in clients \ gone}}

\* What clients still wait for when these answers have arrived.
StillWaiting(sent) == {w \in waiting : \A a \in sent : a.stale \/ w # <<a.proc, a.target>>}

\* _satisfy_request: is this one of our clients?
Here(t) == nlocalprocs[t.ns] > 0 /\ t \in ranks

\* _satisfy_request: can the data be had from the store?
CanSatisfy(t) ==
    IF t.rank = WILDCARD THEN job_info[t.ns] # NONE
    ELSE IF Here(t) THEN t \in clients \cap committed \cap local
    ELSE t \in remote

-----------------------------------------------------------------------------
Init ==
    /\ nspaces = Known0
    /\ nlocalprocs = [n \in Nspaces |-> IF n \in Known0 THEN Cardinality(LocalOf(n)) ELSE 0]
    /\ all_registered = [n \in Nspaces |-> n \in Known0 /\ LocalOf(n) \subseteq Registered0]
    /\ ranks = Registered0
    /\ clients = {} /\ gone = {}
    /\ committed = {} /\ local = {} /\ remote = {}
    /\ job_info = [n \in Nspaces |-> IF n \in Known0 THEN n ELSE NONE]
    /\ local_reqs = {}
    /\ lcd = [l \in Lcds |-> NoLcd]
    /\ asked = [l \in Lcds |-> 0]
    /\ shifted = <<>>
    /\ remote_pnd = [t \in HostTargets |-> 0]
    /\ waiting = {} /\ answers = {}

-----------------------------------------------------------------------------
(* pmix_server_get: a client's request.                                    *)

\* The server can tell at once whether it has the data.
Decidable(t) == t.ns \in nspaces /\ (t.rank = WILDCARD \/ all_registered[t.ns])

\* Answered at once: with the data, or, for job-level information of a known
\* nspace and for immediate requests, that they are not found.
GetNow(p, t, localonly) ==
    /\ \/ Decidable(t) /\ (t.rank = WILDCARD \/ CanSatisfy(t))
       \/ localonly
    /\ answers' = {Answer(p, t, IF Decidable(t) /\ CanSatisfy(t) THEN "SUCCESS" ELSE "NOT_FOUND", FALSE)}
    /\ UNCHANGED <<reqvars, waiting>>

\* create_local_tracker finds an lcd for the target.
GetJoins(p, t, timed) ==
    \E l \in local_reqs :
        /\ lcd[l].proc = t
        /\ lcd' = [lcd EXCEPT ![l] = Join(@, Request(p, timed, FALSE))]
        /\ waiting' = waiting \cup {<<p, t>>}
        /\ answers' = {}
        /\ UNCHANGED <<local_reqs, asked, shifted>>

\* Mutant: the host is only asked about unknown nspaces.
Mut_AskHost_unknown_only(t) == t.ns \notin nspaces

\* Only the host can provide the data, as far as the server can tell now.
AskHost(t) == t.ns \notin nspaces \/ (all_registered[t.ns] /\ ~Here(t))

\* create_local_tracker makes one; the host is asked if need be.
GetTracked(p, t, timed) ==
    \E l \in Lcds :
        /\ Unused(l)
        /\ \A k \in local_reqs : lcd[k].proc # t
        /\ local_reqs' = local_reqs \cup {l}
        /\ lcd' = [lcd EXCEPT ![l] = [proc |-> t, loc_reqs |-> {Request(p, timed, FALSE)}, refs |-> 2]]
        /\ asked' = [asked EXCEPT ![l] = IF AskHost(t) THEN 1 ELSE 0]
        /\ waiting' = waiting \cup {<<p, t>>}
        /\ answers' = {}
        /\ UNCHANGED shifted

\* The host does not take the request, which is answered by the switchyard; the
\* lcd leaves the list, its request keeps it alive.  For a known nspace the
\* timer has been started by then.
GetRefused(p, t, timed) ==
    \E l \in Lcds :
        /\ "refuse" \in Events
        /\ AskHost(t)
        /\ Unused(l)
        /\ \A k \in local_reqs : lcd[k].proc # t
        /\ lcd' = [lcd EXCEPT ![l] =
              [proc |-> t, refs |-> 1, loc_reqs |-> {Request(p, timed /\ t.ns \in nspaces, TRUE)}]]
        /\ answers' = {Answer(p, t, "NOT_FOUND", FALSE)}
        /\ UNCHANGED <<local_reqs, asked, shifted, waiting>>

pmix_server_get(p, t, localonly, timed) ==
    /\ p \in clients \ gone
    /\ <<p, t>> \notin waiting
    /\ \/ GetNow(p, t, localonly)
       \/ /\ ~localonly
          /\ ~(Decidable(t) /\ (t.rank = WILDCARD \/ CanSatisfy(t)))
          /\ GetJoins(p, t, timed) \/ GetTracked(p, t, timed) \/ GetRefused(p, t, timed)
    /\ UNCHANGED <<nsvars, store, remote_pnd>>

\* Mutant: the request is not released, and keeps its reference.
Mut_get_timeout_no_release(l, r) ==
    /\ r \in Timers(l)
    /\ answers' = {a \in AnswersTo(l, "TIMEOUT") : a.proc = r.proc}
    /\ waiting' = StillWaiting(answers')
    /\ lcd' = [lcd EXCEPT ![l].loc_reqs = @ \ {r}]
    /\ UNCHANGED <<nsvars, store, local_reqs, asked, shifted, remote_pnd>>

\* get_timeout: the timer of a request, which is not stopped when the request
\* is answered.
get_timeout(l, r) ==
    /\ r \in Timers(l)
    /\ answers' = {a \in AnswersTo(l, "TIMEOUT") : a.proc = r.proc}
    /\ waiting' = StillWaiting(answers')
    /\ lcd' = [lcd EXCEPT ![l] = Release(WithReqs(@, @.loc_reqs \ {r}))]
    /\ UNCHANGED <<nsvars, store, local_reqs, asked, shifted, remote_pnd>>

-----------------------------------------------------------------------------
(* Answers.                                                                *)

\* Mutant: the lcd stays in the list.
Mut_pending_resolve_listed(l, status) ==
    /\ answers' = AnswersTo(l, status)
    /\ waiting' = StillWaiting(answers')
    /\ lcd' = [lcd EXCEPT ![l].loc_reqs = {Request(r.proc, r.timer, TRUE) : r \in @}]
    /\ UNCHANGED local_reqs

\* pmix_pending_resolve, once the data are stored: every request on the lcd is
\* answered, and the list's reference dropped.
pmix_pending_resolve(l, status) ==
    \E t \in {lcd[l].proc} :
        /\ answers' = AnswersTo(l, IF status = "SUCCESS" /\ ~CanSatisfy(t)' THEN "NOT_FOUND" ELSE status)
        /\ waiting' = StillWaiting(answers')
        /\ lcd' = [lcd EXCEPT ![l] = Release(WithReqs(@,
                      {Request(r.proc, r.timer, TRUE) : r \in @.loc_reqs}))]
        /\ local_reqs' = local_reqs \ {l}

\* The host answers without data when it has registered the target's nspace.
Answerable(l, reply) ==
    reply = "nodata" => lcd[l] # NoLcd /\ job_info[lcd[l].proc.ns] # NONE

\* dmdx_cbfunc: the host answers.
dmdx_cbfunc(l, reply) ==
    /\ asked[l] > 0
    /\ Answerable(l, reply)
    /\ asked' = [asked EXCEPT ![l] = @ - 1]
    /\ shifted' = Append(shifted, [lcd |-> l, reply |-> reply])
    /\ answers' = {}
    /\ UNCHANGED <<nsvars, store, local_reqs, lcd, remote_pnd, waiting>>

\* Without data, the job-level information of a requester's nspace is taken to
\* be that of the target.
Transferred(l) == {r.proc.ns : r \in lcd[l].loc_reqs}

\* _process_dmdx_reply: the nspace of the target becomes known, and the data
\* are stored if there is still someone who asked for them.
_process_dmdx_reply ==
    /\ shifted # <<>>
    /\ LET l == Head(shifted).lcd
           t == lcd[l].proc
           reply == Head(shifted).reply
           stored == reply = "data" /\ lcd[l].loc_reqs # {}
       IN  /\ lcd[l].refs > 0
           /\ nspaces' = nspaces \cup {t.ns}
           /\ remote' = IF stored /\ t.rank # WILDCARD THEN remote \cup {t} ELSE remote
           /\ \/ /\ t.rank = WILDCARD /\ stored
                 /\ job_info' = [job_info EXCEPT ![t.ns] = t.ns]
              \/ /\ t.rank = WILDCARD /\ reply = "nodata"
                 /\ \E n \in Transferred(l) : job_info' = [job_info EXCEPT ![t.ns] = job_info[n]]
              \/ /\ ~(t.rank = WILDCARD /\ reply \in {"data", "nodata"} /\ lcd[l].loc_reqs # {})
                 /\ UNCHANGED job_info
           /\ UNCHANGED <<nlocalprocs, all_registered, ranks, clients, gone, committed, local>>
           /\ pmix_pending_resolve(l, IF reply = "error" THEN "ERROR" ELSE "SUCCESS")
    /\ shifted' = Tail(shifted)
    /\ UNCHANGED <<asked, remote_pnd>>

\* pmix_server_commit: the data are stored by scope, deferred requests of other
\* nodes answered, and the requests of local processes resolved.
pmix_server_commit(p, scope) ==
    /\ p \in clients \ gone
    /\ committed' = committed \cup {p}
    /\ local' = IF scope \in {"local", "global"} THEN local \cup {p} ELSE local
    /\ remote' = IF scope \in {"remote", "global"} THEN remote \cup {p} ELSE remote
    /\ remote_pnd' = [t \in HostTargets |-> IF t = p THEN 0 ELSE remote_pnd[t]]
    /\ UNCHANGED <<nsvars, job_info, asked, shifted>>
    /\ \/ \E l \in local_reqs :
             /\ lcd[l].proc = p
             /\ pmix_pending_resolve(l, "SUCCESS")
       \/ /\ \A l \in local_reqs : lcd[l].proc # p
          /\ answers' = {}
          /\ UNCHANGED <<local_reqs, lcd, waiting>>

-----------------------------------------------------------------------------
(* Requests of other nodes.                                                *)

\* _dmodex_req: what cannot be answered yet is deferred.
Deferred(t) ==
    \/ t.ns \notin nspaces
    \/ t.rank # WILDCARD /\ ~(t \in ranks /\ t \in committed)

_dmodex_req(t) ==
    /\ \/ /\ Deferred(t)
          /\ remote_pnd[t] < MaxPending
          /\ remote_pnd' = [remote_pnd EXCEPT ![t] = @ + 1]
          /\ answers' = {}
       \/ /\ ~Deferred(t)
          /\ LET found == IF t.rank = WILDCARD THEN job_info[t.ns] # NONE ELSE t \in remote
             IN  answers' = {Answer(HOST, t, IF found THEN "SUCCESS" ELSE "NOT_FOUND", FALSE)}
          /\ UNCHANGED remote_pnd
    /\ UNCHANGED <<nsvars, store, reqvars, waiting>>

-----------------------------------------------------------------------------
(* Registration, connection and loss of clients.                           *)

\* _register_nspace: once for each nspace.
_register_nspace(n) ==
    /\ n \notin nspaces \/ (~all_registered[n] /\ nlocalprocs[n] = 0)
    /\ nspaces' = nspaces \cup {n}
    /\ nlocalprocs' = [nlocalprocs EXCEPT ![n] = Cardinality(LocalOf(n))]
    /\ all_registered' = [all_registered EXCEPT ![n] = LocalOf(n) = {}]
    /\ job_info' = [job_info EXCEPT ![n] = n]
    /\ answers' = {}
    /\ UNCHANGED <<ranks, clients, gone, committed, local, remote, reqvars, remote_pnd, waiting>>

\* Mutants: the host is not asked; the host is asked for local processes too.
Mut_pending_nspace_not_asked(n, registered) ==
    answers' = {} /\ UNCHANGED <<asked, waiting, lcd, local_reqs>>

\* pmix_pending_nspace_requests: the requests for processes that turn out to be
\* on other nodes are passed to the host; those it refuses are answered.
pmix_pending_nspace_requests(n, registered) ==
    LET away == {l \in local_reqs : lcd[l].proc.ns = n /\ lcd[l].proc \notin registered}
    IN  \E refused \in SUBSET away :
          /\ refused # {} => "refuse" \in Events
          /\ asked' = [l \in Lcds |-> IF l \in away \ refused THEN asked[l] + 1 ELSE asked[l]]
          /\ answers' = UNION {AnswersTo(l, "NOT_FOUND") : l \in refused}
          /\ waiting' = StillWaiting(answers')
          /\ lcd' = [l \in Lcds |-> IF l \in refused THEN NoLcd ELSE lcd[l]]
          /\ local_reqs' = local_reqs \ refused

\* _register_client, after the client's nspace.
_register_client(p) ==
    LET registered == ranks \cup {p}
        Everyone == nlocalprocs[p.ns] = Cardinality({q \in registered : q.ns = p.ns})
    IN  /\ p \notin ranks \cup gone
        /\ p.ns \in nspaces /\ nlocalprocs[p.ns] > 0
        /\ ranks' = registered
        /\ \/ /\ Everyone
              /\ all_registered' = [all_registered EXCEPT ![p.ns] = TRUE]
              /\ pmix_pending_nspace_requests(p.ns, registered)
           \/ /\ ~Everyone
              /\ answers' = {}
              /\ UNCHANGED <<all_registered, local_reqs, lcd, asked, waiting>>
        /\ UNCHANGED <<nspaces, nlocalprocs, clients, gone, store, shifted, remote_pnd>>

\* The connection of a registered client is accepted (peerid is set).
Connect(p) ==
    /\ p \in ranks \ (clients \cup gone)
    /\ clients' = clients \cup {p}
    /\ answers' = {}
    /\ UNCHANGED <<nspaces, nlocalprocs, all_registered, ranks, gone, store, reqvars, remote_pnd, waiting>>

\* pmix_server_purge_events: the requests that a process is the target of leave
\* the list.
Involves(p, t) == t.ns = p.ns /\ t.rank \in {p.rank, WILDCARD}

pmix_server_purge_events(p) ==
    LET purged == {l \in local_reqs : Involves(p, lcd[l].proc)}
    IN  /\ local_reqs' = local_reqs \ purged
        /\ lcd' = [l \in Lcds |-> IF l \in purged THEN Release(lcd[l]) ELSE lcd[l]]

\* PMIX_FINALIZE_CMD: the client calls nothing more.
Finalize(p) ==
    /\ "finalize" \in Events
    /\ p \in clients \ gone
    /\ pmix_server_purge_events(p)
    /\ gone' = gone \cup {p}
    /\ waiting' = {w \in waiting : w[1] # p}
    /\ answers' = {}
    /\ UNCHANGED <<nspaces, nlocalprocs, all_registered, ranks, clients, store, asked, shifted,
                   remote_pnd>>

\* pmix_ptl_base_lost_connection, of a client that finalized or failed.
pmix_ptl_base_lost_connection(p) ==
    /\ p \in clients
    /\ p \in gone \/ "lost" \in Events
    /\ pmix_server_purge_events(p)
    /\ ranks' = ranks \ {p}
    /\ nlocalprocs' = [nlocalprocs EXCEPT ![p.ns] = @ - 1]
    /\ clients' = clients \ {p}
    /\ committed' = committed \ {p}
    /\ gone' = gone \cup {p}
    /\ waiting' = {w \in waiting : w[1] # p}
    /\ answers' = {}
    /\ UNCHANGED <<nspaces, all_registered, local, remote, job_info, asked, shifted, remote_pnd>>

-----------------------------------------------------------------------------
Next ==
    \/ \E p \in LocalProcs, t \in Targets, i \in Immediate, m \in Timed : pmix_server_get(p, t, i, m)
    \/ \E p \in LocalProcs, s \in Scopes : pmix_server_commit(p, s)
    \/ \E l \in Lcds : \E r \in lcd[l].loc_reqs : get_timeout(l, r)
    \/ \E l \in Lcds, h \in HostReplies : dmdx_cbfunc(l, h)
    \/ _process_dmdx_reply
    \/ \E t \in HostTargets : _dmodex_req(t)
    \/ \E n \in Nspaces : _register_nspace(n)
    \/ \E p \in LocalProcs : \/ _register_client(p)
                             \/ Connect(p)
                             \/ Finalize(p)
                             \/ pmix_ptl_base_lost_connection(p)

Spec == Init /\ [][Next]_vars

\* Fairness.  The progress thread runs what is queued, the host answers what it
\* accepted and registers and starts all the clients it announced, and every
\* client commits once.
FirstCommit(p) == p \notin committed /\ \E s \in Scopes : pmix_server_commit(p, s)

Fairness ==
    /\ WF_vars(_process_dmdx_reply)
    /\ \A l \in Lcds : WF_vars(\E h \in HostReplies : dmdx_cbfunc(l, h))
    /\ \A p \in LocalProcs : WF_vars(_register_client(p)) /\ WF_vars(Connect(p)) /\ WF_vars(FirstCommit(p))

FairSpec == Spec /\ Fairness

-----------------------------------------------------------------------------
(* Properties                                                              *)

Requests == [proc : LocalProcs, timer : BOOLEAN, done : BOOLEAN]

\* Types of the variables.
TypeOK ==
    /\ nspaces \subseteq Nspaces
    /\ nlocalprocs \in [Nspaces -> Nat]
    /\ all_registered \in [Nspaces -> BOOLEAN]
    /\ ranks \subseteq LocalProcs /\ clients \subseteq ranks
    /\ gone \subseteq LocalProcs /\ committed \subseteq clients
    /\ local \subseteq LocalProcs
    /\ remote \subseteq LocalProcs \cup Targets
    /\ job_info \in [Nspaces -> Nspaces \cup {NONE}]
    /\ local_reqs \subseteq Lcds
    /\ lcd \in [Lcds -> [proc : Targets \cup {NONE}, loc_reqs : SUBSET Requests, refs : Nat]]
    /\ asked \in [Lcds -> Nat]
    /\ shifted \in Seq([lcd : Lcds, reply : HostReplies])
    /\ remote_pnd \in [HostTargets -> 0 .. MaxPending]
    /\ waiting \subseteq LocalProcs \X Targets
    /\ \A a \in answers : a.proc \in LocalProcs \cup {HOST} /\ a.target \in Targets \cup HostTargets

\* A client whose get was neither answered nor given up with its target (see
\* pmix_server_purge_events) has a request on the one listed lcd of the target,
\* or on one in the hands of the host, and its caddy is still there: whoever
\* resolves the lcd finds the client.
RequestersTracked ==
    \A w \in waiting :
        \/ \E p \in gone : Involves(p, w[2])
        \/ \E l \in Lcds :
              /\ l \in local_reqs \/ asked[l] > 0 \/ Queued(l)
              /\ lcd[l].proc = w[2]
              /\ \E r \in lcd[l].loc_reqs : r.proc = w[1] /\ ~r.done

\* Somebody will resolve each listed request: the host, which was asked; or the
\* commit of a local target that has not committed; or the registration of the
\* target's job, which is not complete.  A request that none of them drives
\* would wait for ever.
RequestsDriven ==
    \A l \in local_reqs : LET t == lcd[l].proc IN
        \/ asked[l] > 0 \/ Queued(l)
        \/ t \in ranks \ committed
        \/ ~all_registered[t.ns] /\ ~(LocalOf(t.ns) \subseteq ranks \cup gone)

\* While the host works on an lcd, or its answer is queued, the lcd is alive and
\* in the list, and the host was asked once: _process_dmdx_reply and
\* pmix_pending_resolve take the lcd off the list and answer its requests
\* without looking.
HeldListed ==
    \A l \in Lcds :
        /\ asked[l] > 0 \/ Queued(l) => l \in local_reqs /\ lcd[l].refs > 0
        /\ asked[l] + Cardinality({i \in DOMAIN shifted : shifted[i].lcd = l}) <= 1

\* A listed lcd has one reference for the list and one for each request, so it
\* is freed neither while it is listed nor while a request's timer can fire.
ReferencesCounted ==
    \A l \in local_reqs : lcd[l].refs = 1 + Cardinality(lcd[l].loc_reqs)

\* No answer is made through the caddy of a request that was answered before
\* (get_cbfunc frees it).
NoStaleAnswer == \A a \in answers : ~a.stale

\* Requests of other nodes are deferred only as long as the reason for it lasts:
\* pmix_server_commit answers all that it makes answerable.
DeferredNeeded == \A t \in HostTargets : remote_pnd[t] > 0 => Deferred(t)

\* What is stored as the job-level information of an nspace is its own.
OwnJobInfo == \A n \in Nspaces : job_info[n] \in {n, NONE}

\* The setting of RequestsSound and NoStaleAnswer: all nspaces are known from the
\* start, an nspace with a process registered late has no other one, no client
\* times out, leaves or is lost, and data are committed for local use.
Quiet ==
    /\ Known0 = Nspaces
    /\ \A p, q \in LocalProcs : p.ns = q.ns /\ p # q => p \in Registered0
    /\ Timed \subseteq {FALSE} /\ Events = {}
    /\ Scopes \subseteq {"local", "global"}

\* No request is forgotten: it is listed with its client and its references,
\* somebody will resolve it, and requests of other nodes wait no longer than needed.
RequestsSound == TypeOK /\ RequestersTracked /\ RequestsDriven /\ HeldListed /\ DeferredNeeded

\* The same where clients time out, leave or are lost and the host refuses.
RequestsCounted == RequestersTracked /\ ReferencesCounted

\* Every get is answered ("always execute the callback to avoid having the
\* client hang", _process_dmdx_reply).
EveryGetAnswered ==
    \A p \in LocalProcs, t \in Targets : <<p, t>> \in waiting ~> <<p, t>> \notin waiting

=============================================================================
