----------------------------- MODULE HashStore -----------------------------
(***************************************************************************)
(* The gds/hash data store of a server and of its clients: one tracker per   *)
(* namespace with an internal, a local and a remote table, each a list of    *)
(* key-values per rank (src/util/hash.c).  The server caches the job info    *)
(* its host registers, packs it for each client that connects, stores what   *)
(* procs put and what fences return; clients store what they receive.        *)
(*                                                                         *)
(* The hash table below is HashTable's, taken here as the map it implements. *)
(* Compression of long strings is left out, and so are failed allocations.   *)
(***************************************************************************)
EXTENDS Integers, Sequences, FiniteSets, SequencesExt, TLC

CONSTANTS
  Nspaces, Ranks, Wild,      \* Wild is PMIX_RANK_WILDCARD
  Keys,                      \* what procs put
  Registrations,             \* what a host registers: namespace, info array, local procs
  Puts,                      \* calls of hash_store: process, nspace, rank, scope, key-value
  NodeMaps,                  \* map blobs an older server sends
  GData,                     \* pmix_server_globals.gdata
  Clients, NspaceOf, RankOf, \* the local clients
  Fences,                    \* fences: the participants' namespaces and the envelopes returned
  NoProc,                    \* lookup_proc returns NULL
  MaxOps                     \* bound: operations in a behaviour

Tables == {"internal", "local", "remote"}
Scopes == {"UNDEF", "LOCAL", "REMOTE", "GLOBAL", "INTERNAL"}
NoNspace == [gen |-> 0, nlocalprocs |-> 0, nprocs |-> 0, ndelivered |-> 0, jobbkt |-> <<>>]

VARIABLES
  trks,      \* myhashes of the server and of each client: sequences of trackers
  nspaces,   \* pmix_server_globals.nspaces: the object of each registered namespace
  gens,      \* namespace objects created so far; gen tells a new one from an old one
  inbox,     \* job info on its way to a client
  last,      \* ghost: the last value put under <<process, nspace, table, rank, key>>
  told,      \* ghost: clients that stored the job info of the present registration
  regs, maps,\* ghost: registrations, and node maps, of each namespace
  mixed,     \* ghost: namespaces whose data a fence filed under the wrong one
  ops

ghosts == <<last, told, regs, maps, mixed>>
vars == <<trks, nspaces, gens, inbox, ghosts, ops>>

Server == "server"
Empty == [r \in Ranks \cup {Wild} |-> NoProc]
\* htcon
NewTracker(ns, nptr) == [ns |-> ns, nptr |-> nptr, tab |-> [t \in Tables |-> Empty], gdata |-> FALSE]

Init ==
  /\ trks = [p \in Clients \cup {Server} |-> <<>>]
  /\ nspaces = [ns \in Nspaces |-> NoNspace] /\ gens = 0
  /\ inbox = [c \in Clients |-> <<>>]
  /\ last = <<>> /\ told = {}
  /\ regs = [ns \in Nspaces |-> 0] /\ maps = [ns \in Nspaces |-> 0] /\ mixed = {}
  /\ ops = 0

KV(k, v) == [key |-> k, value |-> v]

\* ---- src/util/hash.c ----------------------------------------------------------

\* lookup_keyval: the first of the list.
lookup_keyval(data, key) == SelectInSeq(data, LAMBDA kv : kv.key = key)

\* pmix_hash_store: the current value of the key is removed, the new one appended.
pmix_hash_store(table, rank, kin) ==
  LET data == IF table[rank] = NoProc THEN <<>> ELSE table[rank]
      hv == lookup_keyval(data, kin.key)
  IN [table EXCEPT ![rank] = Append(IF hv # 0 THEN RemoveAt(data, hv) ELSE data, kin)]
StoreAll(table, rank, kvs) == FoldLeft(LAMBDA t, kv : pmix_hash_store(t, rank, kv), table, kvs)

\* pmix_hash_fetch of one key, or of all of them.
pmix_hash_fetch(table, rank, key) ==
  IF table[rank] = NoProc THEN [rc |-> "PROC_ENTRY_NOT_FOUND"]
  ELSE LET hv == lookup_keyval(table[rank], key) IN
       IF hv = 0 THEN [rc |-> "NOT_FOUND"] ELSE [rc |-> "SUCCESS", value |-> table[rank][hv].value]
pmix_hash_fetch_all(table, rank) ==
  IF table[rank] = NoProc THEN [rc |-> "PROC_ENTRY_NOT_FOUND"]
  ELSE [rc |-> "SUCCESS", value |-> table[rank]]

\* ---- trackers -----------------------------------------------------------------

Tracker(list, ns) == SelectInSeq(list, LAMBDA t : t.ns = ns)
Found(list, ns, nptr) == IF Tracker(list, ns) # 0 THEN list ELSE Append(list, NewTracker(ns, nptr))
Put(list, ns, tab, rank, kvs) ==
  [list EXCEPT ![Tracker(list, ns)].tab[tab] = StoreAll(@, rank, kvs)]

\* ---- job info at the server ------------------------------------------------------

Peers(ranks) == KV("LOCAL_PEERS", ranks)
\* store_map: for every node its list of local peers, for every proc its node.  Where
\* the node has a list already, the code rewrites the copy that pmix_hash_fetch made.
StoreNode(table, node, ranks) ==
  LET old == pmix_hash_fetch(table, Wild, node)
      had == old.rc = "SUCCESS"
      kept == had /\ \E i \in DOMAIN old.value : old.value[i].key = "LOCAL_PEERS"
      t1 == IF kept THEN table
            ELSE pmix_hash_store(table, Wild, KV(node, IF had THEN Append(old.value, Peers(ranks))
                                                       ELSE <<Peers(ranks)>>))
  IN FoldLeft(LAMBDA t, r : pmix_hash_store(t, r, KV("HOSTNAME", <<node>>)), t1, ranks)
store_map(table, nodes, ppn) ==
  IF Len(nodes) # Len(ppn) THEN [table |-> table, rc |-> "BAD_PARAM"]
  ELSE [table |-> pmix_hash_store(
                    FoldLeft(LAMBDA t, n : StoreNode(t, nodes[n], ppn[n]), table, [n \in 1..Len(nodes) |-> n]),
                    Wild, KV("NODE_LIST", nodes)),
        rc |-> "SUCCESS"]

\* One entry of the info array.  s: the table, the nodes and procs seen so far, the
\* job size and the status; after an error the rest is skipped.
CacheOne(s, info) ==
  IF s.rc # "SUCCESS" THEN s
  ELSE CASE info.kind \in {"NODE_MAP", "PROC_MAP"} ->
              LET t1 == IF info.kind = "NODE_MAP"
                        THEN pmix_hash_store(s.table, Wild, KV("NODE_MAP", info.list)) ELSE s.table
                  nodes == IF info.kind = "NODE_MAP" THEN info.list ELSE s.nodes
                  procs == IF info.kind = "PROC_MAP" THEN info.list ELSE s.procs
                  map == store_map(t1, nodes, procs)
                  both == nodes # <<>> /\ procs # <<>>
              IN [s EXCEPT !.nodes = nodes, !.procs = procs,
                           !.table = IF both THEN map.table ELSE t1,
                           !.rc = IF both THEN map.rc ELSE @]
         [] info.kind = "PROC_DATA" ->
              [s EXCEPT !.table = StoreAll(@, info.rank, info.kvs)]
         [] info.kind = "JOB_SIZE" ->
              [s EXCEPT !.table = pmix_hash_store(@, Wild, KV("JOB_SIZE", info.value)), !.nprocs = info.value]
         [] OTHER -> [s EXCEPT !.table = pmix_hash_store(@, Wild, KV(info.key, info.value))]

\* hash_cache_job_info, called by _register_nspace for the namespace object ns.
hash_cache_job_info(list, ns, nptr, infos) ==
  LET trk == Found(list, ns, nptr.gen)
      n == Tracker(trk, ns)
      s == FoldLeft(CacheOne, [table |-> trk[n].tab["internal"], nodes |-> <<>>, procs |-> <<>>,
                               nprocs |-> nptr.nprocs, rc |-> "SUCCESS"], infos)
      add == s.rc = "SUCCESS" /\ ~trk[n].gdata
  IN IF infos = <<>> THEN [list |-> trk, nprocs |-> nptr.nprocs]
     ELSE [list |-> [trk EXCEPT ![n].tab["internal"] = IF add THEN StoreAll(s.table, Wild, GData) ELSE s.table,
                                ![n].gdata = @ \/ add],
           nprocs |-> s.nprocs]

Others(ns) == {c \in Clients : NspaceOf[c] # ns}

_register_nspace(ns, infos, nlocal) ==
  LET old == nspaces[ns]
      new == [old EXCEPT !.gen = IF @ = 0 THEN gens + 1 ELSE @, !.nlocalprocs = nlocal]
      done == hash_cache_job_info(trks[Server], ns, new, infos)
  IN /\ nspaces' = [nspaces EXCEPT ![ns] = [new EXCEPT !.nprocs = done.nprocs]]
     /\ gens' = IF old.gen = 0 THEN gens + 1 ELSE gens
     /\ trks' = [trks EXCEPT ![Server] = done.list]
     /\ maps' = [maps EXCEPT ![ns] = @ + Cardinality({i \in DOMAIN infos : infos[i].kind = "PROC_MAP"})]
     /\ regs' = [regs EXCEPT ![ns] = @ + 1] /\ told' = told \cap Others(ns)
     /\ UNCHANGED <<inbox, last, mixed>>

\* ---- job info for a client ---------------------------------------------------------

\* register_info: the job level first, then a blob per rank; a rank below nprocs that
\* has no data stops it with an error.
Has(table, r) == table[r] # NoProc
\* Mutant: the last rank of the job is left out.
Mut_register_info(list, ns, nprocs) ==
  LET n == Tracker(list, ns)
      table == list[n].tab["internal"]
      below == {r \in Ranks : r < nprocs - 1}
  IN IF n = 0 THEN [rc |-> "INVALID_NAMESPACE"]
     ELSE IF ~Has(table, Wild) THEN [rc |-> "PROC_ENTRY_NOT_FOUND"]
     ELSE [rc |-> "SUCCESS",
           msg |-> [i \in DOMAIN table[Wild] |-> [blob |-> "job", kv |-> table[Wild][i]]] \o
                   SetToSeq({[blob |-> "proc", rank |-> r, kvs |-> table[r]] : r \in below})]
register_info(list, ns, nprocs) ==
  LET n == Tracker(list, ns)
      table == list[n].tab["internal"]
      below == {r \in Ranks : r < nprocs}
  IN IF n = 0 THEN [rc |-> "INVALID_NAMESPACE"]
     ELSE IF ~Has(table, Wild) THEN [rc |-> "PROC_ENTRY_NOT_FOUND"]
     ELSE IF table[Wild] = <<>> THEN [rc |-> "NOT_FOUND"]
     ELSE IF \E r \in below : ~Has(table, r) THEN [rc |-> "PROC_ENTRY_NOT_FOUND"]
     ELSE [rc |-> "SUCCESS",
           msg |-> [i \in DOMAIN table[Wild] |-> [blob |-> "job", kv |-> table[Wild][i]]] \o
                   SetToSeq({[blob |-> "proc", rank |-> r, kvs |-> table[r]] : r \in below})]

\* hash_register_job_info for a client that sent PMIX_REQ_CMD, and the switchyard's
\* count of deliveries.  The packed form is kept for the other local clients.
hash_register_job_info(c) ==
  LET ns == NspaceOf[c]
      nptr == nspaces[ns]
      byObject == \E i \in DOMAIN trks[Server] : trks[Server][i].nptr = nptr.gen
      list == IF byObject THEN trks[Server] ELSE Append(trks[Server], NewTracker(ns, nptr.gen))
      reply == register_info(list, ns, nptr.nprocs)
  IN /\ nptr.gen # 0 /\ inbox[c] = <<>>
     /\ IF nptr.jobbkt # <<>>
        THEN /\ inbox' = [inbox EXCEPT ![c] = nptr.jobbkt]
             /\ nspaces' = [nspaces EXCEPT ![ns].jobbkt = IF nptr.ndelivered = nptr.nlocalprocs THEN <<>> ELSE @,
                                           ![ns].ndelivered = @ + 1]
             /\ UNCHANGED trks
        ELSE /\ trks' = [trks EXCEPT ![Server] = list]
             /\ IF reply.rc = "SUCCESS"
                THEN /\ inbox' = [inbox EXCEPT ![c] = reply.msg]
                     /\ nspaces' = [nspaces EXCEPT ![ns].jobbkt = IF nptr.nlocalprocs > 1 THEN reply.msg ELSE <<>>,
                                                   ![ns].ndelivered = @ + 1]
                ELSE UNCHANGED <<inbox, nspaces>>
     /\ UNCHANGED <<gens, ghosts>>

\* ---- job info at the client --------------------------------------------------------

\* A map blob: here an existing list of the node gets one more entry.
StoreMapBlob(table, map) ==
  LET One(t, n) ==
        LET old == pmix_hash_fetch(t, Wild, map.nodes[n])
            t1 == pmix_hash_store(t, Wild, KV(map.nodes[n],
                    IF old.rc = "SUCCESS" THEN Append(old.value, Peers(map.procs[n])) ELSE <<Peers(map.procs[n])>>))
        IN FoldLeft(LAMBDA u, r : pmix_hash_store(u, r, KV("HOSTNAME", <<map.nodes[n]>>)), t1, map.procs[n])
  IN pmix_hash_store(FoldLeft(One, table, [n \in 1..Len(map.nodes) |-> n]),
                     Wild, KV("NODE_LIST", map.nodes))
StoreItem(table, item) ==
  CASE item.blob = "proc" -> StoreAll(table, item.rank, item.kvs)
    [] item.blob = "map" -> StoreMapBlob(table, item)
    [] OTHER -> pmix_hash_store(table, Wild, item.kv)

\* The ghost: entries of a plain map.
Recorded(p, ns, tabs, rank, kvs) ==
  LET fresh == {<<p, ns, t, rank, kvs[i].key>> : t \in tabs, i \in DOMAIN kvs}
      Newest(k) == kvs[SelectLastInSeq(kvs, LAMBDA kv : kv.key = k)].value
  IN [e \in fresh |-> Newest(e[5])]

\* job_data and hash_store_job_info.
hash_store_job_info(c) ==
  LET ns == NspaceOf[c]
      list == Found(trks[c], ns, 0)
      n == Tracker(list, ns)
  IN /\ inbox[c] # <<>>
     /\ trks' = [trks EXCEPT ![c] = [list EXCEPT ![n].tab["internal"] = FoldLeft(StoreItem, @, inbox[c])]]
     /\ inbox' = [inbox EXCEPT ![c] = <<>>]
     /\ told' = IF Head(inbox[c]).blob = "map" THEN told \ {c} ELSE told \cup {c}
     /\ last' = FoldLeft(LAMBDA l, m : IF m.blob # "proc" THEN l ELSE
                            Recorded(c, ns, {"internal"}, m.rank, SelectSeq(m.kvs, LAMBDA kv : kv.key \in Keys)) @@ l,
                         last, inbox[c])
     /\ UNCHANGED <<nspaces, gens, regs, maps, mixed>>

\* An older server sends the map as a blob instead.
OlderServer(c, map) ==
  /\ inbox[c] = <<>>
  /\ inbox' = [inbox EXCEPT ![c] = <<map>>]
  /\ UNCHANGED <<trks, nspaces, gens, ghosts>>

\* ---- data that procs put -------------------------------------------------------------

\* hash_store in process p, by scope.  A process keeps an internal copy of its own.
TablesFor(scope) ==
  CASE scope = "INTERNAL" -> {"internal"} [] scope = "LOCAL" -> {"local"}
    [] scope = "REMOTE" -> {"remote"} [] scope = "GLOBAL" -> {"remote", "local"} [] OTHER -> {}
IsMe(p, ns, rank) == p # Server /\ NspaceOf[p] = ns /\ RankOf[p] = rank
Kept(p, ns, rank, scope) == TablesFor(scope) \cup IF IsMe(p, ns, rank) THEN {"internal"} ELSE {}
PutEach(list, ns, tabs, rank, kv) ==
  FoldLeft(LAMBDA l, t : Put(l, ns, t, rank, <<kv>>), list, SetToSeq(tabs))
hash_store(p, ns, rank, scope, kv) ==
  /\ trks' = [trks EXCEPT ![p] = PutEach(Found(@, ns, 0), ns, Kept(p, ns, rank, scope), rank, kv)]
  /\ last' = Recorded(p, ns, Kept(p, ns, rank, scope), rank, <<kv>>) @@ last
  /\ UNCHANGED <<nspaces, gens, inbox, told, regs, maps, mixed>>

\* _hash_store_modex of the blobs of one envelope: each names its proc, of which only
\* the rank is used; the namespace is the one the fence's caller gives.
_hash_store_modex(list, ns, blobs) ==
  FoldLeft(LAMBDA l, b : Put(Found(l, ns, 0), ns, "remote", b.rank, b.kvs), list, blobs)
\* pmix_gds_base_store_modex reads the buffer from where the last call left it: an
\* empty envelope ends the loop with success, and one collected otherwise than the
\* first ends it with an error.  s: the trackers, the envelopes left, the status.
pmix_gds_base_store_modex(s, ns) ==
  LET envs == s.left
      first == SelectInSeq(envs, LAMBDA e : e.ctype # "empty")
      stop == SelectInSeq(envs, LAMBDA e : e.ctype = "empty" \/ e.ctype # envs[first].ctype)
      used == IF stop = 0 THEN envs ELSE SubSeq(envs, 1, stop - 1)
  IN IF ~s.ok THEN s
     ELSE [list |-> FoldLeft(LAMBDA l, e : _hash_store_modex(l, ns, e.blobs), s.list, used),
           left |-> IF stop = 0 THEN <<>> ELSE SubSeq(envs, stop + 1, Len(envs)),
           ok |-> stop = 0 \/ envs[stop].ctype = "empty"]

\* _mdxcbfunc calls it for the namespace of each local participant in turn, over the
\* one buffer.  The ghost files each blob under its own proc.
hash_store_modex(fence) ==
  LET blobs == FoldLeft(LAMBDA b, e : b \o e.blobs, <<>>, fence.envs)
      done == FoldLeft(pmix_gds_base_store_modex,
                       [list |-> trks[Server], left |-> fence.envs, ok |-> TRUE], fence.nspaces)
      owners == {blobs[i].ns : i \in DOMAIN blobs} \cup {Head(fence.nspaces)}
  IN
  /\ trks' = [trks EXCEPT ![Server] = done.list]
  /\ last' = FoldLeft(LAMBDA l, b : Recorded(Server, b.ns, {"remote"}, b.rank, b.kvs) @@ l, last, blobs)
  /\ mixed' = IF Cardinality(owners) > 1 THEN mixed \cup owners ELSE mixed
  /\ UNCHANGED <<nspaces, gens, inbox, told, regs, maps>>

\* _deregister_nspace: nspace_del releases the first tracker of that name, the
\* namespace object goes too.
nspace_del(list, ns) ==
  IF Tracker(list, ns) = 0 THEN list ELSE RemoveAt(list, Tracker(list, ns))
_deregister_nspace(ns) ==
  /\ trks' = [trks EXCEPT ![Server] = nspace_del(@, ns)]
  /\ nspaces' = [nspaces EXCEPT ![ns] = NoNspace]
  /\ last' = [e \in {x \in DOMAIN last : ~(x[1] = Server /\ x[2] = ns)} |-> last[e]]
  /\ maps' = [maps EXCEPT ![ns] = 0]
  /\ told' = told \cap Others(ns) /\ mixed' = mixed \ {ns}
  /\ UNCHANGED <<gens, inbox, regs>>

\* ---- fetching ---------------------------------------------------------------------------

\* hash_fetch of a key: which tables are tried, in this order.
Tried(scope, rank) ==
  CASE scope \in {"UNDEF", "GLOBAL"} -> <<"internal", "local", "remote">>
    [] scope = "INTERNAL" \/ rank = Wild -> <<"internal">>
    [] scope = "LOCAL" -> <<"local">>
    [] OTHER -> <<"remote">>
hash_fetch(list, ns, scope, rank, key) ==
  LET n == Tracker(list, ns)
      tabs == Tried(scope, rank)
      Has1(t) == pmix_hash_fetch(list[n].tab[t], rank, key).rc = "SUCCESS"
      hit == SelectInSeq(tabs, Has1)
  IN IF n = 0 THEN [rc |-> "INVALID_NAMESPACE"]
     ELSE IF hit = 0 THEN [rc |-> "NOT_FOUND"]
     ELSE pmix_hash_fetch(list[n].tab[tabs[hit]], rank, key)

\* hash_fetch without a key: all of a rank's data, from the first table that knows the
\* rank; by GLOBAL scope the remote data is added to the local, and a rank without
\* remote data makes it an error.
hash_fetch_all(list, ns, scope, rank) ==
  LET n == Tracker(list, ns)
      tabs == Tried(scope, rank)
      hit == SelectInSeq(tabs, LAMBDA t : list[n].tab[t][rank] # NoProc)
      remote == list[n].tab["remote"][rank]
  IN IF n = 0 THEN <<>> ELSE IF hit = 0 THEN <<>>
     ELSE IF scope = "GLOBAL" /\ tabs[hit] = "local"
     THEN IF remote = NoProc THEN <<>> ELSE list[n].tab["local"][rank] \o remote
     ELSE list[n].tab[tabs[hit]][rank]

\* A client's request for a proc's data: the server's assemb_kvs_req packs the proc and
\* its key-values, accept_kvs_resp stores them as internal data.
accept_kvs_resp(c, ns, rank, scope) ==
  LET kvs == hash_fetch_all(trks[Server], ns, scope, rank) IN
  /\ kvs # <<>>
  /\ trks' = [trks EXCEPT ![c] = Put(Found(@, ns, 0), ns, "internal", rank, kvs)]
  /\ last' = Recorded(c, ns, {"internal"}, rank, SelectSeq(kvs, LAMBDA kv : kv.key \in Keys)) @@ last
  /\ UNCHANGED <<nspaces, gens, inbox, told, regs, maps, mixed>>

Next ==
  /\ ops < MaxOps /\ ops' = ops + 1
  /\ \/ \E g \in Registrations : _register_nspace(g.ns, g.infos, g.nlocal)
     \/ \E c \in Clients : hash_register_job_info(c) \/ hash_store_job_info(c)
     \/ \E c \in Clients, m \in NodeMaps : OlderServer(c, m)
     \/ \E c \in Clients, ns \in Nspaces, r \in Ranks, s \in {"LOCAL", "REMOTE", "GLOBAL"} :
          accept_kvs_resp(c, ns, r, s)
     \/ \E u \in Puts : hash_store(u.p, u.ns, u.rank, u.scope, u.kv)
     \/ \E f \in Fences : hash_store_modex(f)
     \/ \E ns \in Nspaces : _deregister_nspace(ns)

Spec == Init /\ [][Next]_vars

\* ---- properties -----------------------------------------------------------------

\* In every process, a fetch by any scope returns the value last put for that proc and
\* key in the first of the tables that the scope searches, and fails when none was put
\* there since the namespace was last deregistered: no older value survives in a list
\* or in a second tracker of the same namespace, and data a fence returned is found
\* under the proc that put it.  The one exception is the server's remote data of the
\* namespaces that took part in a fence over several: the code files every blob under
\* the namespace of the first local caller.
Fetched(p, ns, r, s, k, excused) ==
  LET tabs == Tried(s, r)
      hit == SelectInSeq(tabs, LAMBDA t : <<p, ns, t, r, k>> \in DOMAIN last)
      got == hash_fetch(trks[p], ns, s, r, k)
      remote == p = Server /\ (hit = 0 \/ tabs[hit] = "remote")
  IN \/ remote /\ ns \in excused
     \/ hit = 0 /\ got.rc # "SUCCESS"
     \/ hit # 0 /\ got.rc = "SUCCESS" /\ got.value = last[<<p, ns, tabs[hit], r, k>>]
FetchesLastPut ==
  \A p \in Clients \cup {Server}, ns \in Nspaces, r \in Ranks, s \in Scopes, k \in Keys :
    Fetched(p, ns, r, s, k, mixed)

\* What a fence returned is found under the proc that put it, whatever namespaces
\* took part.  The code does not do this: _hash_store_modex drops the namespace of
\* the blob's proc.
FenceDataFiled ==
  \A ns \in Nspaces, r \in Ranks, k \in Keys : Fetched(Server, ns, r, "REMOTE", k, {})

\* A client that stored the job info of a namespace registered once holds, at the job
\* level and for each of the job's ranks, exactly what the server cached, whichever
\* clients asked before it and whether or not its copy was the packed one that the
\* server keeps.
JobEntries(list, ns, r) ==
  LET n == Tracker(list, ns) IN
  IF n = 0 \/ list[n].tab["internal"][r] = NoProc THEN <<>>
  ELSE SelectSeq(list[n].tab["internal"][r], LAMBDA kv : kv.key \notin Keys)
JobInfoArrives ==
  \A c \in told :
    LET ns == NspaceOf[c] IN
    regs[ns] = 1 =>
      \A r \in {Wild} \cup {x \in Ranks : x < nspaces[ns].nprocs} :
        LET at == JobEntries(trks[Server], ns, r)
            got == JobEntries(trks[c], ns, r)
        IN \A i \in DOMAIN at : \E j \in DOMAIN got : got[j].key = at[i].key /\ got[j].value = at[i].value

\* The two records of where procs run agree at the server: a proc is among the local
\* peers of a node exactly when its hostname is that node.  Stated for a namespace
\* whose map was given once.
ValueOf(entries, key) ==
  LET i == lookup_keyval(entries, key) IN IF i = 0 THEN <<>> ELSE entries[i].value
LocalPeers(ns, node) ==
  LET infos == ValueOf(JobEntries(trks[Server], ns, Wild), node) IN ToSet(ValueOf(infos, "LOCAL_PEERS"))
RunOn(ns, node) == {r \in Ranks : ValueOf(JobEntries(trks[Server], ns, r), "HOSTNAME") = <<node>>}
AgreeOn(ns) ==
  LET nodes == ValueOf(JobEntries(trks[Server], ns, Wild), "NODE_LIST") IN
  \A i \in DOMAIN nodes : LocalPeers(ns, nodes[i]) = RunOn(ns, nodes[i])
MapsAgree == \A ns \in Nspaces : maps[ns] = 1 => AgreeOn(ns)

\* What was put, registered and mapped is what every process fetches.
JobDataArrives == FetchesLastPut /\ JobInfoArrives /\ MapsAgree
=============================================================================
