------------------------------ MODULE MCStores ------------------------------
(***************************************************************************)
(* The data stores and the containers below them.  One part runs at a time:  *)
(* a hash table, lists, the hash store, the shared-memory store, or the lock *)
(* of the shared-memory store (DstoreLock, which is extended here).          *)
(***************************************************************************)
EXTENDS DstoreLock, TLC

CONSTANTS Parts, NoProc, NoVal, k1, k2, va, vb, vc

VARIABLES
  part,
  table, tsize, trigger, methods, trc, fails, map,
  nxt, prv, len, seq, twice, astray,
  trks, nspaces, gens, inbox, last, told, regs, maps, mixed, ops,
  fmt, session, nsmap, tracks, left, jobs, attached, cinit, held, down, ref, nstores, nfails, nadds, resized, marred

hashing == <<table, tsize, trigger, methods, trc, fails, map>>
listing == <<nxt, prv, len, seq, twice, astray>>
storing == <<trks, nspaces, gens, inbox, last, told, regs, maps, mixed, ops>>
sharing == <<fmt, session, nsmap, tracks, left, jobs, attached, cinit, held, down, ref, nstores, nfails, nadds, resized, marred>>

\* ---- hash table ----------------------------------------------------------------

HT == INSTANCE HashTable WITH
  Keys <- {<<0>>, <<3>>, <<7>>, <<14>>}, PtrKeys <- {<<1>>, <<1, 2>>, <<8>>}, Values <- {1, 2},
  Granule <- 2, HASH_MULTIPLIER <- 31, InitialSize <- 1, MaxSize <- 3, MaxFails <- 1,
  size <- tsize, rc <- trc

\* ---- lists -----------------------------------------------------------------------

L == INSTANCE Lists WITH Items <- {1, 2, 3}, ListHeads <- {11, 12}, MaxTwice <- 1

\* ---- the hash store ---------------------------------------------------------------

KV(k, v) == [key |-> k, value |-> v]
Map1 == <<[kind |-> "PROC_MAP", list |-> <<<<0>>, <<1>>>>], [kind |-> "NODE_MAP", list |-> <<"n1", "n2">>]>>
Map2 == <<[kind |-> "NODE_MAP", list |-> <<"n1", "n2">>], [kind |-> "PROC_MAP", list |-> <<<<1>>, <<0>>>>]>>
JobSize == <<[kind |-> "JOB_SIZE", value |-> 2]>>
\* Node maps and proc maps in both orders, of equal and of different length, and
\* data of one rank only.
InfoArrays == {<<>>, JobSize \o Map1, Map2,
  JobSize \o <<[kind |-> "PROC_DATA", rank |-> 0, kvs |-> <<KV("APPNUM", 1)>>]>>,
  <<[kind |-> "NODE_MAP", list |-> <<"n1">>], [kind |-> "PROC_MAP", list |-> <<<<0>>, <<1>>>>],
    [kind |-> "JOB", key |-> "UNIV", value |-> 1]>>}
Reg(ns, infos, n) == [ns |-> ns, infos |-> infos, nlocal |-> n]
MCRegistrations == {Reg("A", i, 2) : i \in InfoArrays} \cup {Reg("A", JobSize \o Map1, 1), Reg("B", Map2, 1)}
MCPuts ==
  {[p |-> "server", ns |-> "A", rank |-> 0, scope |-> s, kv |-> KV("k", v)] :
     s \in {"LOCAL", "GLOBAL", "INTERNAL"}, v \in {1, 2}} \cup
  {[p |-> "c1", ns |-> "A", rank |-> r, scope |-> s, kv |-> KV("k", 3)] :
     r \in {0, 1}, s \in {"REMOTE", "UNDEF", "INTERNAL"}}
Blob(ns, r, v) == [ctype |-> "yes", blobs |-> <<[ns |-> ns, rank |-> r, kvs |-> <<KV("k", v)>>]>>]
NoBlob == [ctype |-> "empty", blobs |-> <<>>]
\* A fence of one namespace; one over two of which the server hosts one, or both, and
\* an empty envelope between the two others.
MCFences == {[nspaces |-> <<"A">>, envs |-> <<Blob("A", 0, 1), Blob("A", 1, 2), NoBlob>>],
             [nspaces |-> <<"A">>, envs |-> <<Blob("A", 0, 1), Blob("B", 0, 2)>>],
             [nspaces |-> <<"B", "A">>, envs |-> <<Blob("A", 0, 1), NoBlob, Blob("B", 0, 2)>>]}

H == INSTANCE HashStore WITH
  Nspaces <- {"A", "B"}, Ranks <- {0, 1}, Wild <- 99, Keys <- {"k"}, MaxOps <- 4, Clients <- {"c1", "c2"},
  Registrations <- MCRegistrations, Puts <- MCPuts,
  NodeMaps <- {[blob |-> "map", nodes |-> <<"n1", "n2">>, procs |-> <<<<0>>, <<1>>>>]},
  GData <- <<KV("GLOBAL", 1)>>, NspaceOf <- [x \in {"c1", "c2"} |-> "A"],
  RankOf <- [x \in {"c1", "c2"} |-> IF x = "c1" THEN 0 ELSE 1], Fences <- MCFences

\* ---- the shared-memory store --------------------------------------------------------

\* Value vb is longer than va and vc.  Three stores of two sizes, on one rank or on
\* two, fill a segment of nine units and start the next.
MCSize == [v \in {va, vb, vc} |-> IF v = vb THEN 2 ELSE 1]
PutValues == {<<"A", 1, k1, v>> : v \in {va, vb}} \cup {<<"A", 0, k1, vb>>, <<"A", 1, k2, va>>}
MCModexes == {<<"A", 1, <<<<k1, va>>, <<k2, vb>>>>>>, <<"A", 1, <<<<k2, va>>, <<k1, vc>>>>>>}
MCJobInfos ==
  {<<"A", [r \in {0, 1, 99} |-> IF r = 99 THEN <<<<k1, va>>, <<k2, vc>>>> ELSE IF r = 0 THEN <<<<k1, va>>>> ELSE <<>>]>>,
   <<"B", [r \in {0, 1, 99} |-> IF r = 99 THEN <<<<k1, vc>>>> ELSE <<>>]>>}

S == INSTANCE Dstore WITH
  Nspaces <- {"A", "B"}, Ranks <- {0, 1}, Wild <- 99, Keys <- {k1, k2}, Size <- MCSize,
  Stores <- PutValues, JobInfos <- MCJobInfos, Modexes <- MCModexes, SegSize <- 9, MaxMeta <- 2, MaxNs <- 1,
  Overhead <- 1, MaxStores <- 3, MaxFails <- 1, MaxAdds <- 3

\* ---- its lock ----------------------------------------------------------------------

\* Two processes of namespace A compete for one pair of mutexes; p has two threads.
LockItems == <<"A", "B">>
LockCounts == [A |-> 1, B |-> 1]
ThreadProcs == [t1 |-> "p", t2 |-> "p", t3 |-> "q", t4 |-> "s"]
ProcNspaces == [p |-> "A", q |-> "A", s |-> "B"]
ASSUME LockSetting == Setting

\* ---- the parts ----------------------------------------------------------------------

MCInit ==
  /\ part \in Parts
  /\ IF part = "hash table" THEN HT!Init ELSE table = 0 /\ tsize = 0 /\ trigger = 0 /\ methods = 0 /\ trc = 0 /\ fails = 0 /\ map = 0
  /\ IF part = "lists" THEN L!Init ELSE nxt = 0 /\ prv = 0 /\ len = 0 /\ seq = 0 /\ twice = 0 /\ astray = 0
  /\ IF part = "hash store" THEN H!Init
     ELSE trks = 0 /\ nspaces = 0 /\ gens = 0 /\ inbox = 0 /\ last = 0 /\ told = 0 /\ regs = 0 /\ maps = 0 /\ mixed = 0 /\ ops = 0
  /\ IF part = "dstore" THEN S!Init
     ELSE /\ fmt = 0 /\ session = 0 /\ nsmap = 0 /\ tracks = 0 /\ attached = 0 /\ cinit = 0 /\ held = 0 /\ down = 0
          /\ ref = 0 /\ nstores = 0 /\ nfails = 0 /\ nadds = 0 /\ left = 0 /\ jobs = 0 /\ resized = 0 /\ marred = 0
  /\ IF part = "lock" THEN Init
     ELSE owner = 0 /\ taken = 0 /\ lock_idx = 0 /\ scan = 0 /\ pc = [t \in Threads |-> "idle"] /\ spc = "idle" /\ item = 0 /\ idx = 0

MCNext ==
  \/ part = "hash table" /\ HT!Next /\ UNCHANGED <<part, listing, storing, sharing, vars>>
  \/ part = "lists" /\ L!Next /\ UNCHANGED <<part, hashing, storing, sharing, vars>>
  \/ part = "hash store" /\ H!Next /\ UNCHANGED <<part, hashing, listing, sharing, vars>>
  \/ part = "dstore" /\ S!Next /\ UNCHANGED <<part, hashing, listing, storing, vars>>
  \/ part = "lock" /\ Next /\ UNCHANGED <<part, hashing, listing, storing, sharing>>

MCSpec ==
  /\ MCInit
  /\ [][MCNext]_<<part, hashing, listing, storing, sharing, vars>>
  /\ Fairness

\* ---- the properties -------------------------------------------------------------------

\* HashTable: the table is a map whose probes end.  Lists: the two chains of each
\* list are one sequence of the length counted.
ContainersSound ==
  /\ part = "hash table" => HT!HashIsMap /\ HT!ProbeEnds
  /\ part = "lists" => L!ChainsAreSequences /\ L!LengthsCount
\* Lists: the length counts the items.
LengthsRight == part = "lists" => L!LengthsRight
\* See HashStore.
JobDataArrives == part = "hash store" => H!JobDataArrives
\* See HashStore; this one does not hold.
FenceDataFiled == part = "hash store" => H!FenceDataFiled
\* See Dstore.
StoreReadable == part = "dstore" => S!StoreReadable
\* See Dstore; these two do not hold.
FoundAfterReregistering == part = "dstore" => S!FoundAfterReregistering
FoundAfterRestoring == part = "dstore" => S!FoundAfterRestoring
\* See DstoreLock.
LockServes == [](part = "lock" => PairsDistinct) /\ SomebodyGets /\ ReadersHeldBack /\ NoStarvation
=============================================================================
