------------------------------- MODULE Dstore --------------------------------
(***************************************************************************)
(* The shared-memory data store behind gds/ds12 and gds/ds21: the server     *)
(* writes, the local clients map the same segments and read.                 *)
(*                                                                           *)
(* A namespace has meta segments, which say where a rank's data starts and   *)
(* how many items it has, and data segments, in which items are laid one     *)
(* after the other.  An extension slot ends a rank's run of items and, once  *)
(* filled, points to where the run goes on.  An item whose value changes      *)
(* size is invalidated and stored again at the end.  Offsets count units of  *)
(* sizeof(size_t); offset 0 of a segment holds its free offset.  `ref' is    *)
(* what was stored.  Each operation runs under the session's write or read   *)
(* lock (module DstoreLock), so it is one step here.                         *)
(*                                                                           *)
(* All namespaces are registered with one user id, so there is one session.  *)
(* Reads of any rank (PMIX_RANK_UNDEF) are in DstoreLock, where a client's   *)
(* does not come back.                                                       *)
(***************************************************************************)
EXTENDS Integers, Sequences, FiniteSets

CONSTANTS
  Nspaces, Ranks, Wild,  \* Ranks: 0..n; Wild: PMIX_RANK_WILDCARD
  Keys, Size,            \* Size: value -> length of its packed form
  Stores,                \* the single stores: <<namespace, rank, key, value>>
  JobInfos,              \* <<namespace, rank -> items>>, what the hash store holds internally
  Modexes,               \* <<namespace, rank, items of that remote rank>>
  SegSize,               \* data_segment_size
  MaxMeta, MaxNs,        \* max_meta_elems, max_ns_num
  Overhead,              \* what an item needs besides its value
  NoVal,
  MaxStores, MaxFails,   \* bounds: store operations, segments not created,
  MaxAdds                \* registrations of namespaces

VARIABLES
  fmt,      \* the file module
  session,  \* the initial segments: [full, elems], <<>> before the first add
  nsmap,    \* ns_map_array: namespace -> Unused, -1 or its index in tracks
  tracks,   \* ns_track_array: the server's segments, one element per namespace
  left,     \* files of a deregistered namespace: its segments, still in the directory
  jobs,     \* namespaces whose job info was delivered (ndelivered # 0)
  attached, \* the client's view: namespace -> number of meta and data segments
  cinit,    \* initial segments the client has mapped
  held,     \* the write lock was not released
  down,     \* the server is gone
  ref, nstores, nfails, nadds,
  resized,  \* ghost: <<namespace, rank, key>> whose value changed its size
  marred    \* ghost: <<namespace, rank>> that stored such a key again, in v21 files

ghosts == <<resized, marred>>
vars == <<fmt, session, nsmap, tracks, left, jobs, attached, cinit, held, down, ref, nstores, nfails, nadds, ghosts>>

Unused == -2
Procs == Ranks \cup {Wild}
NoData == [r \in Procs |-> [k \in Keys |-> NoVal]]
NoMeta == [i \in 0..(MaxMeta - 1) |-> [offset |-> 0, count |-> 0]]
NewSeg == [free |-> 0, mem |-> [o \in {} |-> 0]]

NoFiles == [meta |-> <<>>, data |-> <<>>]

Init ==
  /\ fmt \in {"v20", "v21"}
  /\ session = <<>> /\ tracks = <<>>
  /\ nsmap = [n \in Nspaces |-> Unused]
  /\ attached = [n \in Nspaces |-> [meta |-> 0, data |-> 0]] /\ cinit = 0
  /\ left = [n \in Nspaces |-> NoFiles] /\ jobs = {}
  /\ held = FALSE /\ down = FALSE /\ resized = {} /\ marred = {}
  /\ ref = [n \in Nspaces |-> NoData]
  /\ nstores = 0 /\ nfails = 0 /\ nadds = 0

----------------------------------------------------------------------------
\* Data segments

\* Op of the value of x, which TLC then computes once.
With(x, Op(_)) == CHOOSE r \in {Op(y) : y \in {x}} : TRUE

KeySize(v) == Overhead + Size[v]
SlotSize == Overhead + 1
KV(k, v) == [kind |-> "kv", key |-> k, val |-> v, invalid |-> FALSE, size |-> KeySize(v)]
Ext(o) == [kind |-> "ext", to |-> o, invalid |-> FALSE, size |-> SlotSize]
Zeroed == [kind |-> "zero", invalid |-> FALSE, size |-> 0]

\* A segment and a place in it, or none if the offset is beyond the segments.
_get_data_region_by_offset(data, o) ==
  IF o \div SegSize < Len(data) THEN <<o \div SegSize + 1, o % SegSize>> ELSE <<>>

ItemAt(data, a) == IF a[2] \in DOMAIN data[a[1]].mem THEN data[a[1]].mem[a[2]] ELSE Zeroed
Skip(data, a) == <<a[1], a[2] + ItemAt(data, a).size>>
put_key(data, a, item) ==
  LET old == data[a[1]].mem
      kept == {o \in DOMAIN old : o < a[2] \/ o >= a[2] + item.size} IN
  [data EXCEPT ![a[1]].mem = [o \in kept \cup {a[2]} |-> IF o = a[2] THEN item ELSE old[o]]]
IsExtSlot(item) == item.kind = "ext"
\* The format of v2.0 writes INVALIDATED over the name; that of v2.1 sets a flag and
\* leaves the name.
SameName(item, k) ==
  item.kind = "kv" /\ item.key = k /\ (fmt = "v21" \/ ~item.invalid)

get_free_offset(data) ==
  LET f == data[Len(data)].free IN (Len(data) - 1) * SegSize + IF f = 0 THEN 1 ELSE f

put_empty_ext_slot(data) ==
  LET o == get_free_offset(data) % SegSize
      a == _get_data_region_by_offset(data, get_free_offset(data)) IN
  IF o + SlotSize > SegSize THEN <<"ERROR", data>>
  ELSE <<"SUCCESS", [put_key(data, a, Ext(0)) EXCEPT ![a[1]].free = o + SlotSize]>>

\* Mutant: one unit less is kept for the slot that ends the segment.
Mut_put_data_to_the_end(data, k, v, can) ==
  LET o == get_free_offset(data) % SegSize
      new == o = 0 \/ o + KeySize(v) + SlotSize > SegSize + 1
      at == IF new THEN <<Len(data) + 1, 1>> ELSE <<Len(data), o>>
      in == IF new THEN Append(data, NewSeg) ELSE data IN
  IF new /\ ~can THEN [offset |-> 0, data |-> data]
  ELSE [offset |-> (at[1] - 1) * SegSize + at[2],
        data |-> [put_key(in, at, KV(k, v)) EXCEPT ![at[1]].free = at[2] + KeySize(v)]]

\* Offset 0: it failed.  `can': a new segment can be created.
put_data_to_the_end(data, k, v, can) ==
  LET o == get_free_offset(data) % SegSize
      new == o = 0 \/ o + KeySize(v) + SlotSize > SegSize
      at == IF new THEN <<Len(data) + 1, 1>> ELSE <<Len(data), o>>
      in == IF new THEN Append(data, NewSeg) ELSE data IN
  IF 1 + KeySize(v) + SlotSize > SegSize \/ (new /\ ~can) THEN [offset |-> 0, data |-> data]
  ELSE [offset |-> (at[1] - 1) * SegSize + at[2],
        data |-> [put_key(in, at, KV(k, v)) EXCEPT ![at[1]].free = at[2] + KeySize(v)]]

----------------------------------------------------------------------------
\* Storing one item.  s: [data, rinfo]; rinfo is <<>> until the rank has an item.

\* The walk over the items the rank has: where it ends, the items invalidated on
\* the way, and whether the value was replaced in place.
RECURSIVE Walk(_, _, _, _, _)
Walk(s, a, cnt, k, v) ==
  LET item == ItemAt(s.data, a) IN
  IF cnt = 0 THEN [s |-> s, addr |-> a, add |-> TRUE]
  ELSE IF IsExtSlot(item)
    THEN Walk(s, _get_data_region_by_offset(s.data, item.to), cnt, k, v)
  ELSE IF SameName(item, k)
    THEN IF item.size # KeySize(v)
         THEN Walk([s EXCEPT !.data = put_key(@, a, [item EXCEPT !.invalid = TRUE]),
                             !.rinfo.count = @ - 1],
                   Skip(s.data, a), cnt - 1, k, v)
         ELSE [s |-> [s EXCEPT !.data = put_key(@, a, [item EXCEPT !.val = v])],
               addr |-> a, add |-> FALSE]
  ELSE Walk(s, Skip(s.data, a), IF item.invalid THEN cnt ELSE cnt - 1, k, v)

\* The rank's last extension slot goes if nothing follows it.
DropSlot(data, a) ==
  IF /\ IsExtSlot(ItemAt(data, a)) /\ a[1] = Len(data)
     /\ get_free_offset(data) % SegSize = a[2] + ItemAt(data, a).size
  THEN [data EXCEPT ![a[1]].free = a[2]] ELSE data

AddItem(s, a, k, v, can) ==
  LET Linked(d, put) ==
        IF IsExtSlot(ItemAt(put.data, a)) \/ get_free_offset(d) # put.offset
        THEN put_key(put.data, a, Ext(put.offset)) ELSE put.data
      Result(rc, data) == [rc |-> rc, s |-> [data |-> data, rinfo |-> [s.rinfo EXCEPT !.count = @ + 1]]]
      Put(d) == With(put_data_to_the_end(d, k, v, can),
                     LAMBDA put : IF put.offset = 0 THEN Result("ERROR", d) ELSE Result("SUCCESS", Linked(d, put)))
  IN With(DropSlot(s.data, a), Put)

FirstItem(s, k, v, can) ==
  LET free == get_free_offset(s.data)
      Linked(put) ==
        IF free # put.offset /\ s.rinfo # <<>>
        THEN put_key(put.data, _get_data_region_by_offset(put.data, free), Ext(put.offset)) ELSE put.data
      Result(put) ==
        IF put.offset = 0 THEN [rc |-> "ERROR", s |-> s]
        ELSE [rc |-> "SUCCESS",
              s |-> [data |-> Linked(put),
                     rinfo |-> IF s.rinfo = <<>> THEN [offset |-> put.offset, count |-> 1]
                               ELSE [s.rinfo EXCEPT !.count = @ + 1]]]
  IN With(put_data_to_the_end(s.data, k, v, can), Result)

pmix_sm_store(s, kv, data_exist, can) ==
  IF ~data_exist THEN FirstItem(s, kv[1], kv[2], can)
  ELSE LET Finish(w) == IF w.add THEN AddItem(w.s, w.addr, kv[1], kv[2], can) ELSE [rc |-> "SUCCESS", s |-> w.s]
       IN With(Walk(s, _get_data_region_by_offset(s.data, s.rinfo.offset), s.rinfo.count, kv[1], kv[2]), Finish)

----------------------------------------------------------------------------
\* Meta segments: rank r is element r + 1, the wildcard element 0.

Element(r) == IF r = Wild THEN 0 ELSE r + 1
_get_rank_meta_info(meta, r) ==
  LET id == Element(r) \div MaxMeta IN
  IF id < Len(meta) /\ meta[id + 1][Element(r) % MaxMeta].offset # 0
  THEN meta[id + 1][Element(r) % MaxMeta] ELSE <<>>
set_rank_meta_info(meta, r, rinfo) ==
  LET id == Element(r) \div MaxMeta
      long == [i \in 1..(IF id < Len(meta) THEN Len(meta) ELSE id + 1) |->
                 IF i <= Len(meta) THEN meta[i] ELSE NoMeta] IN
  [long EXCEPT ![id + 1][Element(r) % MaxMeta] = rinfo]

RECURSIVE StoreEach(_, _, _, _)
StoreEach(s, kvs, exist, can) ==
  IF kvs = <<>> THEN [rc |-> "SUCCESS", s |-> s]
  ELSE LET Others(r) == IF r.rc # "SUCCESS" THEN r ELSE StoreEach(r.s, Tail(kvs), exist, can)
       IN With(pmix_sm_store(s, Head(kvs), exist, can), Others)

\* t: the namespace's element of tracks.  If an item cannot be stored and the rank
\* had data, what is freed is a place in the segment: the server aborts.
_store_data_for_rank(t, r, kvs, can) ==
  LET had == _get_rank_meta_info(t.meta, r)
      Slotted(data) ==
        IF get_free_offset(data) # get_free_offset(t.data) THEN put_empty_ext_slot(data) ELSE <<"SUCCESS", data>>
      Ended(rinfo, ext) ==
        [rc |-> ext[1], abort |-> FALSE,
         t |-> [t EXCEPT !.data = ext[2],
                         !.meta = IF rinfo = <<>> \/ ext[1] # "SUCCESS" THEN @ ELSE set_rank_meta_info(@, r, rinfo)]]
      Finish(got) ==
        IF got.rc # "SUCCESS" THEN [rc |-> got.rc, abort |-> had # <<>>, t |-> [t EXCEPT !.data = got.s.data]]
        ELSE With(Slotted(got.s.data), LAMBDA ext : Ended(got.s.rinfo, ext))
  IN With(StoreEach([data |-> t.data, rinfo |-> had], kvs, had # <<>>, can), Finish)

----------------------------------------------------------------------------
\* Namespaces and the initial segments

ElemAt(ses, n) == {<<i, j>> \in (1..Len(ses)) \X (1..MaxNs) :
                      j <= Len(ses[i].elems) /\ ses[i].elems[j].name = n}
\* The first element of that name.
_get_ns_info_from_initial_segment(ses, n) ==
  CHOOSE e \in ElemAt(ses, n) : \A o \in ElemAt(ses, n) : e[1] < o[1] \/ (e[1] = o[1] /\ e[2] <= o[2])
_put_ns_info_to_initial_segment(n) ==
  LET elem == [name |-> n, meta |-> 1, data |-> 1]
      last == Len(session) IN
  IF Len(session[last].elems) = MaxNs
  THEN Append([session EXCEPT ![last].full = TRUE], [full |-> FALSE, elems |-> <<elem>>])
  ELSE [session EXCEPT ![last].elems = Append(@, elem)]
\* What set_rank_meta_info and put_data_to_the_end write there when the segments of
\* namespace n have gone from `old' to t: the number of meta segments is set, that of
\* data segments incremented.
Counted(ses, n, old, t) ==
  LET e == _get_ns_info_from_initial_segment(ses, n) IN
  [ses EXCEPT ![e[1]].elems[e[2]].meta = IF Len(t.meta) > Len(old.meta) THEN Len(t.meta) ELSE @,
              ![e[1]].elems[e[2]].data = @ + Len(t.data) - Len(old.data)]

Tracked(n) == nsmap[n] >= 0 /\ nsmap[n] < Len(tracks)
_get_track_elem_for_namespace(n) ==
  IF Tracked(n) THEN tracks[nsmap[n] + 1]
  ELSE [name |-> n, meta |-> <<NoMeta>>, data |-> <<[NewSeg EXCEPT !.free = 1]>>]

RECURSIVE StoreRanks(_, _, _, _)
StoreRanks(t, job, rs, can) ==
  IF rs = <<>> THEN [rc |-> "SUCCESS", abort |-> FALSE, t |-> t]
  ELSE LET Others(r) == IF r.rc # "SUCCESS" THEN r ELSE StoreRanks(r.t, job, Tail(rs), can)
       IN With(IF job[Head(rs)] = <<>> THEN [rc |-> "SUCCESS", abort |-> FALSE, t |-> t]
               ELSE _store_data_for_rank(t, Head(rs), job[Head(rs)], can), Others)

Stored(n, job) == [ref EXCEPT ![n] = [r \in Procs |-> [k \in Keys |->
   LET at == {i \in DOMAIN job[r] : job[r][i][1] = k} IN
   IF at = {} THEN ref[n][r][k] ELSE job[r][CHOOSE i \in at : TRUE][2]]]]

\* What was stored before decides: a key whose size changes is stored anew, and in v21
\* files a third store of it meets the invalidated item.
Resizes(n, job) == {x \in {n} \X Procs \X Keys : \E i \in DOMAIN job[x[2]] :
                      /\ job[x[2]][i][1] = x[3] /\ ref[n][x[2]][x[3]] # NoVal
                      /\ Size[job[x[2]][i][2]] # Size[ref[n][x[2]][x[3]]]}
Revisits(n, job) == {x \in {n} \X Procs : \E i \in DOMAIN job[x[2]] : <<n, x[2], job[x[2]][i][1]>> \in resized}

\* What the three operations that store have in common.  `keeps': the write lock is
\* not released when storing fails.
_dstore_store_nolock(n, job, rs, keeps) ==
  /\ nsmap[n] # Unused /\ ~held /\ ~down /\ nstores < MaxStores
  /\ \E can \in {TRUE} \cup (IF nfails < MaxFails THEN {FALSE} ELSE {}) :
     \E got \in {StoreRanks(_get_track_elem_for_namespace(n), job, rs, can)} :
       LET new == ~Tracked(n)
           old == _get_track_elem_for_namespace(n) IN
       /\ tracks' = IF new THEN Append(tracks, got.t) ELSE [tracks EXCEPT ![nsmap[n] + 1] = got.t]
       /\ nsmap' = IF new THEN [nsmap EXCEPT ![n] = Len(tracks)] ELSE nsmap
       /\ session' = Counted(IF new THEN _put_ns_info_to_initial_segment(n) ELSE session, n, old, got.t)
       /\ held' = (got.rc # "SUCCESS" /\ keeps)
       /\ down' = got.abort
       /\ ref' = IF got.rc = "SUCCESS" THEN Stored(n, job) ELSE ref
       /\ nstores' = nstores + 1
       /\ nfails' = IF got.rc = "SUCCESS" THEN nfails ELSE nfails + 1
       /\ can = FALSE => got.rc # "SUCCESS"
       /\ resized' = resized \cup Resizes(n, job)
       /\ marred' = IF fmt = "v21" THEN marred \cup Revisits(n, job) ELSE marred
       /\ UNCHANGED <<fmt, left, attached, cinit, nadds>>

Only(r, kvs) == [p \in Procs |-> IF p = r THEN kvs ELSE <<>>]
pmix_common_dstor_store(n, r, k, v) ==
  /\ _dstore_store_nolock(n, Only(r, <<<<k, v>>>>), <<r>>, TRUE)
  /\ UNCHANGED jobs
pmix_common_dstor_store_modex(n, r, kvs) ==
  /\ _dstore_store_nolock(n, Only(r, kvs), <<r>>, FALSE)
  /\ UNCHANGED jobs
\* Only for the first local client of the namespace.
pmix_common_dstor_register_job_info(n, job) ==
  /\ n \notin jobs
  /\ _dstore_store_nolock(n, job, <<Wild>> \o [i \in 1..Cardinality(Ranks) |-> i - 1], TRUE)
  /\ jobs' = IF held' \/ down' THEN jobs ELSE jobs \cup {n}

pmix_common_dstor_add_nspace(n) ==
  /\ ~held /\ ~down /\ nsmap[n] = Unused /\ nadds < MaxAdds /\ nadds' = nadds + 1
  /\ nsmap' = [nsmap EXCEPT ![n] = -1]
  /\ session' = IF session = <<>> THEN <<[full |-> FALSE, elems |-> <<>>]>> ELSE session
  /\ UNCHANGED <<fmt, tracks, left, jobs, attached, cinit, held, down, ref, nstores, nfails, ghosts>>

\* The files a client finds in the directory: those of the tracker, then what an
\* earlier registration of the namespace left.
Files(n) ==
  LET t == tracks[nsmap[n] + 1]
      Over(new, old) == new \o SubSeq(old, Len(new) + 1, Len(old)) IN
  [meta |-> Over(t.meta, left[n].meta), data |-> Over(t.data, left[n].data)]

\* The session and its directory go, and the tracker of this namespace, with the last
\* namespace; before that, trackers, files and elements of the initial segments stay.
pmix_common_dstor_del_nspace(n) ==
  /\ ~held /\ ~down /\ nsmap[n] # Unused
  /\ nsmap' = [nsmap EXCEPT ![n] = Unused]
  /\ jobs' = jobs \ {n} /\ ref' = [ref EXCEPT ![n] = NoData]
  /\ resized' = {x \in resized : x[1] # n} /\ marred' = {x \in marred : x[1] # n}
  /\ IF \E o \in Nspaces \ {n} : nsmap[o] # Unused
     THEN /\ left' = IF Tracked(n) THEN [left EXCEPT ![n] = Files(n)] ELSE left
          /\ UNCHANGED <<session, tracks, attached, cinit>>
     ELSE /\ session' = <<>> /\ cinit' = 0
          /\ left' = [m \in Nspaces |-> NoFiles]
          /\ attached' = [m \in Nspaces |-> [meta |-> 0, data |-> 0]]
          /\ tracks' = IF ~Tracked(n) THEN tracks
                       ELSE SubSeq(tracks, 1, nsmap[n]) \o SubSeq(tracks, nsmap[n] + 2, Len(tracks))
  /\ UNCHANGED <<fmt, held, down, nstores, nfails, nadds>>

----------------------------------------------------------------------------
\* Reading

\* A full segment whose successor is not mapped is followed by one that is.
RECURSIVE _update_initial_segment_info(_)
_update_initial_segment_info(i) ==
  IF session[i].full THEN _update_initial_segment_info(i + 1) ELSE i

\* The segments a reader with the attachments c maps before it looks: first the meta
\* segments and then the data segments, until all that the initial segment counts are
\* mapped or a file is missing.
_update_ns_elem(c, n) ==
  LET e == _get_ns_info_from_initial_segment(session, n)
      info == session[e[1]].elems[e[2]]
      files == Files(n)
      Mapped(had, counted, there) == IF counted <= had THEN had ELSE IF counted <= there THEN counted ELSE there
      meta == Mapped(c.meta, info.meta, Len(files.meta)) IN
  [meta |-> meta,
   data |-> IF meta < info.meta THEN c.data ELSE Mapped(c.data, info.data, Len(files.data)),
   ok |-> info.meta <= Len(files.meta) /\ info.data <= Len(files.data)]

RECURSIVE Find(_, _, _, _)
Find(data, a, cnt, k) ==
  LET item == ItemAt(data, a) IN
  IF cnt = 0 THEN NoVal
  ELSE IF item.invalid THEN Find(data, Skip(data, a), cnt, k)
  ELSE IF IsExtSlot(item)
    THEN IF item.to = 0 THEN NoVal ELSE Find(data, _get_data_region_by_offset(data, item.to), cnt, k)
  ELSE IF item.kind = "kv" /\ item.key = k THEN item.val
  ELSE Find(data, Skip(data, a), cnt - 1, k)

\* With no key: all the items of the rank.
RECURSIVE All(_, _, _)
All(data, a, cnt) ==
  LET item == ItemAt(data, a) IN
  IF cnt = 0 THEN {}
  ELSE IF item.invalid THEN All(data, Skip(data, a), cnt)
  ELSE IF IsExtSlot(item)
    THEN IF item.to = 0 THEN {} ELSE All(data, _get_data_region_by_offset(data, item.to), cnt)
  ELSE {IF item.kind = "kv" THEN <<item.key, item.val>> ELSE <<>>} \cup All(data, Skip(data, a), cnt - 1)

\* c: what _update_ns_elem has come to.
_dstore_fetch(c, n, r, k) ==
  LET rinfo == _get_rank_meta_info(SubSeq(Files(n).meta, 1, c.meta), r)
      data == SubSeq(Files(n).data, 1, c.data) IN
  IF ~c.ok \/ rinfo = <<>> THEN NoVal
  ELSE Find(data, _get_data_region_by_offset(data, rinfo.offset), rinfo.count, k)
FetchAll(c, n, r) ==
  LET rinfo == _get_rank_meta_info(SubSeq(Files(n).meta, 1, c.meta), r)
      data == SubSeq(Files(n).data, 1, c.data) IN
  IF ~c.ok \/ rinfo = <<>> THEN {}
  ELSE All(data, _get_data_region_by_offset(data, rinfo.offset), rinfo.count)

\* What a client's fetch changes: the segments it has mapped.
pmix_common_dstor_fetch(n) ==
  /\ ~held /\ ~down /\ session # <<>> /\ ElemAt(session, n) # {} /\ Tracked(n)
  /\ cinit' = _update_initial_segment_info(1)
  /\ attached' = LET c == _update_ns_elem(attached[n], n) IN
                 [attached EXCEPT ![n] = [meta |-> c.meta, data |-> c.data]]
  /\ <<cinit', attached'>> # <<cinit, attached>>
  /\ UNCHANGED <<fmt, session, nsmap, tracks, left, jobs, held, down, ref, nstores, nfails, nadds, ghosts>>

Next ==
  \/ \E n \in Nspaces :
       \/ pmix_common_dstor_add_nspace(n) \/ pmix_common_dstor_del_nspace(n)
       \/ pmix_common_dstor_fetch(n)
  \/ \E x \in Stores : pmix_common_dstor_store(x[1], x[2], x[3], x[4])
  \/ \E x \in JobInfos : pmix_common_dstor_register_job_info(x[1], x[2])
  \/ \E x \in Modexes : pmix_common_dstor_store_modex(x[1], x[2], x[3])
Spec == Init /\ [][Next]_vars

----------------------------------------------------------------------------
Readable(n) == ~held /\ ~down /\ nsmap[n] # Unused /\ Tracked(n)
Once(n) == Cardinality(ElemAt(session, n)) = 1
Fresh == [meta |-> 0, data |-> 0]
Finds(n, r) ==
  \A c \in {_update_ns_elem(at, n) : at \in {attached[n], Fresh}} :
    /\ \A k \in Keys : _dstore_fetch(c, n, r, k) = ref[n][r][k]
    /\ FetchAll(c, n, r) = {<<k, ref[n][r][k]>> : k \in {x \in Keys : ref[n][r][x] # NoVal}}

\* Whatever was stored, in whatever order, sizes and segments, a client that looks a
\* key up finds the value stored last, and one that asks for everything finds
\* exactly the keys the rank has, whether it mapped segments before or comes now
\* (pmix_sm_store and _dstore_fetch).  Two cases are left out, in which it is false: a
\* namespace registered again while another one kept the session, and, in the layout
\* of v2.1, a rank that stored a key again after a store had changed its size.
FetchIsLastStored ==
  \A n \in Nspaces : Readable(n) /\ Once(n) => \A r \in Procs : <<n, r>> \notin marred => Finds(n, r)

\* A namespace has one element in the initial segments: the data of the one registered
\* now are found.  This fails after a namespace was deregistered and registered again
\* beside another one, which the segments of the first registration outlive.
FoundAfterReregistering ==
  \A n \in Nspaces : Readable(n) => \A r \in Procs : <<n, r>> \notin marred => Finds(n, r)
\* The same of keys stored three times: this fails in the layout of v2.1, where an
\* invalidated item keeps its name.
FoundAfterRestoring ==
  \A n \in Nspaces : Readable(n) /\ Once(n) => \A r \in Procs : Finds(n, r)

\* No two live items of a segment overlap, and none reaches past the end of it
\* (put_data_to_the_end leaves room for the slot that ends the segment).
SegmentsSound ==
  \A i \in DOMAIN tracks : \A d \in DOMAIN tracks[i].data :
    LET seg == tracks[i].data[d] IN
    /\ seg.free <= SegSize
    /\ \A o \in DOMAIN seg.mem :
         /\ o >= 1 /\ o + seg.mem[o].size <= SegSize
         /\ \A p \in DOMAIN seg.mem : p > o => p >= o + seg.mem[o].size

\* The index a namespace keeps is that of its own tracker, also after other namespaces
\* came and went, and the number of segments a client reads from the initial segment
\* is the number the server has unless the namespace was registered before in this
\* session (pmix_common_dstor_del_nspace).
SegmentsCounted ==
  \A n \in Nspaces : nsmap[n] # Unused /\ Tracked(n) =>
    LET t == tracks[nsmap[n] + 1]
        e == _get_ns_info_from_initial_segment(session, n) IN
    /\ t.name = n
    /\ ElemAt(session, n) # {} /\ e[1] <= _update_initial_segment_info(1)
    /\ Once(n) => /\ session[e[1]].elems[e[2]].meta = Len(t.meta)
                  /\ session[e[1]].elems[e[2]].data = Len(t.data)

\* A process that attaches the segments finds in them what was last stored,
\* whole and counted right, however they were filled and extended.
StoreReadable == FetchIsLastStored /\ SegmentsSound /\ SegmentsCounted
=============================================================================
