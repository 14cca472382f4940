------------------------- MODULE CollectivesProofs -------------------------
(***************************************************************************)
(* The safety of collectives, for any number of processes, jobs, arrays of *)
(* procs and trackers, on a server all of whose clients are registered     *)
(* before they call, when clients set no timers and no connection is lost. *)
(* The host may refuse operations, fail them, and lack job information; in *)
(* the last part, where no contribution may be forgotten, it may only fail *)
(* them.                                                                   *)
(***************************************************************************)
EXTENDS Collectives, FiniteSetTheorems, TLAPS

Environment ==
    /\ Registered0 = LocalProcs
    /\ TimedTypes = {}
    /\ "lost" \notin Faults

-----------------------------------------------------------------------------
(* The inductive invariant                                                  *)

\* Everybody is registered and nobody is lost.
Static == ranks = LocalProcs /\ gone = {}

\* A tracker from which no process was lost.
Unlost(r) == ~r.lost_connection /\ ~r.event_active

\* The list holds the live trackers, each once, each with one reference.
ListInv ==
    /\ \A j, k \in DOMAIN collectives : collectives[j] = collectives[k] => j = k
    /\ \A t \in Trackers : Listed(t) <=> Live(t)
    /\ \A t \in Trackers : trk[t].refs \in {0, 1} /\ Unlost(trk[t])

Op(t) == CallOf(trk[t].type, trk[t].pcs)

\* There is one tracker for a collective.
UniqueInv == \A t, u \in Trackers : Listed(t) /\ Listed(u) /\ Op(t) = Op(u) => t = u

\* The caddies of a tracker are those of different participants, and nlocal
\* counts every participant once the tracker is completely defined.
GoodRecord(r) ==
    /\ r.type \in Types /\ r.pcs \in Signatures
    /\ \A i, j \in DOMAIN r.local_cbs : r.local_cbs[i].proc = r.local_cbs[j].proc => i = j
    /\ \A i \in DOMAIN r.local_cbs : r.local_cbs[i].timer = "none"
    /\ ProcsOf(r) \subseteq Participants(r.pcs)
    /\ r.def_complete => Cardinality(Participants(r.pcs)) <= r.nlocal

\* The processes with a caddy in a tracker wait for its collective.
RecordInv ==
    \A t \in Trackers : Listed(t) =>
        GoodRecord(trk[t]) /\ \A p \in ProcsOf(trk[t]) : Op(t) \in calls[p]

Pending(t) == held[t] > 0 \/ Queued(t)

\* A collective is with the host or in the queue at most once, and then it is
\* listed and all its participants have contributed.
PendingInv ==
    /\ \A t \in Trackers : Pending(t) => Listed(t) /\ Participants(trk[t].pcs) \subseteq ProcsOf(trk[t])
    /\ \A t \in Trackers : held[t] \in {0, 1} /\ (held[t] = 1 => ~Queued(t))
    /\ \A i, j \in DOMAIN shifted : shifted[i].trk = shifted[j].trk => i = j
    /\ \A i \in DOMAIN shifted : shifted[i].fn = "cbfunc"

CInv == TypeOK /\ Static /\ ListInv /\ UniqueInv /\ RecordInv /\ PendingInv

-----------------------------------------------------------------------------
(* Lists, arrays of procs and records                                       *)

\* Append adds one element behind the others.
LEMMA AppendLemma ==
    ASSUME NEW S, NEW list \in Seq(S), NEW x \in S
    PROVE  LET n == Len(list) + 1
               a == Append(list, x)
           IN  /\ a \in Seq(S)
               /\ DOMAIN a = DOMAIN list \cup {n} /\ n \notin DOMAIN list
               /\ \A i \in DOMAIN list : a[i] = list[i]
               /\ a[n] = x
<1> DEFINE n == Len(list) + 1
           a == Append(list, x)
<1>1. Len(list) \in Nat /\ DOMAIN list = 1 .. Len(list)
  OBVIOUS
<1>2. a \in Seq(S) /\ Len(a) = n /\ DOMAIN a = 1 .. n
  OBVIOUS
<1>3. \A i \in 1 .. Len(list) : a[i] = list[i]
  OBVIOUS
<1>4. a[n] = x
  OBVIOUS
<1>5. 1 .. n = (1 .. Len(list)) \cup {n} /\ n \notin 1 .. Len(list)
  BY <1>1
<1> QED BY <1>1, <1>2, <1>3, <1>4, <1>5, Zenon

\* pmix_list_remove_item takes off exactly the item, and keeps the others.
LEMMA WithoutLemma ==
    ASSUME NEW S, NEW list \in Seq(S), NEW x \in ToSet(list),
           \A j, k \in DOMAIN list : list[j] = list[k] => j = k
    PROVE  /\ Without(list, x) \in Seq(S)
           /\ ToSet(Without(list, x)) = ToSet(list) \ {x}
           /\ LET w == Without(list, x)
              IN  \A j, k \in DOMAIN w : w[j] = w[k] => j = k
<1> DEFINE k == CHOOSE k \in DOMAIN list : list[k] = x
           w == Without(list, x)
<1>1. k \in 1 .. Len(list) /\ list[k] = x
  BY DEF ToSet
<1>2. w = [i \in 1 .. (Len(list) - 1) |-> IF i < k THEN list[i] ELSE list[i + 1]]
  BY Zenon DEF Without
<1> HIDE DEF k, w
<1>3. w \in Seq(S) /\ DOMAIN w = 1 .. (Len(list) - 1)
  BY <1>1, <1>2
<1>4. \A i, j \in DOMAIN w : w[i] = w[j] => i = j
  BY <1>1, <1>2, <1>3
<1>5. \A i \in DOMAIN w : w[i] \in ToSet(list) /\ w[i] # x
  BY <1>1, <1>2, <1>3 DEF ToSet
<1>6. ASSUME NEW y \in ToSet(list), y # x
      PROVE  \E i \in DOMAIN w : w[i] = y
  <2>1. PICK j \in 1 .. Len(list) : list[j] = y
    BY DEF ToSet
  <2>2. CASE j < k
    BY <1>1, <1>2, <1>3, <2>1, <2>2
  <2>3. CASE j > k
    <3>1. j - 1 \in DOMAIN w /\ w[j - 1] = y
      BY <1>1, <1>2, <1>3, <2>1, <2>3
    <3> QED BY <3>1, Zenon
  <2> QED BY <1>1, <1>6, <2>1, <2>2, <2>3
<1>7. ToSet(w) = ToSet(list) \ {x}
  <2>1. \A y \in ToSet(w) : y \in ToSet(list) \ {x}
    <3> HIDE DEF ToSet
    <3>1. \A y \in ToSet(w) : \E i \in DOMAIN w : y = w[i]
      BY Zenon DEF ToSet
    <3> QED BY <3>1, <1>5, Zenon
  <2>2. \A y \in ToSet(list) \ {x} : y \in ToSet(w)
    <3>1. \A i \in DOMAIN w : w[i] \in ToSet(w)
      BY Zenon DEF ToSet
    <3> QED BY <3>1, <1>6, Zenon
  <2> QED BY <2>1, <2>2, Zenon
<1> QED BY <1>3, <1>4, <1>7, Zenon DEF w

\* An array of procs without repetition has as many members as places.
LEMMA ArraySize ==
    ASSUME NEW S, NEW a \in Seq(S), \A i, j \in DOMAIN a : a[i] = a[j] => i = j
    PROVE  IsFiniteSet(ToSet(a)) /\ Cardinality(ToSet(a)) = Len(a)
<1>1. IsFiniteSet(1 .. Len(a)) /\ Cardinality(1 .. Len(a)) = Len(a)
  <2>1. Len(a) \in Nat /\ 1 \in Int
    OBVIOUS
  <2>2. \A m \in Nat : IsFiniteSet(1 .. m) /\ Cardinality(1 .. m) = m
    <3>1. \A m \in Nat : /\ IsFiniteSet(1 .. m)
                         /\ Cardinality(1 .. m) = IF 1 > m THEN 0 ELSE m - 1 + 1
      BY FS_Interval
    <3> QED BY <3>1
  <2> QED BY <2>1, <2>2, Zenon
<1>2. a \in Surjection(1 .. Len(a), ToSet(a)) /\ a \in Injection(1 .. Len(a), ToSet(a))
  BY DEF Surjection, Injection, IsInjective, ToSet
<1> QED BY <1>1, <1>2, FS_Surjection, Zenon

\* get_tracker compares arrays as sets.
LEMMA SameProcsLemma ==
    ASSUME NEW a \in Signatures, NEW b \in Signatures
    PROVE  SameProcs(a, b) <=> ToSet(a) = ToSet(b)
<1> DEFINE S == [ns : Nspaces, rank : {p.rank : p \in LocalProcs} \cup {WILDCARD}]
<1>1. a \in Seq(S) /\ b \in Seq(S)
  BY CollectivesAssumption, Zenon
<1> HIDE DEF S
<1>2. /\ IsFiniteSet(ToSet(a)) /\ Cardinality(ToSet(a)) = Len(a)
      /\ IsFiniteSet(ToSet(b)) /\ Cardinality(ToSet(b)) = Len(b)
  BY <1>1, ArraySize, CollectivesAssumption, Zenon
<1>3. ASSUME SameProcs(a, b) PROVE ToSet(a) = ToSet(b)
  <2>1. ToSet(a) \subseteq ToSet(b) /\ Len(a) = Len(b)
    BY <1>3, Zenon DEF SameProcs, ToSet
  <2> QED BY <1>2, <2>1, FS_Subset, Zenon
<1>4. ASSUME ToSet(a) = ToSet(b) PROVE SameProcs(a, b)
  <2>1. Len(a) = Len(b)
    BY <1>2, <1>4, Zenon
  <2>2. \A i \in DOMAIN a : a[i] \in ToSet(b)
    BY <1>4, Zenon DEF ToSet
  <2> QED BY <2>1, <2>2, Zenon DEF SameProcs, ToSet
<1> QED BY <1>3, <1>4, Zenon

\* The participants are finitely many.
LEMMA ParticipantsFinite ==
    ASSUME NEW pcs
    PROVE  IsFiniteSet(Participants(pcs))
BY FS_Subset, CollectivesAssumption, Zenon DEF Participants

\* The fields of a tracker, once, for the provers.
LEMMA TrackerFields ==
    ASSUME NEW r \in TrackerRecords
    PROVE  /\ r.type \in Types \cup {"none"}
           /\ r.pcs \in Signatures \cup {<<>>}
           /\ r.nlocal \in Nat
           /\ r.def_complete \in BOOLEAN
           /\ r.local_cbs \in Seq(Caddies)
           /\ r.collect_type \in {"no", "yes", "invalid"}
           /\ r.lost_connection \in BOOLEAN
           /\ r.event_active \in BOOLEAN
           /\ r.refs \in Nat
BY Zenon DEF TrackerRecords

\* What a contribution changes in a tracker.
LEMMA ContributeLemma ==
    ASSUME NEW r \in TrackerRecords, NEW p \in LocalProcs
    PROVE  LET c == Contribute(r, p, "none") IN
           /\ c \in TrackerRecords
           /\ c.type = r.type /\ c.pcs = r.pcs
           /\ c.nlocal = r.nlocal /\ c.def_complete = r.def_complete
           /\ c.refs = r.refs /\ (Unlost(r) => Unlost(c))
           /\ c.local_cbs = Append(r.local_cbs, [proc |-> p, timer |-> "none"])
           /\ ProcsOf(c) = ProcsOf(r) \cup {p}
<1> DEFINE c == Contribute(r, p, "none")
           cd == [proc |-> p, timer |-> "none"]
<1>1. r.local_cbs \in Seq(Caddies) /\ cd \in Caddies /\ r.refs \in Nat
  BY TrackerFields, Zenon DEF Caddies
<1>2. /\ c.type = r.type /\ c.pcs = r.pcs
      /\ c.nlocal = r.nlocal /\ c.def_complete = r.def_complete
      /\ c.refs = r.refs /\ (Unlost(r) => Unlost(c))
      /\ c.local_cbs = Append(r.local_cbs, cd)
  BY <1>1 DEF Contribute, TrackerRecords, Unlost
<1>3. Append(r.local_cbs, cd) \in Seq(Caddies)
  BY <1>1
<1>4. c \in TrackerRecords
  <2> HIDE DEF cd
  <2> DEFINE cbs == Append(r.local_cbs, cd)
             n == r.refs + IF "none" = "none" THEN 0 ELSE 1
  <2>1. c = [r EXCEPT !.local_cbs = cbs, !.refs = n]
    BY Zenon DEF Contribute, cd
  <2>2. cbs \in Seq(Caddies) /\ n \in Nat
    BY <1>1, <1>3
  <2> HIDE DEF cbs, n, c
  <2> QED BY <2>1, <2>2, Zenon DEF TrackerRecords
<1>5. ProcsOf(c) = ProcsOf(r) \cup {p}
  <2> DEFINE cbs == r.local_cbs
             new == c.local_cbs
  <2>1. /\ DOMAIN new = DOMAIN cbs \cup {Len(cbs) + 1}
        /\ \A i \in DOMAIN cbs : new[i] = cbs[i]
        /\ new[Len(cbs) + 1].proc = p
    BY <1>1, <1>2
  <2> HIDE DEF cbs, new
  <2>2. {new[i].proc : i \in DOMAIN new} = {cbs[i].proc : i \in DOMAIN cbs} \cup {p}
    BY <2>1, Zenon
  <2> QED BY <2>2, Zenon DEF ProcsOf, cbs, new
<1> QED BY <1>2, <1>4, <1>5, Zenon

\* new_tracker counts every participant when all clients are registered, unless
\* it finds an nspace that is not completely registered.
LEMMA NewTrackerLemma ==
    ASSUME Static, NEW type \in Types, NEW procs \in Signatures
    PROVE  LET r == new_tracker(type, procs) IN
           /\ r \in TrackerRecords
           /\ r.type = type /\ r.pcs = procs /\ r.refs = 1
           /\ Unlost(r) /\ r.local_cbs = <<>>
           /\ r.def_complete => Cardinality(Participants(procs)) <= r.nlocal
<1> DEFINE pairs == {x \in LookedAt(procs) \X ranks : Names(procs[x[1]], x[2])}
           r == new_tracker(type, procs)
<1>1. procs \in Seq([ns : Nspaces, rank : {p.rank : p \in LocalProcs} \cup {WILDCARD}])
  BY CollectivesAssumption, Zenon
<1>2. IsFiniteSet(pairs)
  <2>1. DOMAIN procs = 1 .. Len(procs) /\ Len(procs) \in Nat
    BY <1>1
  <2>2. IsFiniteSet(DOMAIN procs)
    BY <2>1, FS_Interval
  <2>3. IsFiniteSet(LookedAt(procs))
    BY <2>2, FS_Subset, Zenon DEF LookedAt
  <2>4. IsFiniteSet(ranks)
    BY CollectivesAssumption, Zenon DEF Static
  <2>5. IsFiniteSet(LookedAt(procs) \X ranks)
    BY <2>3, <2>4, FS_Product, Zenon
  <2> QED BY <2>5, FS_Subset, Zenon
<1>3. Cardinality(pairs) \in Nat
  BY <1>2, FS_CardinalityType, Zenon
<1>4. /\ r.type = type /\ r.pcs = procs /\ r.refs = 1
      /\ Unlost(r) /\ r.local_cbs = <<>>
      /\ r.nlocal = Cardinality(pairs)
      /\ r.def_complete = (Undefined(procs) = {})
  BY Zenon DEF new_tracker, Unlost
<1>5. r \in TrackerRecords
  <2>1. <<>> \in Seq(Caddies)
    OBVIOUS
  <2> HIDE DEF pairs
  <2>2. (Undefined(procs) = {}) \in BOOLEAN
    BY Zenon
  <2> QED BY <1>3, <2>1, <2>2, Zenon DEF new_tracker, TrackerRecords, pairs
<1>6. ASSUME r.def_complete
      PROVE  Cardinality(Participants(procs)) <= r.nlocal
  <2>1. LookedAt(procs) = DOMAIN procs
    BY <1>4, <1>6, Zenon DEF LookedAt
  <2> DEFINE f == [p \in Participants(procs) |->
                     <<CHOOSE i \in DOMAIN procs : Names(procs[i], p), p>>]
  <2>2. \A p \in Participants(procs) : f[p] \in pairs /\ f[p][2] = p
    <3>1. \A p \in Participants(procs) :
             \E i \in DOMAIN procs : Names(procs[i], p)
      BY Zenon DEF Participants
    <3>2. Participants(procs) \subseteq ranks
      BY Zenon DEF Participants, Static
    <3> QED BY <2>1, <3>1, <3>2, Zenon
  <2> HIDE DEF pairs
  <2>3. f \in Injection(Participants(procs), pairs)
    <3>1. f \in [Participants(procs) -> pairs]
      BY <2>2, Zenon
    <3>2. \A p, q \in Participants(procs) : f[p] = f[q] => p = q
      BY <2>2, Zenon
    <3> HIDE DEF f
    <3> QED BY <3>1, <3>2, Zenon DEF Injection, IsInjective
  <2> QED BY <1>2, <1>4, <2>3, FS_Injection
<1> QED BY <1>4, <1>5, <1>6, Zenon

\* When a tracker is locally complete, everybody has contributed.
LEMMA CompleteLemma ==
    ASSUME NEW r \in TrackerRecords, GoodRecord(r), LocallyComplete(r)
    PROVE  Participants(r.pcs) \subseteq ProcsOf(r)
<1> DEFINE cbs == r.local_cbs
           a == [i \in 1 .. Len(cbs) |-> cbs[i].proc]
<1>1. cbs \in Seq(Caddies) /\ r.nlocal \in Nat
  BY TrackerFields, Zenon
<1>2. /\ Len(cbs) = r.nlocal
      /\ Cardinality(Participants(r.pcs)) <= r.nlocal
      /\ ProcsOf(r) \subseteq Participants(r.pcs)
  BY Zenon DEF LocallyComplete, GoodRecord
<1>3. a \in Seq(LocalProcs) /\ Len(a) = Len(cbs)
  <2>1. \A i \in 1 .. Len(cbs) : cbs[i] \in Caddies
    BY <1>1
  <2>2. \A i \in 1 .. Len(cbs) : cbs[i].proc \in LocalProcs
    BY <2>1, Zenon DEF Caddies
  <2>3. Len(cbs) \in Nat
    BY <1>1
  <2> HIDE DEF cbs
  <2> QED BY <2>2, <2>3
<1>4. \A i, j \in DOMAIN a : a[i] = a[j] => i = j
  BY <1>1 DEF GoodRecord
<1>5. ToSet(a) = ProcsOf(r)
  <2>1. DOMAIN a = DOMAIN cbs /\ \A i \in DOMAIN cbs : a[i] = cbs[i].proc
    BY <1>1
  <2> HIDE DEF a
  <2> QED BY <2>1, Zenon DEF ToSet, ProcsOf
<1> HIDE DEF a, cbs
<1>6. IsFiniteSet(ProcsOf(r)) /\ Cardinality(ProcsOf(r)) = Len(a)
  BY <1>3, <1>4, <1>5, ArraySize, Zenon
<1>7. /\ IsFiniteSet(Participants(r.pcs))
      /\ Cardinality(Participants(r.pcs)) \in Nat
  BY ParticipantsFinite, FS_CardinalityType, Zenon
<1>8. Cardinality(ProcsOf(r)) <= Cardinality(Participants(r.pcs))
  BY <1>2, <1>7, FS_Subset, Zenon
<1>9. Cardinality(Participants(r.pcs)) = Cardinality(ProcsOf(r))
  BY <1>1, <1>2, <1>3, <1>6, <1>7, <1>8
<1> QED BY <1>2, <1>7, <1>9, FS_Subset, Zenon

\* The tracker a request goes to is the one of its collective, or else it is
\* unused and there is none of its collective.
LEMMA TrackerForLemma ==
    ASSUME CInv, NEW type \in Types, NEW procs \in Signatures,
           NEW t \in TrackerFor(type, procs)
    PROVE  /\ t \in Trackers
           /\ Listed(t) => Op(t) = CallOf(type, procs)
           /\ ~Listed(t) => /\ held[t] = 0 /\ ~Queued(t) /\ ~Live(t)
                            /\ \A u \in Trackers : Listed(u) => Op(u) # CallOf(type, procs)
<1> USE DEF CInv
<1>1. collectives \in Seq(Trackers)
  BY Zenon DEF TypeOK
<1>2. CASE Found(type, procs) # {}
  <2>1. PICK k \in Found(type, procs) : t = collectives[k]
    BY <1>2, Zenon DEF TrackerFor
  <2>2. k \in DOMAIN collectives /\ Matches(t, type, procs)
    BY <2>1, Zenon DEF Found
  <2>3. t \in Trackers /\ Listed(t)
    BY <1>1, <2>1, <2>2 DEF Listed, ToSet
  <2>4. trk[t].pcs \in Signatures
    BY <2>3, Zenon DEF RecordInv, GoodRecord
  <2>5. trk[t].type = type /\ ToSet(trk[t].pcs) = ToSet(procs)
    BY <2>2, <2>4, SameProcsLemma, Zenon DEF Matches
  <2> QED BY <2>3, <2>5, Zenon DEF Op, CallOf
<1>3. CASE Found(type, procs) = {}
  <2>1. t \in Trackers /\ Unused(t)
    BY <1>3, Zenon DEF TrackerFor
  <2>2. ASSUME NEW u \in Trackers, Listed(u), Op(u) = CallOf(type, procs)
        PROVE  FALSE
    <3>1. PICK k \in DOMAIN collectives : collectives[k] = u
      BY <2>2, Zenon DEF Listed, ToSet
    <3>2. trk[u].pcs \in Signatures
      BY <2>2, Zenon DEF RecordInv, GoodRecord
    <3>3. trk[u].type = type /\ ToSet(procs) = ToSet(trk[u].pcs)
      BY <2>2, Zenon DEF Op, CallOf
    <3>4. Matches(u, type, procs)
      BY <3>2, <3>3, SameProcsLemma, Zenon DEF Matches
    <3> QED BY <1>3, <3>1, <3>4, Zenon DEF Found
  <2>3. ~Live(t)
    BY <2>1 DEF Unused, Live
  <2> QED BY <2>1, <2>2, <2>3, Zenon DEF Unused
<1> QED BY <1>2, <1>3, Zenon

-----------------------------------------------------------------------------
(* The requests of clients                                                  *)

\* The record with which a request starts: that of a tracker in the list, or a
\* new one.
LEMMA TrackerRecordLemma ==
    ASSUME CInv, NEW type \in Types, NEW procs \in Signatures,
           NEW t \in TrackerFor(type, procs), NEW p \in Participants(procs),
           CallOf(type, procs) \notin calls[p]
    PROVE  LET r == TrackerRecord(t, type, procs) IN
           /\ r \in TrackerRecords /\ GoodRecord(r)
           /\ CallOf(r.type, r.pcs) = CallOf(type, procs)
           /\ r.refs = 1 /\ Unlost(r)
           /\ \A q \in ProcsOf(r) : CallOf(type, procs) \in calls[q]
           /\ p \in Participants(r.pcs) /\ p \notin ProcsOf(r)
           /\ ~Pending(t)
<1> USE DEF CInv
<1> DEFINE r == TrackerRecord(t, type, procs)
<1>1. t \in Trackers
  BY TrackerForLemma, Zenon
<1>2. CASE Listed(t)
  <2>1. r = trk[t]
    BY <1>2, Zenon DEF TrackerRecord, IsNew
  <2>2. Op(t) = CallOf(type, procs)
    BY <1>2, TrackerForLemma, Zenon
  <2>3. r \in TrackerRecords /\ GoodRecord(r) /\ r.refs = 1 /\ Unlost(r)
    BY <1>1, <1>2, <2>1 DEF TypeOK, RecordInv, ListInv, Live
  <2>4. \A q \in ProcsOf(r) : CallOf(type, procs) \in calls[q]
    BY <1>1, <1>2, <2>1, <2>2, Zenon DEF RecordInv
  <2>5. p \in Participants(r.pcs)
    <3>1. ToSet(r.pcs) = ToSet(procs)
      BY <2>1, <2>2, Zenon DEF Op, CallOf
    <3>2. p \in LocalProcs
      BY Zenon DEF Participants
    <3>3. PICK i \in DOMAIN procs : Names(procs[i], p)
      BY Zenon DEF Participants
    <3>4. procs[i] \in ToSet(r.pcs)
      BY <3>1, <3>3, Zenon DEF ToSet
    <3>5. PICK j \in DOMAIN r.pcs : r.pcs[j] = procs[i]
      BY <3>4, Zenon DEF ToSet
    <3> QED BY <3>2, <3>3, <3>5, Zenon DEF Participants
  <2>6. p \notin ProcsOf(r)
    BY <2>4, Zenon
  <2>7. ~Pending(t)
    BY <1>1, <2>1, <2>5, <2>6, Zenon DEF PendingInv
  <2> HIDE DEF r
  <2> QED BY <2>1, <2>2, <2>3, <2>4, <2>5, <2>6, <2>7, Zenon DEF Op, r
<1>3. CASE ~Listed(t)
  <2>1. r = new_tracker(type, procs)
    BY <1>3, Zenon DEF TrackerRecord, IsNew
  <2>2. /\ r \in TrackerRecords
        /\ r.type = type /\ r.pcs = procs /\ r.refs = 1
        /\ Unlost(r) /\ r.local_cbs = <<>>
        /\ r.def_complete => Cardinality(Participants(procs)) <= r.nlocal
    BY <2>1, NewTrackerLemma
  <2>3. ProcsOf(r) = {}
    BY <2>2 DEF ProcsOf
  <2>4. GoodRecord(r)
    BY <2>2, <2>3 DEF GoodRecord
  <2>5. ~Pending(t)
    BY <1>3, TrackerForLemma DEF Pending
  <2> HIDE DEF r
  <2> QED BY <2>2, <2>3, <2>4, <2>5, Zenon DEF r
<1> QED BY <1>2, <1>3, Zenon

\* A participant that is not there yet joins a tracker.
LEMMA ContributeGood ==
    ASSUME NEW r \in TrackerRecords, GoodRecord(r),
           NEW p \in Participants(r.pcs), p \notin ProcsOf(r)
    PROVE  GoodRecord(Contribute(r, p, "none"))
<1> DEFINE c == Contribute(r, p, "none")
           cbs == r.local_cbs
<1>1. p \in LocalProcs
  BY Zenon DEF Participants
<1>2. /\ c.type = r.type /\ c.pcs = r.pcs
      /\ c.nlocal = r.nlocal /\ c.def_complete = r.def_complete
      /\ c.local_cbs = Append(cbs, [proc |-> p, timer |-> "none"])
      /\ ProcsOf(c) = ProcsOf(r) \cup {p}
  BY <1>1, ContributeLemma, Zenon
<1>3. /\ cbs \in Seq(Caddies)
      /\ DOMAIN cbs = 1 .. Len(cbs) /\ Len(cbs) \in Nat
  BY TrackerFields
<1> HIDE DEF c, cbs
<1>4. /\ DOMAIN c.local_cbs = 1 .. (Len(cbs) + 1)
      /\ \A i \in 1 .. Len(cbs) : c.local_cbs[i] = cbs[i]
      /\ c.local_cbs[Len(cbs) + 1].proc = p
      /\ c.local_cbs[Len(cbs) + 1].timer = "none"
  BY <1>2, <1>3
<1>5. \A i \in 1 .. Len(cbs) : cbs[i].proc # p
  BY <1>3, Zenon DEF ProcsOf, cbs
<1>6. \A i, j \in DOMAIN c.local_cbs : c.local_cbs[i].proc = c.local_cbs[j].proc => i = j
  <2>1. \A i, j \in 1 .. Len(cbs) : cbs[i].proc = cbs[j].proc => i = j
    BY <1>3, Zenon DEF GoodRecord, cbs
  <2>2. DOMAIN c.local_cbs = (1 .. Len(cbs)) \cup {Len(cbs) + 1}
    BY <1>3, <1>4
  <2>3. \A i \in 1 .. Len(cbs) : c.local_cbs[i].proc # p
    BY <1>4, <1>5, Zenon
  <2>4. \A i, j \in 1 .. Len(cbs) : c.local_cbs[i].proc = c.local_cbs[j].proc => i = j
    BY <1>4, <2>1, Zenon
  <2> QED BY <1>4, <2>2, <2>3, <2>4, Zenon
<1>7. \A i \in DOMAIN c.local_cbs : c.local_cbs[i].timer = "none"
  BY <1>3, <1>4 DEF GoodRecord, cbs
<1>8. ProcsOf(c) \subseteq Participants(c.pcs)
  BY <1>2, Zenon DEF GoodRecord
<1> QED BY <1>2, <1>6, <1>7, <1>8, Zenon DEF GoodRecord, c

\* The list after a request.
LEMMA TrackerListLemma ==
    ASSUME CInv, NEW t \in Trackers
    PROVE  LET l == TrackerList(t) IN
           /\ l \in Seq(Trackers)
           /\ ToSet(l) = ToSet(collectives) \cup {t}
           /\ \A j, k \in DOMAIN l : l[j] = l[k] => j = k
<1> USE DEF CInv
<1>1. collectives \in Seq(Trackers)
  BY Zenon DEF TypeOK
<1>2. \A j, k \in DOMAIN collectives : collectives[j] = collectives[k] => j = k
  BY Zenon DEF ListInv
<1>3. CASE Listed(t)
  BY <1>1, <1>2, <1>3, Zenon DEF TrackerList, IsNew, Listed
<1>4. CASE ~Listed(t)
  <2> DEFINE l == Append(collectives, t)
  <2>1. TrackerList(t) = l
    BY <1>4, Zenon DEF TrackerList, IsNew
  <2>2. /\ l \in Seq(Trackers)
        /\ DOMAIN l = DOMAIN collectives \cup {Len(collectives) + 1}
        /\ \A k \in DOMAIN collectives : l[k] = collectives[k]
        /\ l[Len(collectives) + 1] = t
        /\ Len(collectives) + 1 \notin DOMAIN collectives
    BY <1>1
  <2>3. \A k \in DOMAIN collectives : collectives[k] # t
    BY <1>4, Zenon DEF Listed, ToSet
  <2> HIDE DEF l
  <2>4. \A j, k \in DOMAIN l : l[j] = l[k] => j = k
    BY <1>2, <2>2, <2>3, Zenon
  <2>5. ToSet(l) = ToSet(collectives) \cup {t}
    BY <2>2, Zenon DEF ToSet
  <2> QED BY <2>1, <2>2, <2>4, <2>5, Zenon
<1> QED BY <1>3, <1>4, Zenon

\* A good record that is put in the list, or updated there, keeps the invariant;
\* if it goes to the host, everybody has to be there.
LEMMA PutLemma ==
    ASSUME CInv, NEW t \in Trackers, ~Pending(t),
           NEW r \in TrackerRecords, GoodRecord(r), r.refs = 1, Unlost(r),
           Listed(t) => Op(t) = CallOf(r.type, r.pcs),
           ~Listed(t) => \A u \in Trackers : Listed(u) => Op(u) # CallOf(r.type, r.pcs),
           trk' = [trk EXCEPT ![t] = r],
           collectives' = TrackerList(t),
           calls' \in [LocalProcs -> SUBSET Calls],
           \A q \in LocalProcs : calls[q] \subseteq calls'[q],
           \A q \in ProcsOf(r) : CallOf(r.type, r.pcs) \in calls'[q],
           \/ held' = held
           \/ held' = [held EXCEPT ![t] = @ + 1] /\ Participants(r.pcs) \subseteq ProcsOf(r),
           UNCHANGED <<nsvars, shifted>>
    PROVE  CInv'
<1> USE DEF CInv
<1>1. TypeOK'
  <2>1. collectives' \in Seq(Trackers)
    BY TrackerListLemma, Zenon
  <2>2. trk' \in [Trackers -> TrackerRecords]
    BY Zenon DEF TypeOK
  <2>3. held' \in [Trackers -> Nat]
    BY DEF TypeOK
  <2> QED BY <2>1, <2>2, <2>3, Zenon DEF TypeOK, nsvars
<1>2. Static'
  BY Zenon DEF Static, nsvars
<1>3. /\ trk'[t] = r
      /\ \A u \in Trackers : u # t => trk'[u] = trk[u]
  BY Zenon DEF TypeOK
<1>4. \A u \in Trackers : Listed(u)' <=> Listed(u) \/ u = t
  BY TrackerListLemma, Zenon DEF Listed
<1>5. ListInv'
  <2>1. \A j, k \in DOMAIN collectives' : collectives'[j] = collectives'[k] => j = k
    BY TrackerListLemma, Zenon
  <2>2. \A u \in Trackers : Listed(u)' <=> Live(u)'
    BY <1>3, <1>4 DEF ListInv, Live
  <2>3. \A u \in Trackers : trk'[u].refs \in {0, 1} /\ Unlost(trk'[u])
    BY <1>3, Zenon DEF ListInv
  <2> QED BY <2>1, <2>2, <2>3, Zenon DEF ListInv
<1>6. /\ Op(t)' = CallOf(r.type, r.pcs)
      /\ \A u \in Trackers : u # t => Op(u)' = Op(u)
  BY <1>3, Zenon DEF Op
<1>7. UniqueInv'
  <2> SUFFICES ASSUME NEW u \in Trackers, NEW v \in Trackers,
                      Listed(u)', Listed(v)', Op(u)' = Op(v)'
               PROVE  u = v
    BY Zenon DEF UniqueInv
  <2>1. CASE u # t /\ v # t
    BY <1>4, <1>6, <2>1, Zenon DEF UniqueInv
  <2>2. CASE u = t /\ v # t
    BY <1>4, <1>6, <2>2, Zenon DEF UniqueInv
  <2>3. CASE u # t /\ v = t
    BY <1>4, <1>6, <2>3, Zenon DEF UniqueInv
  <2> QED BY <2>1, <2>2, <2>3, Zenon
<1>8. RecordInv'
  <2> SUFFICES ASSUME NEW u \in Trackers, Listed(u)'
               PROVE  /\ GoodRecord(trk'[u])
                      /\ \A p \in ProcsOf(trk'[u]) : Op(u)' \in calls'[p]
    BY Zenon DEF RecordInv, GoodRecord, ProcsOf
  <2>1. CASE u = t
    BY <1>3, <1>6, <2>1, Zenon
  <2>2. CASE u # t
    <3>1. GoodRecord(trk[u]) /\ \A p \in ProcsOf(trk[u]) : Op(u) \in calls[p]
      BY <1>4, <2>2, Zenon DEF RecordInv
    <3>2. ProcsOf(trk[u]) \subseteq LocalProcs
      BY <3>1, Zenon DEF GoodRecord, Participants
    <3> QED BY <1>3, <1>6, <2>2, <3>1, <3>2, Zenon
  <2> QED BY <2>1, <2>2, Zenon
<1>9. PendingInv'
  <2>1. \A u \in Trackers : Queued(u)' <=> Queued(u)
    BY Zenon DEF Queued
  <2>2. \A u \in Trackers : u # t => held'[u] = held[u]
    BY Zenon DEF TypeOK
  <2>3. held[t] = 0 /\ ~Queued(t)
    BY DEF Pending, TypeOK
  <2>4. held'[t] = 0 \/ (held'[t] = 1 /\ Participants(r.pcs) \subseteq ProcsOf(r))
    BY <2>3 DEF TypeOK
  <2>5. ASSUME NEW u \in Trackers, Pending(u)'
        PROVE  Listed(u)' /\ Participants(trk'[u].pcs) \subseteq ProcsOf(trk'[u])
    <3>1. CASE u = t
      BY <1>3, <1>4, <2>1, <2>3, <2>4, <2>5, <3>1, Zenon DEF Pending
    <3>2. CASE u # t
      <4>1. Pending(u)
        BY <2>1, <2>2, <2>5, <3>2, Zenon DEF Pending
      <4> QED BY <1>3, <1>4, <3>2, <4>1, Zenon DEF PendingInv
    <3> QED BY <3>1, <3>2, Zenon
  <2>6. \A u \in Trackers : held'[u] \in {0, 1} /\ (held'[u] = 1 => ~Queued(u)')
    BY <2>1, <2>2, <2>3, <2>4, Zenon DEF PendingInv
  <2>7. /\ \A i, j \in DOMAIN shifted' : shifted'[i].trk = shifted'[j].trk => i = j
        /\ \A i \in DOMAIN shifted' : shifted'[i].fn = "cbfunc"
    BY Zenon DEF PendingInv
  <2> QED BY <2>5, <2>6, <2>7, Zenon DEF PendingInv, Participants, ProcsOf
<1> QED BY <1>1, <1>2, <1>5, <1>7, <1>8, <1>9, Zenon

\* A tracker that is freed when it is taken off the list, and is neither with
\* the host nor in the queue any more, keeps the invariant.
LEMMA FreeLemma ==
    ASSUME CInv, NEW t \in Trackers, held[t] = 0,
           NEW r \in TrackerRecords, r.refs = 0, Unlost(r),
           trk' = [trk EXCEPT ![t] = r],
           collectives' \in Seq(Trackers),
           ToSet(collectives') = ToSet(collectives) \ {t},
           \A j, k \in DOMAIN collectives' : collectives'[j] = collectives'[k] => j = k,
           calls' \in [LocalProcs -> SUBSET Calls],
           \A u \in Trackers : \A q \in LocalProcs :
               u # t /\ Listed(u) /\ Op(u) \in calls[q] => Op(u) \in calls'[q],
           shifted' \in Seq(EventRecords),
           \A u \in Trackers : Queued(u)' => Queued(u) /\ u # t,
           \A i, j \in DOMAIN shifted' : shifted'[i].trk = shifted'[j].trk => i = j,
           \A i \in DOMAIN shifted' : shifted'[i].fn = "cbfunc",
           UNCHANGED <<nsvars, held>>
    PROVE  CInv'
<1> USE DEF CInv
<1>1. TypeOK'
  <2>1. trk' \in [Trackers -> TrackerRecords]
    BY Zenon DEF TypeOK
  <2> QED BY <2>1, Zenon DEF TypeOK, nsvars
<1>2. Static'
  BY Zenon DEF Static, nsvars
<1>3. /\ trk'[t] = r
      /\ \A u \in Trackers : u # t => trk'[u] = trk[u]
  BY Zenon DEF TypeOK
<1>4. \A u \in Trackers : Listed(u)' <=> Listed(u) /\ u # t
  BY Zenon DEF Listed
<1>5. ListInv'
  <2>1. \A u \in Trackers : Listed(u)' <=> Live(u)'
    BY <1>3, <1>4 DEF ListInv, Live
  <2>2. \A u \in Trackers : trk'[u].refs \in {0, 1} /\ Unlost(trk'[u])
    BY <1>3, Zenon DEF ListInv
  <2> QED BY <2>1, <2>2, Zenon DEF ListInv
<1>6. \A u \in Trackers : u # t => Op(u)' = Op(u)
  BY <1>3, Zenon DEF Op
<1>7. UniqueInv'
  BY <1>4, <1>6, Zenon DEF UniqueInv
<1>8. RecordInv'
  <2> SUFFICES ASSUME NEW u \in Trackers, Listed(u)'
               PROVE  /\ GoodRecord(trk'[u])
                      /\ \A p \in ProcsOf(trk'[u]) : Op(u)' \in calls'[p]
    BY Zenon DEF RecordInv, GoodRecord, ProcsOf
  <2>1. u # t /\ Listed(u)
    BY <1>4, Zenon
  <2>2. GoodRecord(trk[u]) /\ \A p \in ProcsOf(trk[u]) : Op(u) \in calls[p]
    BY <2>1, Zenon DEF RecordInv
  <2>3. ProcsOf(trk[u]) \subseteq LocalProcs
    BY <2>2, Zenon DEF GoodRecord, Participants
  <2> QED BY <1>3, <1>6, <2>1, <2>2, <2>3, Zenon
<1>9. PendingInv'
  <2>1. ASSUME NEW u \in Trackers, Pending(u)'
        PROVE  Listed(u)' /\ Participants(trk'[u].pcs) \subseteq ProcsOf(trk'[u])
    <3>1. held'[u] > 0 \/ Queued(u)'
      BY <2>1, Zenon DEF Pending
    <3>2. ASSUME Queued(u)' PROVE Pending(u) /\ u # t
      BY <3>2, Zenon DEF Pending
    <3>3. ASSUME held'[u] > 0 PROVE Pending(u) /\ u # t
      <4>1. u # t
        BY <3>3
      <4> QED BY <3>3, <4>1, Zenon DEF Pending
    <3>4. Pending(u) /\ u # t
      BY <3>1, <3>2, <3>3, Zenon
    <3> QED BY <1>3, <1>4, <3>4, Zenon DEF PendingInv
  <2>2. \A u \in Trackers : held'[u] \in {0, 1} /\ (held'[u] = 1 => ~Queued(u)')
    BY Zenon DEF PendingInv
  <2> QED BY <2>1, <2>2, Zenon DEF PendingInv, Participants, ProcsOf
<1> QED BY <1>1, <1>2, <1>5, <1>7, <1>8, <1>9, Zenon

\* What a request finds and makes when no timers are set.
LEMMA RequestLemma ==
    ASSUME Environment, CInv, NEW type, NEW procs \in Signatures, NEW p \in LocalProcs,
           MayCall(p, type, procs)
    PROVE  /\ type \in Types
           /\ p \in Participants(procs)
           /\ CallOf(type, procs) \notin calls[p]
           /\ CallOf(type, procs) \in Calls
           /\ Timers(type) = {"none"}
BY DEF MayCall, Calls, Timers, Environment

\* An accepted or waiting request keeps the invariant.
LEMMA JoinInv ==
    ASSUME CInv, NEW type \in Types, NEW procs \in Signatures, NEW p \in LocalProcs,
           p \in Participants(procs), CallOf(type, procs) \notin calls[p],
           NEW t \in TrackerFor(type, procs),
           NEW r0 \in TrackerRecords, GoodRecord(r0),
           CallOf(r0.type, r0.pcs) = CallOf(type, procs),
           r0.refs = 1, Unlost(r0),
           \A q \in ProcsOf(r0) : CallOf(type, procs) \in calls[q],
           p \in Participants(r0.pcs), p \notin ProcsOf(r0), ~Pending(t),
           Wait(t, Contribute(r0, p, "none"), p, CallOf(type, procs)),
           \/ held' = held
           \/ LocallyComplete(Contribute(r0, p, "none")) /\ held' = [held EXCEPT ![t] = @ + 1],
           UNCHANGED nsvars
    PROVE  CInv'
<1> DEFINE r == Contribute(r0, p, "none")
           c == CallOf(type, procs)
<1>1. /\ r \in TrackerRecords
      /\ r.type = r0.type /\ r.pcs = r0.pcs /\ r.refs = 1 /\ Unlost(r)
      /\ ProcsOf(r) = ProcsOf(r0) \cup {p}
  BY ContributeLemma, Zenon
<1>2. GoodRecord(r)
  BY ContributeGood, Zenon
<1>3. t \in Trackers
  BY TrackerForLemma, Zenon
<1>4. /\ Listed(t) => Op(t) = c
      /\ ~Listed(t) => \A u \in Trackers : Listed(u) => Op(u) # c
  BY TrackerForLemma, Zenon
<1>5. c \in Calls
  BY DEF Calls
<1>6. calls \in [LocalProcs -> SUBSET Calls]
  BY Zenon DEF CInv, TypeOK
<1>7. calls' = [calls EXCEPT ![p] = @ \cup {c}]
  BY Zenon DEF Wait
<1>8. LocallyComplete(r) => Participants(r.pcs) \subseteq ProcsOf(r)
  BY <1>1, <1>2, CompleteLemma, Zenon
<1>9. trk' = [trk EXCEPT ![t] = r] /\ collectives' = TrackerList(t) /\ shifted' = shifted
  BY Zenon DEF Wait
<1>10. ProcsOf(r0) \subseteq LocalProcs
  BY Zenon DEF GoodRecord, Participants
<1> HIDE DEF r, c
<1>11. /\ calls' \in [LocalProcs -> SUBSET Calls]
       /\ \A q \in LocalProcs : calls[q] \subseteq calls'[q]
       /\ \A q \in ProcsOf(r) : c \in calls'[q]
  BY <1>1, <1>5, <1>6, <1>7, <1>10, Zenon DEF c
<1>12. CallOf(r.type, r.pcs) = c
  BY <1>1, Zenon DEF c
<1>13. \/ held' = held
       \/ held' = [held EXCEPT ![t] = @ + 1] /\ Participants(r.pcs) \subseteq ProcsOf(r)
  BY <1>8, Zenon DEF r
<1> QED BY <1>1, <1>2, <1>3, <1>4, <1>9, <1>11, <1>12, <1>13, PutLemma, Zenon

\* The directive to collect data is no concern of the invariant.
LEMMA CollectLemma ==
    ASSUME NEW r \in TrackerRecords, NEW x \in {"no", "yes", "invalid"}
    PROVE  LET c == [r EXCEPT !.collect_type = x] IN
           /\ c \in TrackerRecords
           /\ c.type = r.type /\ c.pcs = r.pcs /\ c.refs = r.refs
           /\ Unlost(r) => Unlost(c)
           /\ ProcsOf(c) = ProcsOf(r)
           /\ GoodRecord(r) => GoodRecord(c)
<1> DEFINE c == [r EXCEPT !.collect_type = x]
<1>1. /\ c \in TrackerRecords
      /\ c.type = r.type /\ c.pcs = r.pcs /\ c.refs = r.refs /\ c.nlocal = r.nlocal
      /\ c.def_complete = r.def_complete /\ c.local_cbs = r.local_cbs
      /\ Unlost(r) => Unlost(c)
  BY Zenon DEF TrackerRecords, Unlost
<1> HIDE DEF c
<1>2. ProcsOf(c) = ProcsOf(r)
  BY <1>1, Zenon DEF ProcsOf
<1>3. GoodRecord(r) => GoodRecord(c)
  BY <1>1, <1>2, Zenon DEF GoodRecord
<1> QED BY <1>1, <1>2, <1>3, Zenon DEF c

\* A tracker with one reference is freed when it is dropped.
LEMMA DropLemma ==
    ASSUME NEW r \in TrackerRecords, r.refs = 1
    PROVE  /\ Drop(r) \in TrackerRecords
           /\ Drop(r).refs = 0
           /\ Unlost(r) => Unlost(Drop(r))
<1> DEFINE e == <<>>
<1>1. e \in Seq(Caddies)
  OBVIOUS
<1>2. r.refs - 1 = 0
  OBVIOUS
<1>3. Drop(r) = [r EXCEPT !.refs = 0, !.local_cbs = e]
  BY <1>2, Zenon DEF Drop
<1> HIDE DEF e
<1>4. [r EXCEPT !.refs = 0, !.local_cbs = e] \in TrackerRecords
  BY <1>1, Zenon DEF TrackerRecords
<1>5. /\ [r EXCEPT !.refs = 0, !.local_cbs = e].refs = 0
      /\ Unlost(r) => Unlost([r EXCEPT !.refs = 0, !.local_cbs = e])
  BY Zenon DEF TrackerRecords, Unlost
<1> QED BY <1>3, <1>4, <1>5, Zenon

\* pmix_server_fence keeps the invariant: the caller joins the tracker, or the
\* host refuses and the tracker is freed.
LEMMA FenceInv ==
    ASSUME Environment, CInv, NEW p \in LocalProcs, NEW procs \in Signatures,
           NEW collect \in CollectDirectives, NEW timer \in Timers("fence"),
           pmix_server_fence(p, procs, collect, timer)
    PROVE  CInv'
<1> DEFINE call == CallOf("fence", procs)
           R(t) == TrackerRecord(t, "fence", procs)
           R0(t) == [R(t) EXCEPT !.collect_type = CollectType(t, R(t), collect)]
<1>1. /\ "fence" \in Types /\ p \in Participants(procs)
      /\ call \notin calls[p] /\ timer = "none"
  BY RequestLemma DEF pmix_server_fence
<1>2. PICK t \in TrackerFor("fence", procs) :
        LET r == Contribute(R0(t), p, timer)
        IN  \/ /\ ~LocallyComplete(r)
               /\ Wait(t, r, p, call)
               /\ UNCHANGED held
            \/ /\ LocallyComplete(r)
               /\ Wait(t, r, p, call)
               /\ held' = [held EXCEPT ![t] = @ + 1]
            \/ /\ LocallyComplete(r)
               /\ "reject" \in Faults
               /\ trk' = [trk EXCEPT ![t] = RefusedFence(R0(t), p)]
               /\ collectives' = Without(TrackerList(t), t)
               /\ Refused(p, call)
  BY Zenon DEF pmix_server_fence
<1>3. t \in Trackers /\ UNCHANGED nsvars
  BY <1>1, TrackerForLemma, Zenon DEF pmix_server_fence
<1>4. /\ R(t) \in TrackerRecords /\ GoodRecord(R(t))
      /\ CallOf(R(t).type, R(t).pcs) = call
      /\ R(t).refs = 1 /\ Unlost(R(t))
      /\ \A q \in ProcsOf(R(t)) : call \in calls[q]
      /\ p \in Participants(R(t).pcs) /\ p \notin ProcsOf(R(t))
      /\ ~Pending(t)
  BY <1>1, TrackerRecordLemma, Zenon
<1>5. CollectType(t, R(t), collect) \in {"no", "yes", "invalid"}
  BY Zenon DEF CollectType
<1> HIDE DEF R, call
<1>6. /\ R0(t) \in TrackerRecords /\ GoodRecord(R0(t))
      /\ CallOf(R0(t).type, R0(t).pcs) = call
      /\ R0(t).refs = 1 /\ Unlost(R0(t))
      /\ \A q \in ProcsOf(R0(t)) : call \in calls[q]
      /\ p \in Participants(R0(t).pcs) /\ p \notin ProcsOf(R0(t))
  BY <1>4, <1>5, CollectLemma, Zenon
<1> HIDE DEF R0
<1>7. CASE /\ Wait(t, Contribute(R0(t), p, "none"), p, call)
           /\ \/ held' = held
              \/ LocallyComplete(Contribute(R0(t), p, "none")) /\ held' = [held EXCEPT ![t] = @ + 1]
  BY <1>1, <1>3, <1>4, <1>6, <1>7, JoinInv, Zenon DEF call
<1>8. CASE /\ trk' = [trk EXCEPT ![t] = RefusedFence(R0(t), p)]
           /\ collectives' = Without(TrackerList(t), t)
           /\ Refused(p, call)
  <2> DEFINE d == Drop(R0(t))
  <2>1. d \in TrackerRecords /\ d.refs = 0 /\ Unlost(d)
    BY <1>6, DropLemma, Zenon
  <2>2. /\ TrackerList(t) \in Seq(Trackers)
        /\ ToSet(TrackerList(t)) = ToSet(collectives) \cup {t}
        /\ \A j, k \in DOMAIN TrackerList(t) : TrackerList(t)[j] = TrackerList(t)[k] => j = k
    BY <1>3, TrackerListLemma, Zenon
  <2>3. /\ collectives' \in Seq(Trackers)
        /\ ToSet(collectives') = ToSet(collectives) \ {t}
        /\ \A j, k \in DOMAIN collectives' : collectives'[j] = collectives'[k] => j = k
    BY <1>8, <2>2, WithoutLemma
  <2>4. UNCHANGED <<nsvars, held, calls, shifted>>
    BY <1>3, <1>8, Zenon DEF Refused
  <2>5. held[t] = 0 /\ ~Queued(t)
    <3>1. held[t] \in Nat /\ ~(held[t] > 0)
      BY <1>3, <1>4, Zenon DEF Pending, CInv, TypeOK
    <3>2. ~Queued(t)
      BY <1>4, Zenon DEF Pending
    <3>3. held[t] = 0
      BY <3>1
    <3> QED BY <3>2, <3>3, Zenon
  <2>6. \A u \in Trackers : Queued(u)' => Queued(u) /\ u # t
    BY <2>4, <2>5, Zenon DEF Queued
  <2>7. /\ calls' \in [LocalProcs -> SUBSET Calls]
        /\ shifted' \in Seq(EventRecords)
        /\ \A i, j \in DOMAIN shifted' : shifted'[i].trk = shifted'[j].trk => i = j
        /\ \A i \in DOMAIN shifted' : shifted'[i].fn = "cbfunc"
    BY <2>4, Zenon DEF CInv, TypeOK, PendingInv
  <2> HIDE DEF d
  <2>8. trk' = [trk EXCEPT ![t] = d]
    BY <1>8, <2>1, Zenon DEF d, RefusedFence
  <2> QED BY <1>3, <2>1, <2>3, <2>4, <2>5, <2>6, <2>7, <2>8, FreeLemma, Zenon
<1> QED BY <1>1, <1>2, <1>7, <1>8, Zenon

\* So do pmix_server_connect and pmix_server_disconnect: after a refusal by the
\* host the tracker is as if the caller had not called.
LEMMA ConnectInv ==
    ASSUME Environment, CInv, NEW p \in LocalProcs, NEW procs \in Signatures,
           NEW type, NEW timer \in Timers(type), ConnectOrDisconnect(type, p, procs, timer)
    PROVE  CInv'
<1> DEFINE call == CallOf(type, procs)
           R(t) == TrackerRecord(t, type, procs)
<1>1. /\ type \in Types /\ p \in Participants(procs)
      /\ call \notin calls[p] /\ timer = "none"
  <2>1. MayCall(p, type, procs)
    BY Zenon DEF ConnectOrDisconnect
  <2>2. timer \in {"none"}
    BY <2>1, RequestLemma, Zenon
  <2> QED BY <2>1, <2>2, RequestLemma, Zenon
<1>2. PICK t \in TrackerFor(type, procs) :
        LET r == Contribute(R(t), p, timer)
        IN  \/ /\ ~LocallyComplete(r)
               /\ Wait(t, r, p, call)
               /\ UNCHANGED held
            \/ /\ LocallyComplete(r)
               /\ Wait(t, r, p, call)
               /\ held' = [held EXCEPT ![t] = @ + 1]
            \/ /\ LocallyComplete(r)
               /\ "reject" \in Faults
               /\ trk' = [trk EXCEPT ![t] = R(t)]
               /\ collectives' = TrackerList(t)
               /\ Refused(p, call)
  BY Zenon DEF ConnectOrDisconnect
<1>3. t \in Trackers /\ UNCHANGED nsvars
  BY <1>1, TrackerForLemma, Zenon DEF ConnectOrDisconnect
<1>4. /\ R(t) \in TrackerRecords /\ GoodRecord(R(t))
      /\ CallOf(R(t).type, R(t).pcs) = call
      /\ R(t).refs = 1 /\ Unlost(R(t))
      /\ \A q \in ProcsOf(R(t)) : call \in calls[q]
      /\ p \in Participants(R(t).pcs) /\ p \notin ProcsOf(R(t))
      /\ ~Pending(t)
  BY <1>1, TrackerRecordLemma, Zenon
<1>5. /\ Listed(t) => Op(t) = call
      /\ ~Listed(t) => \A u \in Trackers : Listed(u) => Op(u) # call
  BY <1>1, TrackerForLemma, Zenon
<1> HIDE DEF R, call
<1>6. CASE /\ Wait(t, Contribute(R(t), p, "none"), p, call)
           /\ \/ held' = held
              \/ LocallyComplete(Contribute(R(t), p, "none")) /\ held' = [held EXCEPT ![t] = @ + 1]
  BY <1>1, <1>3, <1>4, <1>6, JoinInv, Zenon DEF call
<1>7. CASE /\ trk' = [trk EXCEPT ![t] = R(t)]
           /\ collectives' = TrackerList(t)
           /\ Refused(p, call)
  <2>1. UNCHANGED <<nsvars, held, calls, shifted>>
    BY <1>3, <1>7, Zenon DEF Refused
  <2>2. calls' \in [LocalProcs -> SUBSET Calls]
    BY <2>1, Zenon DEF CInv, TypeOK
  <2> QED BY <1>3, <1>4, <1>5, <1>7, <2>1, <2>2, PutLemma, Zenon
<1> QED BY <1>1, <1>2, <1>6, <1>7, Zenon

-----------------------------------------------------------------------------
(* The host and the event queue                                             *)

\* The callback of the host (modex_cbfunc, cnct_cbfunc, discnct_cbfunc) moves a
\* tracker from the host to the queue.
LEMMA HostCallbackInv ==
    ASSUME CInv, NEW t \in Trackers, NEW st \in HostStatus, HostCallback(t, st)
    PROVE  CInv'
<1> USE DEF CInv
<1> DEFINE e == Event("cbfunc", t, st)
<1>1. /\ held[t] = 1 /\ ~Queued(t) /\ held' = [held EXCEPT ![t] = 0]
      /\ shifted' = Append(shifted, e)
      /\ UNCHANGED <<nsvars, calls, collectives, trk>>
  <2>1. /\ held[t] > 0 /\ held' = [held EXCEPT ![t] = held[t] - 1]
        /\ shifted' = Append(shifted, e)
        /\ UNCHANGED <<nsvars, calls, collectives, trk>>
    BY Zenon DEF HostCallback, cbfunc
  <2>2. held[t] = 1 /\ ~Queued(t)
    BY <2>1 DEF PendingInv
  <2>3. held[t] - 1 = 0
    BY <2>2
  <2> QED BY <2>1, <2>2, <2>3, Zenon
<1>2. e \in EventRecords /\ e.trk = t /\ e.fn = "cbfunc"
  BY Zenon DEF Event, EventRecords
<1> HIDE DEF e
<1>3. shifted \in Seq(EventRecords)
  BY Zenon DEF TypeOK
<1>4. TypeOK'
  <2>1. shifted' \in Seq(EventRecords)
    BY <1>1, <1>2, <1>3
  <2>2. held' \in [Trackers -> Nat]
    BY <1>1, Zenon DEF TypeOK
  <2> QED BY <1>1, <2>1, <2>2, Zenon DEF TypeOK, nsvars
<1>5. Static' /\ ListInv' /\ UniqueInv' /\ RecordInv'
  BY <1>1, Zenon DEF Static, ListInv, UniqueInv, RecordInv, nsvars, Listed, Live, Op
<1>6. PendingInv'
  <2> DEFINE n == Len(shifted) + 1
  <2>1. /\ DOMAIN shifted' = DOMAIN shifted \cup {n} /\ n \notin DOMAIN shifted
        /\ \A i \in DOMAIN shifted : shifted'[i] = shifted[i]
        /\ shifted'[n] = e
    <3>1. LET a == Append(shifted, e)
          IN  /\ DOMAIN a = DOMAIN shifted \cup {n} /\ n \notin DOMAIN shifted
              /\ \A i \in DOMAIN shifted : a[i] = shifted[i]
              /\ a[n] = e
      BY <1>2, <1>3, AppendLemma
    <3> QED BY <1>1, <3>1, Zenon
  <2> HIDE DEF n
  <2>2. \A i \in DOMAIN shifted : shifted[i].trk # t
    BY <1>1, Zenon DEF Queued
  <2>3. \A u \in Trackers : Queued(u)' <=> Queued(u) \/ u = t
    BY <1>2, <2>1, Zenon DEF Queued
  <2>4. held'[t] = 0 /\ \A u \in Trackers : u # t => held'[u] = held[u]
    BY <1>1, Zenon DEF TypeOK
  <2>5. \A u \in Trackers : Pending(u)' => Pending(u)
    BY <1>1, <2>3, <2>4 DEF Pending
  <2>6. \A u \in Trackers : Pending(u)' =>
            Listed(u)' /\ Participants(trk'[u].pcs) \subseteq ProcsOf(trk'[u])
    BY <1>1, <2>5, Zenon DEF PendingInv, Listed
  <2>7. \A u \in Trackers : held'[u] \in {0, 1} /\ (held'[u] = 1 => ~Queued(u)')
    <3>1. \A u \in Trackers : held[u] \in {0, 1} /\ (held[u] = 1 => ~Queued(u))
      BY Zenon DEF PendingInv
    <3> QED BY <2>3, <2>4, <3>1
  <2>8. \A i, j \in DOMAIN shifted' : shifted'[i].trk = shifted'[j].trk => i = j
    BY <1>2, <2>1, <2>2, Zenon DEF PendingInv
  <2>9. \A i \in DOMAIN shifted' : shifted'[i].fn = "cbfunc"
    BY <1>2, <2>1, Zenon DEF PendingInv
  <2> QED BY <2>6, <2>7, <2>8, <2>9, Zenon DEF PendingInv, Participants, ProcsOf
<1> QED BY <1>4, <1>5, <1>6, Zenon

\* A callback that runs: its tracker is listed, not with the host, and not in
\* the rest of the queue.
LEMMA RunLemma ==
    ASSUME CInv, NEW t \in Trackers, Run("cbfunc", t)
    PROVE  /\ Listed(t) /\ held[t] = 0 /\ trk[t].refs = 1
           /\ shifted' \in Seq(EventRecords)
           /\ \A u \in Trackers : Queued(u)' => Queued(u) /\ u # t
           /\ \A i, j \in DOMAIN shifted' : shifted'[i].trk = shifted'[j].trk => i = j
           /\ \A i \in DOMAIN shifted' : shifted'[i].fn = "cbfunc"
<1> USE DEF CInv
<1>1. shifted \in Seq(EventRecords) /\ shifted # <<>> /\ shifted' = Tail(shifted)
  BY Zenon DEF TypeOK, Run
<1>2. 1 \in DOMAIN shifted /\ shifted[1].trk = t
  BY <1>1 DEF Run
<1>3. /\ shifted' \in Seq(EventRecords)
      /\ \A i \in DOMAIN shifted' : i + 1 \in DOMAIN shifted /\ i \in Nat \ {0}
      /\ \A i \in DOMAIN shifted' : shifted'[i] = shifted[i + 1]
  BY <1>1
<1>4. Queued(t)
  BY <1>2, Zenon DEF Queued
<1>5. Listed(t) /\ held[t] = 0 /\ trk[t].refs = 1
  BY <1>4 DEF PendingInv, Pending, ListInv, Live
<1>6. \A i \in DOMAIN shifted' : shifted'[i].trk # t
  BY <1>2, <1>3 DEF PendingInv
<1>7. \A u \in Trackers : Queued(u)' => Queued(u) /\ u # t
  BY <1>3, <1>6, Zenon DEF Queued
<1>8. \A i, j \in DOMAIN shifted' : shifted'[i].trk = shifted'[j].trk => i = j
  <2> SUFFICES ASSUME NEW i \in DOMAIN shifted', NEW j \in DOMAIN shifted',
                      shifted'[i].trk = shifted'[j].trk
               PROVE  i = j
    BY Zenon
  <2>1. i + 1 = j + 1
    BY <1>3 DEF PendingInv
  <2> QED BY <1>3, <2>1
<1>9. \A i \in DOMAIN shifted' : shifted'[i].fn = "cbfunc"
  BY <1>3 DEF PendingInv
<1> QED BY <1>3, <1>5, <1>7, <1>8, <1>9, Zenon

\* A completion keeps the invariant when it frees the tracker.
LEMMA CompletionInv ==
    ASSUME CInv, NEW t \in Trackers, Run("cbfunc", t),
           NEW r \in TrackerRecords, r.refs = 0, Unlost(r),
           NEW n, NEW st, ReplyTo(trk[t], n, st),
           trk' = [trk EXCEPT ![t] = r],
           RemoveUnlessLost(t),
           UNCHANGED <<nsvars, held>>
    PROVE  CInv'
<1> USE DEF CInv
<1>1. Listed(t) /\ Unlost(trk[t])
  BY RunLemma, Zenon DEF ListInv
<1>2. collectives' = Without(collectives, t)
  BY <1>1, Zenon DEF RemoveUnlessLost, Unlost
<1>3. collectives \in Seq(Trackers) /\ t \in ToSet(collectives)
  BY <1>1, Zenon DEF TypeOK, Listed
<1>4. \A j, k \in DOMAIN collectives : collectives[j] = collectives[k] => j = k
  BY Zenon DEF ListInv
<1>5. /\ collectives' \in Seq(Trackers)
      /\ ToSet(collectives') = ToSet(collectives) \ {t}
      /\ \A j, k \in DOMAIN collectives' : collectives'[j] = collectives'[k] => j = k
  BY <1>2, <1>3, <1>4, WithoutLemma
<1>6. calls' = [p \in LocalProcs |->
                  IF \E i \in 1 .. n : trk[t].local_cbs[i].proc = p
                  THEN calls[p] \ {Op(t)} ELSE calls[p]]
  BY Zenon DEF ReplyTo, Op
<1>7. calls' \in [LocalProcs -> SUBSET Calls]
  BY <1>6, Zenon DEF TypeOK
<1>8. ASSUME NEW u \in Trackers, NEW q \in LocalProcs,
             u # t, Listed(u), Op(u) \in calls[q]
      PROVE  Op(u) \in calls'[q]
  <2>1. Op(u) # Op(t)
    BY <1>1, <1>8, Zenon DEF UniqueInv
  <2> QED BY <1>6, <1>8, <2>1, Zenon
<1> QED BY <1>5, <1>7, <1>8, RunLemma, FreeLemma, Zenon

\* _mdxcbfunc answers all the caddies of a tracker and frees it.
LEMMA MdxInv ==
    ASSUME CInv, NEW t \in Trackers, _mdxcbfunc(t)
    PROVE  CInv'
<1> DEFINE x == trk[t]
           e == <<>>
           r == [x EXCEPT !.refs = 0, !.local_cbs = e, !.event_active = FALSE]
<1>1. Run("cbfunc", t)
  BY Zenon DEF _mdxcbfunc
<1>2. Listed(t) /\ x.refs = 1
  BY <1>1, RunLemma, Zenon
<1>3. x \in TrackerRecords /\ Unlost(x) /\ GoodRecord(x)
  BY <1>2, Zenon DEF CInv, TypeOK, ListInv, RecordInv
<1>4. TimerRefs(x) = 0
  <2>1. {i \in DOMAIN x.local_cbs : x.local_cbs[i].timer # "none"} = {}
    BY <1>3, Zenon DEF GoodRecord
  <2> QED BY <2>1, FS_EmptySet, Zenon DEF TimerRefs
<1>5. x.refs - TimerRefs(x) - 1 = 0
  BY <1>2, <1>4
<1>6. trk' = [trk EXCEPT ![t] = r]
  <2>1. trk' = [trk EXCEPT ![t] = Released(x)]
    BY Zenon DEF _mdxcbfunc
  <2>2. Released(x) = r
    BY <1>5, Zenon DEF Released
  <2> QED BY <2>1, <2>2, Zenon
<1>7. e \in Seq(Caddies)
  OBVIOUS
<1> HIDE DEF e, x
<1>8. r \in TrackerRecords
  BY <1>3, <1>7, Zenon DEF TrackerRecords
<1>9. r.refs = 0 /\ Unlost(r)
  BY <1>3, Zenon DEF TrackerRecords, Unlost
<1>10. /\ ReplyTo(trk[t], Len(trk[t].local_cbs), Head(shifted).status)
       /\ RemoveUnlessLost(t) /\ UNCHANGED <<nsvars, held>>
  BY Zenon DEF _mdxcbfunc
<1> HIDE DEF r
<1> QED BY <1>1, <1>6, <1>8, <1>9, <1>10, CompletionInv, Zenon

\* _cnct and _discnct answer caddies of a tracker, perhaps not all, and free it.
LEMMA CompletedInv ==
    ASSUME CInv, NEW t \in Trackers, NEW type, Completed(t, type)
    PROVE  CInv'
<1> DEFINE d == Drop(trk[t])
           r == [d EXCEPT !.event_active = FALSE]
<1>1. Run("cbfunc", t)
  BY Zenon DEF Completed
<1>2. Listed(t) /\ trk[t].refs = 1
  BY <1>1, RunLemma, Zenon
<1>3. trk[t] \in TrackerRecords /\ Unlost(trk[t])
  BY <1>2, Zenon DEF CInv, TypeOK, ListInv
<1>4. d \in TrackerRecords /\ d.refs = 0 /\ Unlost(d)
  BY <1>2, <1>3, DropLemma, Zenon
<1>5. trk' = [trk EXCEPT ![t] = r]
  BY Zenon DEF Completed
<1> HIDE DEF d
<1>6. r \in TrackerRecords /\ r.refs = 0 /\ Unlost(r)
  BY <1>4, Zenon DEF TrackerRecords, Unlost
<1>7. PICK n : ReplyTo(trk[t], n, Head(shifted).status)
  BY Zenon DEF Completed
<1>8. RemoveUnlessLost(t) /\ UNCHANGED <<nsvars, held>>
  BY Zenon DEF Completed
<1> HIDE DEF r
<1> QED BY <1>1, <1>5, <1>6, <1>7, <1>8, CompletionInv, Zenon

-----------------------------------------------------------------------------
(* The theorems                                                             *)

\* A server that has just been set up has no trackers.
LEMMA InitInv ==
    ASSUME Environment, Init
    PROVE  CInv
<1>1. NoTracker \in TrackerRecords
  BY DEF NoTracker, TrackerRecords
<1>2. \A n \in Nspaces : Cardinality({p \in LocalProcs : p.ns = n}) \in Nat
  <2> TAKE n \in Nspaces
  <2>1. IsFiniteSet({p \in LocalProcs : p.ns = n})
    BY FS_Subset, CollectivesAssumption, Zenon
  <2> QED BY <2>1, FS_CardinalityType, Zenon
<1>3. LocalNspaces \subseteq Nspaces
  BY CollectivesAssumption, Zenon DEF LocalNspaces
<1>4. TypeOK
  <2>1. nlocalprocs \in [Nspaces -> Nat]
    BY <1>2, Zenon DEF Init
  <2>2. trk \in [Trackers -> TrackerRecords]
    BY <1>1, Zenon DEF Init
  <2>3. calls \in [LocalProcs -> SUBSET Calls] /\ held \in [Trackers -> Nat]
    BY Zenon DEF Init
  <2>4. collectives \in Seq(Trackers) /\ shifted \in Seq(EventRecords)
    BY DEF Init
  <2>5. /\ nspaces \subseteq Nspaces /\ all_registered \in [Nspaces -> BOOLEAN]
        /\ ranks \subseteq LocalProcs /\ gone \subseteq LocalProcs
    BY <1>3, CollectivesAssumption, Zenon DEF Init
  <2> QED BY <2>1, <2>2, <2>3, <2>4, <2>5, Zenon DEF TypeOK
<1>5. Static
  BY Zenon DEF Init, Static, Environment
<1>6. \A t \in Trackers : ~Listed(t) /\ ~Queued(t) /\ held[t] = 0
  BY DEF Init, Listed, ToSet, Queued
<1>7. ListInv
  BY <1>6 DEF Init, ListInv, Live, NoTracker, Unlost
<1>8. UniqueInv /\ RecordInv
  BY <1>6, Zenon DEF UniqueInv, RecordInv
<1>9. PendingInv
  BY <1>6 DEF Init, PendingInv, Pending
<1> QED BY <1>4, <1>5, <1>7, <1>8, <1>9, Zenon DEF CInv

\* Registration of an nspace, or the mere knowledge of one, touches no tracker.
LEMMA NspaceInv ==
    ASSUME CInv, NEW n \in Nspaces, NEW b \in BOOLEAN,
           nspaces' = nspaces \cup {n},
           all_registered' = [all_registered EXCEPT ![n] = b],
           UNCHANGED <<nlocalprocs, ranks, gone, calls, collectives, trk, held, shifted>>
    PROVE  CInv'
<1>1. TypeOK'
  BY Zenon DEF CInv, TypeOK
<1>2. Static' /\ ListInv' /\ UniqueInv' /\ RecordInv' /\ PendingInv'
  BY Zenon DEF CInv, Static, ListInv, UniqueInv, RecordInv, PendingInv,
         Listed, Live, Op, Pending, Queued
<1> QED BY <1>1, <1>2, Zenon DEF CInv

\* Every step keeps the invariant, one case for each action of Next.  Those of
\* lost processes, of timers and of late registration are not enabled.
LEMMA NextInv ==
    ASSUME Environment, CInv, [Next]_vars
    PROVE  CInv'
<1>1. ASSUME NEW p \in LocalProcs, NEW s \in Signatures, NEW c \in CollectDirectives,
             NEW m \in Timers("fence"), pmix_server_fence(p, s, c, m)
      PROVE  CInv'
  BY <1>1, FenceInv, Zenon
<1>2. ASSUME NEW p \in LocalProcs, NEW s \in Signatures, NEW m \in Timers("connect"),
             pmix_server_connect(p, s, m)
      PROVE  CInv'
  BY <1>2, ConnectInv, Zenon DEF pmix_server_connect
<1>3. ASSUME NEW p \in LocalProcs, NEW s \in Signatures, pmix_server_disconnect(p, s)
      PROVE  CInv'
  <2>1. "none" \in Timers("disconnect")
    BY Zenon DEF Timers
  <2> QED BY <1>3, <2>1, ConnectInv, Zenon DEF pmix_server_disconnect
<1>4. ASSUME NEW t \in Trackers, NEW st \in HostStatus, HostCallback(t, st)
      PROVE  CInv'
  BY <1>4, HostCallbackInv, Zenon
<1>5. ASSUME NEW t \in Trackers, NEW i \in DOMAIN trk[t].local_cbs, collective_timeout(t, i)
      PROVE  CInv'
  <2>1. Listed(t) /\ trk[t].local_cbs[i].timer = "armed"
    BY <1>5, Zenon DEF collective_timeout, CInv, ListInv
  <2> QED BY <2>1, Zenon DEF CInv, RecordInv, GoodRecord
<1>6. ASSUME NEW t \in Trackers, _mdxcbfunc(t) PROVE CInv'
  BY <1>6, MdxInv, Zenon
<1>7. ASSUME NEW t \in Trackers, _cnct(t) \/ _discnct(t) PROVE CInv'
  BY <1>7, CompletedInv, Zenon DEF _cnct, _discnct
<1>8. ASSUME NEW t \in Trackers, pmix_server_execute_collective(t) PROVE CInv'
  <2>1. shifted # <<>> /\ Head(shifted).fn = "execute"
    BY <1>8, Zenon DEF pmix_server_execute_collective, Run
  <2>2. 1 \in DOMAIN shifted /\ shifted[1].fn = "execute"
    BY <2>1 DEF CInv, TypeOK
  <2> QED BY <2>2, Zenon DEF CInv, PendingInv
<1>9. ASSUME NEW t \in Trackers, _timeout(t) \/ HostForgets(t) PROVE CInv'
  BY <1>9, Zenon DEF _timeout, HostForgets, CInv, ListInv, Unlost
<1>10. ASSUME NEW p \in LocalProcs, pmix_ptl_base_lost_connection(p) PROVE CInv'
  BY <1>10, Zenon DEF pmix_ptl_base_lost_connection, Environment
<1>11. ASSUME NEW p \in LocalProcs, _register_client(p) PROVE CInv'
  BY <1>11, Zenon DEF _register_client, CInv, Static
<1>12. ASSUME NEW n \in Nspaces, _register_nspace(n) \/ LandingZone(n) PROVE CInv'
  BY <1>12, NspaceInv, Zenon DEF _register_nspace, LandingZone
<1>13. CASE UNCHANGED vars
  BY <1>13, Zenon DEF vars, CInv, TypeOK, Static, ListInv, UniqueInv, RecordInv, PendingInv,
               Listed, Live, Op, Pending, Queued
<1> QED BY <1>1, <1>2, <1>3, <1>4, <1>5, <1>6, <1>7, <1>8, <1>9, <1>10, <1>11, <1>12, <1>13, Zenon
        DEF Next

\* The inductive invariant of the server's handlers always holds.
LEMMA InvAlways ==
    ASSUME Environment
    PROVE  Spec => []CInv
BY InitInv, NextInv, PTL DEF Spec

\* TypeOK for any constants of the environment.
THEOREM CollectivesTypes ==
    ASSUME Environment
    PROVE  Spec => []TypeOK
<1>1. CInv => TypeOK
  BY Zenon DEF CInv
<1> QED BY <1>1, InvAlways, PTL

\* UpcallOnlyWhenAll: the host is called (pmix_server_fence, pmix_server_connect,
\* pmix_server_disconnect) only when all participating local processes have
\* contributed, whatever the arrays of procs and the interleaving of the calls.
THEOREM CollectivesUpcall ==
    ASSUME Environment
    PROVE  Spec => []UpcallOnlyWhenAll
<1>1. CInv => UpcallOnlyWhenAll
  BY Zenon DEF CInv, PendingInv, Pending, UpcallOnlyWhenAll, Needed
<1> QED BY <1>1, InvAlways, PTL

\* Memory safety of trackers: those in the list, with the host and in the event
\* queue have not been freed, a callback finds its tracker in the list, and a
\* tracker that is alive is in the list.
THEOREM CollectivesTrackers ==
    ASSUME Environment
    PROVE  Spec => []TrackersSound
<1>1. CInv => ListedLive
  <2> HAVE CInv
  <2>1. \A k \in DOMAIN collectives : collectives[k] \in Trackers /\ Listed(collectives[k])
    BY DEF CInv, TypeOK, Listed, ToSet
  <2> QED BY <2>1, Zenon DEF CInv, ListInv, ListedLive
<1>2. CInv => HostHoldsLive
  BY Zenon DEF CInv, PendingInv, ListInv, Pending, HostHoldsLive
<1>3. CInv => QueueSound
  <2> HAVE CInv
  <2>1. \A i \in DOMAIN shifted : shifted[i].trk \in Trackers
    <3>1. \A i \in DOMAIN shifted : shifted[i] \in EventRecords
      BY DEF CInv, TypeOK
    <3> QED BY <3>1, Zenon DEF EventRecords
  <2>2. \A i \in DOMAIN shifted : Listed(shifted[i].trk)
    BY <2>1, Zenon DEF CInv, PendingInv, Pending, Queued
  <2> QED BY <2>1, <2>2, Zenon DEF CInv, ListInv, QueueSound, Unlost
<1>4. CInv => NoLeak
  BY Zenon DEF CInv, ListInv, NoLeak
<1>5. CInv => TrackersSound
  BY <1>1, <1>2, <1>3, <1>4, Zenon DEF TrackersSound
<1> QED BY <1>5, InvAlways, PTL

\* AnswersAwaited: a reply of a completed collective (_mdxcbfunc, _cnct,
\* _discnct) goes to a process that waits for that collective, so none is
\* answered twice.
THEOREM CollectivesAnswers ==
    ASSUME Environment
    PROVE  Spec => AnswersAwaited
<1> DEFINE Awaited ==
        \A i \in DOMAIN replies' :
            replies'[i].status = "ERROR" \/ replies'[i].call \in calls[replies'[i].proc]
<1>1. ASSUME NEW t \in Trackers, CInv, Listed(t), NEW n \in 0 .. Len(trk[t].local_cbs), NEW st,
             ReplyTo(trk[t], n, st)
      PROVE  Awaited
  <2>1. DOMAIN replies' = 1 .. n
    BY <1>1, Zenon DEF ReplyTo
  <2>2. \A i \in 1 .. n : /\ replies'[i].proc = trk[t].local_cbs[i].proc
                          /\ replies'[i].call = Op(t)
    BY <1>1, Zenon DEF ReplyTo, Op
  <2>3. trk[t].local_cbs \in Seq(Caddies)
    BY <1>1, TrackerFields, Zenon DEF CInv, TypeOK
  <2>4. \A i \in 1 .. n : trk[t].local_cbs[i].proc \in ProcsOf(trk[t])
    <3>1. DOMAIN trk[t].local_cbs = 1 .. Len(trk[t].local_cbs) /\ Len(trk[t].local_cbs) \in Nat
      BY <2>3
    <3>2. \A i \in 1 .. n : i \in DOMAIN trk[t].local_cbs
      BY <1>1, <3>1
    <3> QED BY <3>2, Zenon DEF ProcsOf
  <2> QED BY <1>1, <2>1, <2>2, <2>4, Zenon DEF CInv, RecordInv
<1>2. ASSUME replies' = <<>> PROVE Awaited
  BY <1>2
<1>3. ASSUME NEW p, NEW c, Refused(p, c) PROVE Awaited
  BY <1>3 DEF Refused
<1>4. ASSUME NEW t \in Trackers, CInv, _mdxcbfunc(t) PROVE Awaited
  <2>1. Run("cbfunc", t) /\ ReplyTo(trk[t], Len(trk[t].local_cbs), Head(shifted).status)
    BY <1>4, Zenon DEF _mdxcbfunc
  <2>2. trk[t].local_cbs \in Seq(Caddies)
    BY <1>4, TrackerFields, Zenon DEF CInv, TypeOK
  <2>3. Len(trk[t].local_cbs) \in 0 .. Len(trk[t].local_cbs)
    BY <2>2
  <2> QED BY <1>1, <1>4, <2>1, <2>3, RunLemma, Zenon
<1>5. ASSUME NEW t \in Trackers, NEW type, CInv, Completed(t, type) PROVE Awaited
  <2>1. PICK n \in Answered(trk[t], Head(shifted).status) :
            ReplyTo(trk[t], n, Head(shifted).status)
    BY <1>5, Zenon DEF Completed
  <2>2. Run("cbfunc", t)
    BY <1>5, Zenon DEF Completed
  <2>3. trk[t].local_cbs \in Seq(Caddies)
    BY <1>5, TrackerFields, Zenon DEF CInv, TypeOK
  <2>4. Len(trk[t].local_cbs) \in Nat
    BY <2>3
  <2>5. n \in {Len(trk[t].local_cbs)} \cup {i - 1 : i \in 1 .. Len(trk[t].local_cbs)}
    BY <2>1, Zenon DEF Answered
  <2>6. n \in 0 .. Len(trk[t].local_cbs)
    <3>1. CASE n = Len(trk[t].local_cbs)
      BY <2>4, <3>1
    <3>2. ASSUME NEW i \in 1 .. Len(trk[t].local_cbs), n = i - 1
          PROVE  n \in 0 .. Len(trk[t].local_cbs)
      BY <2>4, <3>2
    <3> QED BY <2>5, <3>1, <3>2, Zenon
  <2> QED BY <1>1, <1>5, <2>1, <2>2, <2>6, RunLemma, Zenon
<1>6. CInv /\ [Next]_vars => Awaited \/ UNCHANGED vars
  <2> SUFFICES ASSUME CInv, Next PROVE Awaited
    BY Zenon
  <2> HIDE DEF Awaited
  <2>1. ASSUME NEW p \in LocalProcs, NEW s \in Signatures, NEW c \in CollectDirectives,
               NEW m \in Timers("fence"), pmix_server_fence(p, s, c, m)
        PROVE  Awaited
    BY <1>2, <1>3, <2>1, Zenon DEF pmix_server_fence, Wait
  <2>2. ASSUME NEW p \in LocalProcs, NEW s \in Signatures, NEW type, NEW m,
               ConnectOrDisconnect(type, p, s, m)
        PROVE  Awaited
    BY <1>2, <1>3, <2>2, Zenon DEF ConnectOrDisconnect, Wait
  <2>3. ASSUME NEW t \in Trackers,
               \/ \E st \in HostStatus : HostCallback(t, st)
               \/ \E i \in DOMAIN trk[t].local_cbs : collective_timeout(t, i)
               \/ pmix_server_execute_collective(t) \/ _timeout(t) \/ HostForgets(t)
        PROVE  Awaited
    BY <1>2, <2>3, Zenon DEF HostCallback, collective_timeout, pmix_server_execute_collective,
                      _timeout, HostForgets
  <2>4. ASSUME NEW p \in LocalProcs, pmix_ptl_base_lost_connection(p) \/ _register_client(p)
        PROVE  Awaited
    BY <1>2, <2>4, Zenon DEF pmix_ptl_base_lost_connection, _register_client
  <2>5. ASSUME NEW n \in Nspaces, _register_nspace(n) \/ LandingZone(n)
        PROVE  Awaited
    BY <1>2, <2>5, Zenon DEF _register_nspace, LandingZone
  <2> QED BY <1>4, <1>5, <2>1, <2>2, <2>3, <2>4, <2>5, Zenon
          DEF Next, _cnct, _discnct, pmix_server_connect, pmix_server_disconnect
<1>7. CInv /\ [Next]_vars => [Awaited]_vars
  BY <1>6, Zenon
<1> QED BY <1>7, InvAlways, PTL DEF Spec, AnswersAwaited

-----------------------------------------------------------------------------
(* No contribution is forgotten                                             *)

\* A host that accepts what it is given, though it may complete it with an
\* error, and that registers an nspace before the library hears of it.
Reliable == Environment /\ Faults = {}

\* Every nspace that is known is completely registered.
Known == \A n \in nspaces : all_registered[n]

\* nlocal is the number of participants.
Counted(r) == r.def_complete /\ r.nlocal = Cardinality(Participants(r.pcs))

CountInv == \A t \in Trackers : Listed(t) => Counted(trk[t])

\* A waiting process has a caddy in a tracker of the list.
WaitInv ==
    \A p \in LocalProcs : \A c \in calls[p] :
        \E t \in Trackers : Listed(t) /\ Op(t) = c /\ p \in ProcsOf(trk[t])

\* A tracker to which everybody has contributed has been passed on.
CompleteInv ==
    \A t \in Trackers :
        Listed(t) /\ Participants(trk[t].pcs) \subseteq ProcsOf(trk[t]) => Pending(t)

KeptInv == Known /\ CountInv /\ WaitInv /\ CompleteInv

\* A process is named by one element of an array of procs.
LEMMA NamedOnce ==
    ASSUME NEW procs \in Signatures, NEW p \in LocalProcs,
           NEW i \in DOMAIN procs, NEW j \in DOMAIN procs,
           Names(procs[i], p), Names(procs[j], p)
    PROVE  i = j
<1> DEFINE S == [ns : Nspaces, rank : {q.rank : q \in LocalProcs} \cup {WILDCARD}]
<1>1. /\ procs \in Seq(S)
      /\ \A k, l \in DOMAIN procs : procs[k] = procs[l] => k = l
      /\ \A k, l \in DOMAIN procs : procs[k].ns = procs[l].ns /\ procs[k].rank = WILDCARD => k = l
  BY CollectivesAssumption, Zenon
<1> HIDE DEF S
<1>2. procs[i] \in S /\ procs[j] \in S
  BY <1>1
<1>3. procs[i].ns = procs[j].ns
  BY Zenon DEF Names
<1>4. CASE procs[i].rank = WILDCARD \/ procs[j].rank = WILDCARD
  BY <1>1, <1>3, <1>4, Zenon
<1>5. CASE procs[i].rank = p.rank /\ procs[j].rank = p.rank
  <2>1. procs[i] = procs[j]
    BY <1>2, <1>3, <1>5 DEF S
  <2> QED BY <1>1, <2>1, Zenon
<1> QED BY <1>4, <1>5, Zenon DEF Names

\* new_tracker counts every participant once.
LEMMA NewCounted ==
    ASSUME Static, Known, NEW type \in Types, NEW procs \in Signatures
    PROVE  Counted(new_tracker(type, procs))
<1> DEFINE pairs == {x \in LookedAt(procs) \X ranks : Names(procs[x[1]], x[2])}
           r == new_tracker(type, procs)
           f == [x \in pairs |-> x[2]]
<1>1. Undefined(procs) = {}
  BY Zenon DEF Undefined, Known
<1>2. r.pcs = procs /\ r.nlocal = Cardinality(pairs) /\ r.def_complete
  BY <1>1, Zenon DEF new_tracker
<1>3. Cardinality(Participants(procs)) <= r.nlocal /\ r.nlocal \in Nat
  BY <1>2, NewTrackerLemma, TrackerFields, Zenon
<1>4. \A x \in pairs : /\ x = <<x[1], x[2]>>
                       /\ x[1] \in DOMAIN procs /\ x[2] \in LocalProcs
                       /\ Names(procs[x[1]], x[2])
  BY DEF LookedAt, Static
<1>5. f \in [pairs -> Participants(procs)]
  BY <1>4, Zenon DEF Participants
<1>6. \A x, y \in pairs : f[x] = f[y] => x = y
  <2> SUFFICES ASSUME NEW x \in pairs, NEW y \in pairs, x[2] = y[2]
               PROVE  x = y
    BY Zenon
  <2>1. x[1] = y[1]
    BY <1>4, NamedOnce, Zenon
  <2> QED BY <1>4, <2>1, Zenon
<1> HIDE DEF pairs, f, r
<1>7. f \in Injection(pairs, Participants(procs))
  BY <1>5, <1>6, Zenon DEF Injection, IsInjective
<1>8. IsFiniteSet(Participants(procs)) /\ Cardinality(Participants(procs)) \in Nat
  BY ParticipantsFinite, FS_CardinalityType, Zenon
<1>9. Cardinality(pairs) <= Cardinality(Participants(procs))
  BY <1>7, <1>8, FS_Injection, Zenon
<1>10. r.nlocal = Cardinality(Participants(procs))
  BY <1>2, <1>3, <1>8, <1>9
<1> QED BY <1>2, <1>10, Zenon DEF Counted, r

\* When everybody has contributed, the tracker is locally complete.
LEMMA EverybodyCompletes ==
    ASSUME NEW r \in TrackerRecords, GoodRecord(r), Counted(r),
           Participants(r.pcs) \subseteq ProcsOf(r)
    PROVE  LocallyComplete(r)
<1> DEFINE cbs == r.local_cbs
           a == [i \in 1 .. Len(cbs) |-> cbs[i].proc]
<1>1. cbs \in Seq(Caddies)
  BY TrackerFields, Zenon
<1>2. a \in Seq(LocalProcs) /\ Len(a) = Len(cbs)
  <2>1. \A i \in 1 .. Len(cbs) : cbs[i] \in Caddies
    BY <1>1
  <2>2. \A i \in 1 .. Len(cbs) : cbs[i].proc \in LocalProcs
    BY <2>1, Zenon DEF Caddies
  <2>3. Len(cbs) \in Nat
    BY <1>1
  <2> HIDE DEF cbs
  <2> QED BY <2>2, <2>3
<1>3. \A i, j \in DOMAIN a : a[i] = a[j] => i = j
  BY <1>1 DEF GoodRecord
<1>4. ToSet(a) = ProcsOf(r)
  <2>1. DOMAIN a = DOMAIN cbs /\ \A i \in DOMAIN cbs : a[i] = cbs[i].proc
    BY <1>1
  <2> HIDE DEF a
  <2> QED BY <2>1, Zenon DEF ToSet, ProcsOf
<1>5. ProcsOf(r) = Participants(r.pcs)
  BY Zenon DEF GoodRecord
<1> HIDE DEF a
<1>6. Cardinality(ProcsOf(r)) = Len(cbs)
  BY <1>2, <1>3, <1>4, ArraySize, Zenon
<1>7. Len(cbs) = r.nlocal /\ r.def_complete
  BY <1>5, <1>6, Zenon DEF Counted
<1> QED BY <1>7, Zenon DEF LocallyComplete

\* The record with which a request starts is counted.
LEMMA TrackerRecordCounted ==
    ASSUME CInv, KeptInv, NEW type \in Types, NEW procs \in Signatures,
           NEW t \in TrackerFor(type, procs)
    PROVE  Counted(TrackerRecord(t, type, procs))
<1>1. t \in Trackers
  BY TrackerForLemma, Zenon
<1>2. CASE Listed(t)
  BY <1>1, <1>2, Zenon DEF TrackerRecord, IsNew, KeptInv, CountInv
<1>3. CASE ~Listed(t)
  BY <1>3, NewCounted, Zenon DEF TrackerRecord, IsNew, KeptInv, CInv
<1> QED BY <1>2, <1>3, Zenon

\* A request that waits, or is the last one and is passed on, forgets nobody.
LEMMA JoinKept ==
    ASSUME CInv, KeptInv, NEW type \in Types, NEW procs \in Signatures, NEW p \in LocalProcs,
           NEW t \in TrackerFor(type, procs),
           NEW r0 \in TrackerRecords, GoodRecord(r0), Counted(r0),
           CallOf(r0.type, r0.pcs) = CallOf(type, procs),
           Listed(t) => ProcsOf(r0) = ProcsOf(trk[t]),
           p \in Participants(r0.pcs), p \notin ProcsOf(r0),
           Wait(t, Contribute(r0, p, "none"), p, CallOf(type, procs)),
           \/ ~LocallyComplete(Contribute(r0, p, "none")) /\ held' = held
           \/ LocallyComplete(Contribute(r0, p, "none")) /\ held' = [held EXCEPT ![t] = @ + 1],
           UNCHANGED nsvars
    PROVE  KeptInv'
<1> DEFINE r == Contribute(r0, p, "none")
           c == CallOf(type, procs)
<1>1. /\ r \in TrackerRecords
      /\ r.type = r0.type /\ r.pcs = r0.pcs
      /\ r.nlocal = r0.nlocal /\ r.def_complete = r0.def_complete
      /\ ProcsOf(r) = ProcsOf(r0) \cup {p}
  BY ContributeLemma, Zenon
<1>2. GoodRecord(r) /\ Counted(r)
  BY <1>1, ContributeGood, Zenon DEF Counted
<1>3. t \in Trackers /\ (Listed(t) => Op(t) = c)
  BY TrackerForLemma, Zenon
<1>4. /\ trk' = [trk EXCEPT ![t] = r] /\ collectives' = TrackerList(t)
      /\ shifted' = shifted /\ calls' = [calls EXCEPT ![p] = @ \cup {c}]
  BY Zenon DEF Wait
<1>5. LocallyComplete(r) => held' = [held EXCEPT ![t] = @ + 1]
  BY Zenon
<1>6. ~LocallyComplete(r) => held' = held
  BY Zenon
<1>7. CallOf(r.type, r.pcs) = c
  BY <1>1, Zenon
<1> HIDE DEF r, c
<1>8. trk'[t] = r /\ \A u \in Trackers : u # t => trk'[u] = trk[u]
  BY <1>3, <1>4, Zenon DEF CInv, TypeOK
<1>9. \A u \in Trackers : Listed(u)' <=> Listed(u) \/ u = t
  BY <1>3, <1>4, TrackerListLemma DEF Listed
<1>10. Op(t)' = c /\ \A u \in Trackers : u # t => Op(u)' = Op(u)
  BY <1>7, <1>8, Zenon DEF Op
<1>11. Known'
  BY Zenon DEF KeptInv, Known, nsvars
<1>12. CountInv'
  <2> SUFFICES ASSUME NEW u \in Trackers, Listed(u)' PROVE Counted(trk'[u])
    BY Zenon DEF CountInv, Counted
  <2>1. CASE u = t
    BY <1>2, <1>8, <2>1, Zenon
  <2>2. CASE u # t
    BY <1>8, <1>9, <2>2, Zenon DEF KeptInv, CountInv
  <2> QED BY <2>1, <2>2, Zenon
<1>13. WaitInv'
  <2> SUFFICES ASSUME NEW q \in LocalProcs, NEW d \in calls'[q]
               PROVE  \E u \in Trackers : Listed(u)' /\ Op(u)' = d /\ q \in ProcsOf(trk'[u])
    BY Zenon DEF WaitInv, ProcsOf
  <2>1. d \in calls[q] \/ (q = p /\ d = c)
    BY <1>4, Zenon DEF CInv, TypeOK
  <2>2. CASE q = p /\ d = c
    BY <1>1, <1>3, <1>8, <1>9, <1>10, <2>2, Zenon
  <2>3. CASE d \in calls[q]
    <3>1. PICK u \in Trackers : Listed(u) /\ Op(u) = d /\ q \in ProcsOf(trk[u])
      BY <2>3, Zenon DEF KeptInv, WaitInv
    <3>2. CASE u = t
      BY <1>1, <1>3, <1>8, <1>9, <1>10, <3>1, <3>2, Zenon
    <3>3. CASE u # t
      BY <1>8, <1>9, <1>10, <3>1, <3>3, Zenon
    <3> QED BY <3>2, <3>3, Zenon
  <2> QED BY <2>1, <2>2, <2>3, Zenon
<1>14. CompleteInv'
  <2> SUFFICES ASSUME NEW u \in Trackers, Listed(u)',
                      Participants(trk'[u].pcs) \subseteq ProcsOf(trk'[u])
               PROVE  held'[u] > 0 \/ Queued(u)'
    BY Zenon DEF CompleteInv, Participants, ProcsOf, Pending
  <2>1. CASE u = t
    <3>1. LocallyComplete(r)
      BY <1>1, <1>2, <1>8, <2>1, EverybodyCompletes, Zenon
    <3>2. held \in [Trackers -> Nat]
      BY Zenon DEF CInv, TypeOK
    <3>3. held'[t] = held[t] + 1 /\ held[t] \in Nat
      BY <1>3, <1>5, <3>1, <3>2, Zenon
    <3>4. held'[t] > 0
      BY <3>3
    <3> QED BY <2>1, <3>4, Zenon
  <2>2. CASE u # t
    <3>1. Pending(u)
      BY <1>8, <1>9, <2>2, Zenon DEF KeptInv, CompleteInv
    <3>2. held'[u] = held[u]
      BY <1>3, <1>5, <1>6, <2>2, Zenon DEF CInv, TypeOK
    <3> QED BY <1>4, <3>1, <3>2, Zenon DEF Pending, Queued
  <2> QED BY <2>1, <2>2, Zenon
<1> QED BY <1>11, <1>12, <1>13, <1>14, Zenon DEF KeptInv

\* pmix_server_fence, whose directive to collect data does not change the count.
LEMMA FenceKept ==
    ASSUME Reliable, CInv, KeptInv, NEW p \in LocalProcs, NEW procs \in Signatures,
           NEW collect \in CollectDirectives, NEW timer \in Timers("fence"),
           pmix_server_fence(p, procs, collect, timer)
    PROVE  KeptInv'
<1> DEFINE call == CallOf("fence", procs)
           R(t) == TrackerRecord(t, "fence", procs)
           R0(t) == [R(t) EXCEPT !.collect_type = CollectType(t, R(t), collect)]
<1>1. /\ "fence" \in Types /\ p \in Participants(procs)
      /\ call \notin calls[p] /\ timer = "none"
  BY RequestLemma DEF pmix_server_fence, Reliable
<1>2. PICK t \in TrackerFor("fence", procs) :
        LET r == Contribute(R0(t), p, "none")
        IN  /\ Wait(t, r, p, call)
            /\ \/ ~LocallyComplete(r) /\ held' = held
               \/ LocallyComplete(r) /\ held' = [held EXCEPT ![t] = @ + 1]
  BY <1>1, Zenon DEF pmix_server_fence, Reliable
<1>3. UNCHANGED nsvars
  BY Zenon DEF pmix_server_fence
<1>4. /\ R(t) \in TrackerRecords /\ GoodRecord(R(t))
      /\ CallOf(R(t).type, R(t).pcs) = call
      /\ p \in Participants(R(t).pcs) /\ p \notin ProcsOf(R(t))
  BY <1>1, TrackerRecordLemma, Zenon
<1>5. Counted(R(t))
  BY <1>1, TrackerRecordCounted, Zenon
<1>6. Listed(t) => R(t) = trk[t]
  BY Zenon DEF TrackerRecord, IsNew
<1>7. CollectType(t, R(t), collect) \in {"no", "yes", "invalid"}
  BY Zenon DEF CollectType
<1> HIDE DEF R, call
<1>8. /\ R0(t) \in TrackerRecords /\ GoodRecord(R0(t))
      /\ R0(t).type = R(t).type /\ R0(t).pcs = R(t).pcs
      /\ ProcsOf(R0(t)) = ProcsOf(R(t))
  BY <1>4, <1>7, CollectLemma, Zenon
<1>9. R0(t).nlocal = R(t).nlocal /\ R0(t).def_complete = R(t).def_complete
  BY <1>4, Zenon DEF TrackerRecords
<1> HIDE DEF R0
<1>10. Counted(R0(t))
  BY <1>5, <1>8, <1>9, Zenon DEF Counted
<1> QED BY <1>1, <1>2, <1>3, <1>4, <1>6, <1>8, <1>10, JoinKept, Zenon DEF call

\* pmix_server_connect and pmix_server_disconnect.
LEMMA ConnectKept ==
    ASSUME Reliable, CInv, KeptInv, NEW p \in LocalProcs, NEW procs \in Signatures,
           NEW type, NEW timer \in Timers(type), ConnectOrDisconnect(type, p, procs, timer)
    PROVE  KeptInv'
<1> DEFINE call == CallOf(type, procs)
           R(t) == TrackerRecord(t, type, procs)
<1>1. /\ type \in Types /\ p \in Participants(procs)
      /\ call \notin calls[p] /\ timer = "none"
  <2>1. MayCall(p, type, procs)
    BY Zenon DEF ConnectOrDisconnect
  <2>2. timer \in {"none"}
    BY <2>1, RequestLemma, Zenon DEF Reliable
  <2> QED BY <2>1, <2>2, RequestLemma, Zenon DEF Reliable
<1>2. PICK t \in TrackerFor(type, procs) :
        LET r == Contribute(R(t), p, "none")
        IN  /\ Wait(t, r, p, call)
            /\ \/ ~LocallyComplete(r) /\ held' = held
               \/ LocallyComplete(r) /\ held' = [held EXCEPT ![t] = @ + 1]
  BY <1>1, Zenon DEF ConnectOrDisconnect, Reliable
<1>3. UNCHANGED nsvars
  BY Zenon DEF ConnectOrDisconnect
<1>4. /\ R(t) \in TrackerRecords /\ GoodRecord(R(t))
      /\ CallOf(R(t).type, R(t).pcs) = call
      /\ p \in Participants(R(t).pcs) /\ p \notin ProcsOf(R(t))
  BY <1>1, TrackerRecordLemma, Zenon
<1>5. Counted(R(t))
  BY <1>1, TrackerRecordCounted, Zenon
<1>6. Listed(t) => R(t) = trk[t]
  BY Zenon DEF TrackerRecord, IsNew
<1> HIDE DEF R, call
<1> QED BY <1>1, <1>2, <1>3, <1>4, <1>5, <1>6, JoinKept, Zenon DEF call

\* A tracker that the host hands back is still on its way to the callers.
LEMMA HostCallbackKept ==
    ASSUME CInv, KeptInv, NEW t \in Trackers, NEW st \in HostStatus, HostCallback(t, st)
    PROVE  KeptInv'
<1> DEFINE e == Event("cbfunc", t, st)
<1>1. /\ held' = [held EXCEPT ![t] = @ - 1] /\ shifted' = Append(shifted, e)
      /\ UNCHANGED <<nsvars, calls, collectives, trk>>
  BY Zenon DEF HostCallback, cbfunc
<1>2. e \in EventRecords /\ e.trk = t
  BY Zenon DEF Event, EventRecords
<1>3. shifted \in Seq(EventRecords)
  BY Zenon DEF CInv, TypeOK
<1> HIDE DEF e
<1>4. /\ DOMAIN shifted' = DOMAIN shifted \cup {Len(shifted) + 1}
      /\ \A i \in DOMAIN shifted : shifted'[i] = shifted[i]
      /\ shifted'[Len(shifted) + 1] = e
  BY <1>1, <1>2, <1>3
<1>5. \A u \in Trackers : Queued(u) \/ u = t => Queued(u)'
  BY <1>2, <1>4, Zenon DEF Queued
<1>6. \A u \in Trackers : u # t => held'[u] = held[u]
  BY <1>1, Zenon DEF CInv, TypeOK
<1>7. \A u \in Trackers : Pending(u) => Pending(u)'
  BY <1>5, <1>6, Zenon DEF Pending
<1>8. Known' /\ CountInv' /\ WaitInv'
  BY <1>1, Zenon DEF KeptInv, Known, CountInv, WaitInv, nsvars, Listed, Op
<1>9. CompleteInv'
  BY <1>1, <1>7, Zenon DEF KeptInv, CompleteInv, Listed
<1> QED BY <1>8, <1>9, Zenon DEF KeptInv

\* A sequence is defined from 1 to its length.
LEMMA SeqDomain == ASSUME NEW S, NEW s \in Seq(S) PROVE DOMAIN s = 1 .. Len(s)
  OBVIOUS

\* A completion that answers all the caddies of its tracker forgets nobody.
LEMMA CompletionKept ==
    ASSUME CInv, KeptInv, NEW t \in Trackers, Run("cbfunc", t),
           NEW r, trk' = [trk EXCEPT ![t] = r],
           NEW st, ReplyTo(trk[t], Len(trk[t].local_cbs), st),
           RemoveUnlessLost(t),
           UNCHANGED <<nsvars, held>>
    PROVE  KeptInv'
<1>1. Listed(t) /\ Unlost(trk[t])
  BY RunLemma, Zenon DEF CInv, ListInv
<1>2. collectives' = Without(collectives, t)
  BY <1>1, Zenon DEF RemoveUnlessLost, Unlost
<1>3. /\ collectives \in Seq(Trackers) /\ t \in ToSet(collectives)
      /\ \A j, k \in DOMAIN collectives : collectives[j] = collectives[k] => j = k
  BY <1>1, Zenon DEF CInv, TypeOK, ListInv, Listed
<1>4. \A u \in Trackers : Listed(u)' <=> Listed(u) /\ u # t
  BY <1>2, <1>3, WithoutLemma DEF Listed
<1>5. \A u \in Trackers : u # t => trk'[u] = trk[u] /\ Op(u)' = Op(u)
  BY Zenon DEF CInv, TypeOK, Op
<1>6. \A q \in LocalProcs :
         calls'[q] = IF q \in ProcsOf(trk[t]) THEN calls[q] \ {Op(t)} ELSE calls[q]
  <2>1. trk[t].local_cbs \in Seq(Caddies)
    BY TrackerFields, Zenon DEF CInv, TypeOK
  <2>2. DOMAIN trk[t].local_cbs = 1 .. Len(trk[t].local_cbs)
    BY <2>1, SeqDomain, Zenon
  <2>3. \A q : q \in ProcsOf(trk[t])
                <=> \E i \in 1 .. Len(trk[t].local_cbs) : trk[t].local_cbs[i].proc = q
    BY <2>2, Zenon DEF ProcsOf
  <2>4. calls' = [q \in LocalProcs |->
                    IF \E i \in 1 .. Len(trk[t].local_cbs) : trk[t].local_cbs[i].proc = q
                    THEN calls[q] \ {Op(t)} ELSE calls[q]]
    BY Zenon DEF ReplyTo, Op
  <2> QED BY <2>3, <2>4, Zenon
<1>7. \A u \in Trackers : u # t /\ Queued(u) => Queued(u)'
  <2>1. shifted \in Seq(EventRecords) /\ shifted # <<>> /\ shifted' = Tail(shifted)
    BY Zenon DEF CInv, TypeOK, Run
  <2>2. shifted[1].trk = t
    BY <2>1 DEF Run
  <2>3. \A i \in DOMAIN shifted : i # 1 => i - 1 \in DOMAIN shifted' /\ shifted'[i - 1] = shifted[i]
    BY <2>1
  <2> QED BY <2>2, <2>3, Zenon DEF Queued
<1>8. Known'
  BY Zenon DEF KeptInv, Known, nsvars
<1>9. CountInv'
  BY <1>4, <1>5, Zenon DEF KeptInv, CountInv, Counted
<1>10. WaitInv'
  <2> SUFFICES ASSUME NEW q \in LocalProcs, NEW d \in calls'[q]
               PROVE  \E u \in Trackers : Listed(u)' /\ Op(u)' = d /\ q \in ProcsOf(trk'[u])
    BY Zenon DEF WaitInv, ProcsOf
  <2>1. d \in calls[q]
    BY <1>6, Zenon
  <2>2. PICK u \in Trackers : Listed(u) /\ Op(u) = d /\ q \in ProcsOf(trk[u])
    BY <2>1, Zenon DEF KeptInv, WaitInv
  <2>3. u # t
    BY <1>6, <2>2, Zenon
  <2> QED BY <1>4, <1>5, <2>2, <2>3, Zenon
<1>11. CompleteInv'
  <2> SUFFICES ASSUME NEW u \in Trackers, Listed(u)',
                      Participants(trk'[u].pcs) \subseteq ProcsOf(trk'[u])
               PROVE  held'[u] > 0 \/ Queued(u)'
    BY Zenon DEF CompleteInv, Participants, ProcsOf, Pending
  <2>1. Pending(u) /\ u # t
    BY <1>4, <1>5, Zenon DEF KeptInv, CompleteInv
  <2> QED BY <1>7, <2>1, Zenon DEF Pending
<1> QED BY <1>8, <1>9, <1>10, <1>11, Zenon DEF KeptInv

\* Nothing is tracked at first.
LEMMA InitKept ==
    ASSUME Reliable, Init
    PROVE  KeptInv
<1>1. Known
  <2>1. LocalNspaces \subseteq Nspaces
    BY CollectivesAssumption, Zenon DEF LocalNspaces
  <2> QED BY <2>1, Zenon DEF Known, Init, Reliable, Environment
<1>2. \A t \in Trackers : ~Listed(t)
  BY DEF Init, Listed, ToSet
<1>3. CountInv /\ WaitInv /\ CompleteInv
  BY <1>2, Zenon DEF CountInv, WaitInv, CompleteInv, Init
<1> QED BY <1>1, <1>3, Zenon DEF KeptInv

\* Every step forgets nobody.
LEMMA NextKept ==
    ASSUME Reliable, CInv, KeptInv, [Next]_vars
    PROVE  KeptInv'
<1>1. ASSUME NEW p \in LocalProcs, NEW s \in Signatures, NEW c \in CollectDirectives,
             NEW m \in Timers("fence"), pmix_server_fence(p, s, c, m)
      PROVE  KeptInv'
  BY <1>1, FenceKept, Zenon
<1>2. ASSUME NEW p \in LocalProcs, NEW s \in Signatures, NEW m \in Timers("connect"),
             pmix_server_connect(p, s, m)
      PROVE  KeptInv'
  BY <1>2, ConnectKept, Zenon DEF pmix_server_connect
<1>3. ASSUME NEW p \in LocalProcs, NEW s \in Signatures, pmix_server_disconnect(p, s)
      PROVE  KeptInv'
  <2>1. "none" \in Timers("disconnect")
    BY Zenon DEF Timers
  <2> QED BY <1>3, <2>1, ConnectKept, Zenon DEF pmix_server_disconnect
<1>4. ASSUME NEW t \in Trackers, NEW st \in HostStatus, HostCallback(t, st)
      PROVE  KeptInv'
  BY <1>4, HostCallbackKept, Zenon
<1>5. ASSUME NEW t \in Trackers, NEW i \in DOMAIN trk[t].local_cbs, collective_timeout(t, i)
      PROVE  KeptInv'
  <2>1. Listed(t) /\ trk[t].local_cbs[i].timer = "armed"
    BY <1>5, Zenon DEF collective_timeout, CInv, ListInv
  <2> QED BY <2>1, Zenon DEF CInv, RecordInv, GoodRecord
<1>6. ASSUME NEW t \in Trackers, _mdxcbfunc(t) PROVE KeptInv'
  BY <1>6, CompletionKept, Zenon DEF _mdxcbfunc
<1>7. ASSUME NEW t \in Trackers, NEW type, Completed(t, type) PROVE KeptInv'
  <2>1. Answered(trk[t], Head(shifted).status) = {Len(trk[t].local_cbs)}
    BY Zenon DEF Answered, Reliable
  <2>2. ReplyTo(trk[t], Len(trk[t].local_cbs), Head(shifted).status)
    BY <1>7, <2>1, Zenon DEF Completed
  <2>3. /\ Run("cbfunc", t) /\ RemoveUnlessLost(t) /\ UNCHANGED <<nsvars, held>>
        /\ trk' = [trk EXCEPT ![t] = [Drop(trk[t]) EXCEPT !.event_active = FALSE]]
    BY <1>7, Zenon DEF Completed
  <2> QED BY <2>2, <2>3, CompletionKept, Zenon
<1>8. ASSUME NEW t \in Trackers, pmix_server_execute_collective(t) PROVE KeptInv'
  <2>1. shifted # <<>> /\ Head(shifted).fn = "execute"
    BY <1>8, Zenon DEF pmix_server_execute_collective, Run
  <2>2. 1 \in DOMAIN shifted /\ shifted[1].fn = "execute"
    BY <2>1 DEF CInv, TypeOK
  <2> QED BY <2>2, Zenon DEF CInv, PendingInv
<1>9. ASSUME NEW t \in Trackers, _timeout(t) \/ HostForgets(t) PROVE KeptInv'
  BY <1>9, Zenon DEF _timeout, HostForgets, CInv, ListInv, Unlost
<1>10. ASSUME NEW p \in LocalProcs, pmix_ptl_base_lost_connection(p) PROVE KeptInv'
  BY <1>10, Zenon DEF pmix_ptl_base_lost_connection, Reliable, Environment
<1>11. ASSUME NEW p \in LocalProcs, _register_client(p) PROVE KeptInv'
  BY <1>11, Zenon DEF _register_client, CInv, Static
<1>12. ASSUME NEW n \in Nspaces, _register_nspace(n) PROVE KeptInv'
  <2>1. Known'
    BY <1>12, Zenon DEF _register_nspace, KeptInv, Known, CInv, TypeOK
  <2>2. CountInv' /\ WaitInv' /\ CompleteInv'
    BY <1>12, Zenon DEF _register_nspace, KeptInv, CountInv, WaitInv, CompleteInv,
                 Listed, Op, Pending, Queued
  <2> QED BY <2>1, <2>2, Zenon DEF KeptInv
<1>13. ASSUME NEW n \in Nspaces, LandingZone(n) PROVE KeptInv'
  BY <1>13, Zenon DEF LandingZone, Reliable
<1>14. CASE UNCHANGED vars
  BY <1>14, Zenon DEF vars, KeptInv, Known, CountInv, WaitInv, CompleteInv, Listed, Op, Pending, Queued
<1> QED BY <1>1, <1>2, <1>3, <1>4, <1>5, <1>6, <1>7, <1>8, <1>9, <1>10, <1>11, <1>12, <1>13,
           <1>14, Zenon DEF Next, _cnct, _discnct

\* ContributionsKept: when the host accepts what it is given, a process that
\* waits for a collective always has a caddy in a live tracker of it, and a
\* collective that all its local participants wait for is with the host or on
\* its way back (pmix_server_fence, pmix_server_connect, pmix_server_disconnect
\* and their callbacks), whatever the arrays of procs and their order.
THEOREM CollectivesKept ==
    ASSUME Reliable
    PROVE  Spec => []ContributionsKept
<1>1. CInv /\ KeptInv => WaitersTracked
  BY Zenon DEF CInv, KeptInv, ListInv, WaitInv, WaitersTracked, Op
<1>2. CInv /\ KeptInv => AllContributedUpcalled
  <2> SUFFICES ASSUME CInv, KeptInv, NEW type \in Types, NEW s \in Signatures,
                      Participants(s) # {},
                      \A p \in Participants(s) : CallOf(type, s) \in calls[p]
               PROVE  \E t \in Trackers : Live(t) /\ Op(t) = CallOf(type, s) /\ Pending(t)
    BY Zenon DEF AllContributedUpcalled, Op, Pending, CInv, Static
  <2>1. \A p \in Participants(s) : p \in LocalProcs
    BY Zenon DEF Participants
  <2>2. PICK p \in Participants(s) : TRUE
    BY Zenon
  <2>3. PICK t \in Trackers : Listed(t) /\ Op(t) = CallOf(type, s) /\ p \in ProcsOf(trk[t])
    BY <2>1, <2>2, Zenon DEF KeptInv, WaitInv
  <2>4. \A q \in Participants(s) : q \in ProcsOf(trk[t])
    BY <2>1, <2>3, Zenon DEF KeptInv, WaitInv, CInv, UniqueInv
  <2>5. ToSet(trk[t].pcs) = ToSet(s)
    BY <2>3, Zenon DEF Op, CallOf
  <2>6. Participants(trk[t].pcs) \subseteq Participants(s)
    BY <2>5, Zenon DEF Participants, ToSet
  <2>7. Pending(t)
    BY <2>3, <2>4, <2>6, Zenon DEF KeptInv, CompleteInv
  <2> QED BY <2>3, <2>7, Zenon DEF CInv, ListInv
<1>3. CInv /\ KeptInv => ContributionsKept
  BY <1>1, <1>2, Zenon DEF ContributionsKept, CInv
<1>4. Environment
  BY Zenon DEF Reliable
<1> QED BY <1>3, <1>4, InitInv, NextInv, InitKept, NextKept, PTL DEF Spec

=============================================================================
