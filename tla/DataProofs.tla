----------------------------- MODULE DataProofs -----------------------------
(***************************************************************************)
(* Proofs about the data layers.  The lock of the shared-memory store      *)
(* (DstoreLock): for any namespaces, numbers of mutexes, client processes  *)
(* and threads, the mutexes of gds/ds21 are the reader-writer lock of      *)
(* RWLock, and no two processes share a pair.  Buffers: for any number of  *)
(* buffers, any sizes and any payloads, whatever is packed, copied or      *)
(* loaded lies inside the memory of its buffer, unpacking never passes the *)
(* end of what was packed, and a buffer is the queue of its cells: packing *)
(* appends, unpacking takes from the front (BufferIsQueue).                *)
(***************************************************************************)
EXTENDS Buffers, DstoreLock, SequenceTheorems, TLAPS

-----------------------------------------------------------------------------
(* The lock of the data store *)

Labels == {"idle", "ctx", "again", "first", "second", "signal", "sync", "read"}
ServerLabels == {"idle", "first", "second", "write", "rel_first", "rel_second"}

TypeInv ==
  /\ owner \in [Mutexes -> Threads \cup {"server", NoOne}]
  /\ taken \in [AllPairs -> BOOLEAN]
  /\ lock_idx \in [Procs -> Int]
  /\ scan \in [Procs -> Nat]
  /\ pc \in [Threads -> Labels]
  /\ spc \in ServerLabels /\ item \in Nat \ {0} /\ idx \in Nat

\* The loop of lock_init has passed the indices below scan, and all of them are taken.
IndexInv ==
  \A c \in Procs :
    /\ scan[c] <= NumLocks[NspaceOf[c]]
    /\ \A i \in 0..(scan[c] - 1) : taken[<<NspaceOf[c], i>>]
    /\ lock_idx[c] # -1 => \/ lock_idx[c] = -2 /\ scan[c] = NumLocks[NspaceOf[c]]
                           \/ /\ lock_idx[c] \in 0..(NumLocks[NspaceOf[c]] - 1)
                              /\ taken[<<NspaceOf[c], lock_idx[c]>>]

Distinct ==
  \A c, d \in Procs : c # d /\ NspaceOf[c] = NspaceOf[d] /\ lock_idx[c] >= 0 => lock_idx[c] # lock_idx[d]

\* A reader holds the mutexes its place in _dstore_fetch says.
ReaderInv ==
  \A t \in Threads :
    /\ pc[t] # "idle" => lock_idx[ProcOf[t]] >= 0
    /\ pc[t] \in {"second", "signal"} => owner[Mine(t, "first")] = t
    /\ pc[t] \in {"signal", "sync", "read"} => owner[Mine(t, "second")] = t
    /\ pc[t] \in {"again", "first", "second", "signal", "sync"} => owner[Ctx(t)] = t

\* The mutexes the server holds, from the place of its loops.
ServerHolds(j, i, k) ==
  \/ spc = "first" /\ (j < item \/ (j = item /\ k = "first" /\ i < idx))
  \/ spc = "second" /\ (j < item \/ (j = item /\ (k = "first" \/ i < idx)))
  \/ spc = "write"
  \/ spc = "rel_first" /\ (j > item \/ (j = item /\ i >= idx))
  \/ spc = "rel_second" /\ (j > item \/ (j = item /\ (i > idx \/ (i = idx /\ k = "second"))))
ServerInv ==
  /\ \A j \in 1..Len(Items) : \A i \in 0..(NumLocks[Items[j]] - 1), k \in {"first", "second"} :
        ServerHolds(j, i, k) => owner[<<<<Items[j], i>>, k>>] = "server"
  /\ spc = "second" => item <= Len(Items)
  /\ spc = "rel_second" => item <= Len(Items) /\ idx < NumLocks[Items[item]]

IInv == TypeInv /\ IndexInv /\ Distinct /\ ReaderInv /\ ServerInv

----------------------------------------------------------------------------

\* The pairs, and with them the mutexes, are those of the items' indices.
LEMMA PairFacts ==
  ASSUME Setting
  PROVE  /\ \A j \in 1..Len(Items) : \A i \in 0..(NumLocks[Items[j]] - 1) : <<Items[j], i>> \in AllPairs
         /\ \A c \in Procs : \A i \in 0..(NumLocks[NspaceOf[c]] - 1) : <<NspaceOf[c], i>> \in AllPairs
         /\ \A p \in AllPairs : <<p, "first">> \in Mutexes /\ <<p, "second">> \in Mutexes
         /\ \A t \in Threads : ProcOf[t] \in Procs /\ Ctx(t) \in Mutexes
         /\ \A c \in Procs : NumLocks[NspaceOf[c]] \in Nat
  BY DEF Setting, AllPairs, Pairs, Mutexes, Ctx, Procs

\* A thread that is past attaching names mutexes that exist.
LEMMA MineFacts ==
  ASSUME Setting, IInv, NEW t \in Threads, lock_idx[ProcOf[t]] >= 0
  PROVE  /\ lock_idx[ProcOf[t]] \in 0..(NumLocks[NspaceOf[ProcOf[t]]] - 1)
         /\ Mine(t, "first") \in Mutexes /\ Mine(t, "second") \in Mutexes
  <1>1. ProcOf[t] \in Procs
    BY PairFacts
  <1>2. lock_idx[ProcOf[t]] \in 0..(NumLocks[NspaceOf[ProcOf[t]]] - 1)
    <2>1. lock_idx[ProcOf[t]] \in Int /\ lock_idx[ProcOf[t]] # -1 /\ lock_idx[ProcOf[t]] # -2
      BY <1>1 DEF IInv, TypeInv
    <2> QED
      BY <1>1, <2>1, Zenon DEF IInv, IndexInv
  <1> QED
    BY <1>1, <1>2, PairFacts DEF Mine

\* The index a process tries next is at most the number of pairs.
LEMMA ScanFacts ==
  ASSUME Setting, IInv, NEW c \in Procs
  PROVE  NumLocks[NspaceOf[c]] \in Nat /\ scan[c] \in 0..NumLocks[NspaceOf[c]]
  <1>1. scan[c] \in Nat
    BY DEF IInv, TypeInv
  <1>2. scan[c] <= NumLocks[NspaceOf[c]]
    BY Zenon DEF IInv, IndexInv
  <1> QED
    BY <1>1, <1>2, PairFacts

\* Initially nobody holds anything.
LEMMA InitIInv == ASSUME Setting, Init PROVE IInv
  <1>1. TypeInv
    BY DEF Init, TypeInv, Labels, ServerLabels
  <1>2. IndexInv
    BY PairFacts DEF Init, IndexInv
  <1>3. Distinct
    BY DEF Init, Distinct
  <1>4. ReaderInv
    BY DEF Init, ReaderInv
  <1>5. ServerInv
    BY DEF Init, ServerInv, ServerHolds
  <1> QED
    BY <1>1, <1>2, <1>3, <1>4, <1>5 DEF IInv

\* Taking a mutex that is free, and giving one back, leave the others alone.
LEMMA LockFacts ==
  ASSUME Setting, IInv, NEW m \in Mutexes, NEW who, Lock(m, who)
  PROVE  owner'[m] = who /\ \A x \in Mutexes : owner[x] # NoOne => owner'[x] = owner[x]
  BY DEF Lock, IInv, TypeInv

\* Releasing a mutex changes no other.
LEMMA UnlockFacts ==
  ASSUME Setting, IInv, NEW m \in Mutexes, Unlock(m)
  PROVE  \A x \in Mutexes : x # m => owner'[x] = owner[x]
  BY DEF Unlock, IInv, TypeInv

\* The mutexes stay with whom the invariant says when a step leaves the places of
\* the loops alone and takes nothing from the server.
LEMMA ServerKept ==
  ASSUME Setting, IInv, UNCHANGED server,
         \A x \in Mutexes : owner[x] = "server" => owner'[x] = "server"
  PROVE  ServerInv'
  <1>1. \A j \in 1..Len(Items) : \A i \in 0..(NumLocks[Items[j]] - 1), k \in {"first", "second"} :
           <<<<Items[j], i>>, k>> \in Mutexes
    BY PairFacts, Zenon
  <1>2. \A j, i, k : ServerHolds(j, i, k)' <=> ServerHolds(j, i, k)
    BY DEF ServerHolds, server
  <1> QED
    BY <1>1, <1>2, Zenon DEF IInv, ServerInv, server

\* So do the readers' when a step leaves the readers alone and takes nothing from them.
LEMMA ReadersKept ==
  ASSUME Setting, IInv, UNCHANGED <<pc, lock_idx>>,
         \A x \in Mutexes : owner[x] \in Threads => owner'[x] = owner[x]
  PROVE  ReaderInv'
  <1> SUFFICES ASSUME NEW t \in Threads, pc[t] # "idle"
               PROVE  /\ lock_idx[ProcOf[t]] >= 0
                      /\ pc[t] \in {"second", "signal"} => owner'[Mine(t, "first")] = t
                      /\ pc[t] \in {"signal", "sync", "read"} => owner'[Mine(t, "second")] = t
                      /\ pc[t] \in {"again", "first", "second", "signal", "sync"} => owner'[Ctx(t)] = t
    BY DEF ReaderInv, Mine, Ctx
  <1>1. lock_idx[ProcOf[t]] >= 0
    BY DEF IInv, ReaderInv
  <1>2. Mine(t, "first") \in Mutexes /\ Mine(t, "second") \in Mutexes /\ Ctx(t) \in Mutexes
    BY <1>1, MineFacts, PairFacts
  <1> QED
    BY <1>1, <1>2 DEF IInv, ReaderInv

\* A step of thread t: the others' mutexes are untouched, and what t holds is as its
\* new place says.
LEMMA OneReaderMoves ==
  ASSUME Setting, IInv, UNCHANGED lock_idx, NEW t \in Threads, NEW l,
         pc' = [pc EXCEPT ![t] = l], pc[t] # "idle",
         \A x \in Mutexes : owner[x] \in Threads \ {t} => owner'[x] = owner[x],
         /\ l \in {"second", "signal"} => owner'[Mine(t, "first")] = t
         /\ l \in {"signal", "sync", "read"} => owner'[Mine(t, "second")] = t
         /\ l \in {"again", "first", "second", "signal", "sync"} => owner'[Ctx(t)] = t
  PROVE  ReaderInv'
  <1> SUFFICES ASSUME NEW u \in Threads, pc'[u] # "idle"
               PROVE  /\ lock_idx[ProcOf[u]] >= 0
                      /\ pc'[u] \in {"second", "signal"} => owner'[Mine(u, "first")] = u
                      /\ pc'[u] \in {"signal", "sync", "read"} => owner'[Mine(u, "second")] = u
                      /\ pc'[u] \in {"again", "first", "second", "signal", "sync"} => owner'[Ctx(u)] = u
    BY DEF ReaderInv, Mine, Ctx
  <1>0. pc'[u] = IF u = t THEN l ELSE pc[u]
    BY DEF IInv, TypeInv
  <1>1. lock_idx[ProcOf[u]] >= 0
    BY <1>0 DEF IInv, ReaderInv
  <1>2. Mine(u, "first") \in Mutexes /\ Mine(u, "second") \in Mutexes /\ Ctx(u) \in Mutexes
    BY <1>1, MineFacts, PairFacts
  <1>3. CASE u = t
    BY <1>0, <1>1, <1>3
  <1>4. CASE u # t
    BY <1>0, <1>1, <1>2, <1>4 DEF IInv, ReaderInv
  <1> QED
    BY <1>3, <1>4

----------------------------------------------------------------------------

\* lock_init keeps the invariant: one compare-and-exchange takes one free index.
LEMMA StepLockInit ==
  ASSUME Setting, IInv, NEW c \in Procs, lock_init(c)
  PROVE  IInv'
  <1> USE DEF IInv
  <1> DEFINE n == NspaceOf[c]
             i == scan[c]
  <1>0. /\ lock_idx[c] = -1 /\ UNCHANGED <<owner, pc, server>>
        /\ \/ i = NumLocks[n] /\ lock_idx' = [lock_idx EXCEPT ![c] = -2] /\ UNCHANGED <<taken, scan>>
           \/ i # NumLocks[n] /\ taken[<<n, i>>] /\ scan' = [scan EXCEPT ![c] = i + 1] /\ UNCHANGED <<taken, lock_idx>>
           \/ /\ i # NumLocks[n] /\ ~taken[<<n, i>>]
              /\ taken' = [taken EXCEPT ![<<n, i>>] = TRUE] /\ lock_idx' = [lock_idx EXCEPT ![c] = i]
              /\ UNCHANGED scan
    BY DEF lock_init
  <1>1. NumLocks[n] \in Nat /\ i \in 0..NumLocks[n]
    BY ScanFacts
  <1>2. i # NumLocks[n] => <<n, i>> \in AllPairs
    BY <1>1, PairFacts
  <1>3. TypeInv'
    <2>1. lock_idx' \in [Procs -> Int]
      BY <1>0, <1>1 DEF TypeInv
    <2>2. scan' \in [Procs -> Nat]
      BY <1>0, <1>1 DEF TypeInv
    <2>3. taken' \in [AllPairs -> BOOLEAN]
      BY <1>0, Zenon DEF TypeInv
    <2> QED
      BY <1>0, <2>1, <2>2, <2>3 DEF TypeInv, server
  <1>4. \A p \in AllPairs : taken[p] => taken'[p]
    BY <1>0 DEF TypeInv
  <1>5. IndexInv'
    <2> SUFFICES ASSUME NEW d \in Procs
                 PROVE  /\ scan'[d] <= NumLocks[NspaceOf[d]]
                        /\ \A k \in 0..(scan'[d] - 1) : taken'[<<NspaceOf[d], k>>]
                        /\ lock_idx'[d] # -1 =>
                              \/ lock_idx'[d] = -2 /\ scan'[d] = NumLocks[NspaceOf[d]]
                              \/ /\ lock_idx'[d] \in 0..(NumLocks[NspaceOf[d]] - 1)
                                 /\ taken'[<<NspaceOf[d], lock_idx'[d]>>]
      BY DEF IndexInv
    <2>1. NumLocks[NspaceOf[d]] \in Nat /\ scan[d] \in 0..NumLocks[NspaceOf[d]]
      BY ScanFacts
    <2>2. \A k \in 0..(NumLocks[NspaceOf[d]] - 1) : <<NspaceOf[d], k>> \in AllPairs
      BY PairFacts
    <2>3. \A k \in 0..(scan[d] - 1) : taken'[<<NspaceOf[d], k>>]
      <3>1. \A k \in 0..(scan[d] - 1) : taken[<<NspaceOf[d], k>>]
        BY Zenon DEF IndexInv
      <3> QED
        BY <3>1, <2>1, <2>2, <1>4
    <2>4. CASE d # c
      <3>1. scan'[d] = scan[d] /\ lock_idx'[d] = lock_idx[d]
        BY <2>4, <1>0 DEF TypeInv
      <3> QED
        BY <3>1, <2>1, <2>2, <2>3, <1>4 DEF IndexInv
    <2>5. CASE d = c
      <3>1. CASE i = NumLocks[n]
        BY <3>1, <2>5, <1>0, <1>1, <2>3 DEF TypeInv
      <3>2. CASE i # NumLocks[n] /\ taken[<<n, i>>]
        <4>1. scan'[d] = i + 1 /\ lock_idx'[d] = -1 /\ taken'[<<n, i>>]
          BY <3>2, <2>5, <1>0, <1>1 DEF TypeInv
        <4> QED
          BY <4>1, <3>2, <2>5, <2>3, <1>1
      <3>3. CASE i # NumLocks[n] /\ ~taken[<<n, i>>]
        <4>1. scan'[d] = i /\ lock_idx'[d] = i /\ taken'[<<n, i>>]
          BY <3>3, <2>5, <1>0, <1>1, <1>2 DEF TypeInv
        <4> QED
          BY <4>1, <3>3, <2>5, <2>3, <1>1
      <3> QED
        BY <3>1, <3>2, <3>3
    <2> QED
      BY <2>4, <2>5
  <1>6. Distinct'
    <2>1. CASE lock_idx'[c] < 0
      BY <2>1, <1>0, <1>1 DEF Distinct, TypeInv
    <2>2. CASE lock_idx'[c] >= 0
      <3>1. ~taken[<<n, i>>] /\ lock_idx' = [lock_idx EXCEPT ![c] = i]
        BY <2>2, <1>0, <1>1 DEF TypeInv
      <3>2. ASSUME NEW d \in Procs, d # c, NspaceOf[d] = n PROVE lock_idx[d] # i
        BY <3>1, <3>2, <1>1 DEF IndexInv
      <3> QED
        BY <3>1, <3>2, <1>1 DEF Distinct, TypeInv
    <2>3. lock_idx'[c] \in Int
      BY <1>3 DEF TypeInv
    <2> QED
      BY <2>1, <2>2, <2>3
  <1>7. ReaderInv'
    <2> SUFFICES ASSUME NEW t \in Threads, pc[t] # "idle"
                 PROVE  lock_idx'[ProcOf[t]] = lock_idx[ProcOf[t]]
      BY <1>0 DEF ReaderInv, Mine, Ctx
    <2>1. ProcOf[t] # c
      BY <1>0 DEF ReaderInv
    <2> QED
      BY <2>1, <1>0, PairFacts DEF TypeInv
  <1>8. ServerInv'
    BY <1>0, ServerKept
  <1> QED
    BY <1>3, <1>5, <1>6, <1>7, <1>8

\* Who attached does not change while the index array and the indices do not.
LEMMA IndicesKept ==
  ASSUME Setting, IInv, UNCHANGED <<taken, lock_idx, scan>>
  PROVE  IndexInv' /\ Distinct'
  BY DEF IInv, IndexInv, Distinct

\* The steps of a reader keep the invariant: it gives back only what it holds.
LEMMA StepFetch ==
  ASSUME Setting, IInv, NEW t \in Threads, _dstore_fetch(t)
  PROVE  IInv'
  <1>0. /\ pc[t] = "idle" /\ lock_idx[ProcOf[t]] >= 0 /\ pc' = [pc EXCEPT ![t] = "ctx"]
        /\ UNCHANGED <<owner, taken, lock_idx, scan, server>>
    BY DEF _dstore_fetch, Goto, Rest
  <1>1. TypeInv'
    BY <1>0 DEF IInv, TypeInv, Labels, server
  <1>2. ReaderInv'
    BY <1>0, Zenon DEF IInv, TypeInv, ReaderInv, Mine, Ctx
  <1> QED
    BY <1>0, <1>1, <1>2, IndicesKept, ServerKept DEF IInv

\* The steps of a reader keep the invariant.
LEMMA StepReader ==
  ASSUME Setting, IInv, NEW t \in Threads, Reader(t)
  PROVE  IInv'
  <1>0. UNCHANGED <<taken, lock_idx, scan, server>> /\ pc[t] # "idle"
    BY DEF Reader, LockCtx, _get_univ_size, RdFirst, RdSecond, RdSignal, UnlockCtx, rd_rel, Rest
  <1>1. IndexInv' /\ Distinct'
    BY <1>0, IndicesKept
  <1>2. /\ lock_idx[ProcOf[t]] >= 0
        /\ Mine(t, "first") \in Mutexes /\ Mine(t, "second") \in Mutexes /\ Ctx(t) \in Mutexes
    BY <1>0, MineFacts, PairFacts DEF IInv, ReaderInv
  <1>3. t # NoOne /\ t # "server"
    BY DEF Setting
  <1>4. Mine(t, "first") # Mine(t, "second") /\ Ctx(t) # Mine(t, "first") /\ Ctx(t) # Mine(t, "second")
    BY DEF Mine, Ctx
  \* Taking mutex m and going on to l.
  <1>5. ASSUME NEW m \in Mutexes, NEW l \in Labels, Lock(m, t), Goto(t, l)
        PROVE  /\ TypeInv' /\ ServerInv'
               /\ \A x \in Mutexes : owner[x] \in Threads => owner'[x] = owner[x]
    <2>1. \A x \in Mutexes : owner[x] # NoOne => owner'[x] = owner[x]
      BY <1>5, LockFacts
    <2>2. TypeInv'
      BY <1>0, <1>5 DEF IInv, TypeInv, Lock, Goto, server
    <2> QED
      BY <1>0, <2>1, <2>2, ServerKept DEF Setting
  \* Giving back a mutex m of its own and going on to l.
  <1>6. ASSUME NEW m \in Mutexes, NEW l \in Labels, Unlock(m), owner[m] = t, Goto(t, l)
        PROVE  /\ TypeInv' /\ ServerInv'
               /\ \A x \in Mutexes : owner[x] \in Threads \ {t} => owner'[x] = owner[x]
    <2>1. \A x \in Mutexes : x # m => owner'[x] = owner[x]
      BY <1>6, UnlockFacts
    <2>2. TypeInv'
      BY <1>0, <1>6 DEF IInv, TypeInv, Unlock, Goto, server
    <2> QED
      BY <1>0, <1>3, <1>6, <2>1, <2>2, ServerKept
  <1>7. CASE LockCtx(t)
    <2>1. Lock(Ctx(t), t) /\ Goto(t, "first") /\ pc[t] = "ctx"
      BY <1>7 DEF LockCtx
    <2>2. owner'[Ctx(t)] = t
      BY <2>1, <1>2, LockFacts
    <2>3. ReaderInv'
      BY <2>1, <2>2, <1>0, <1>2, <1>5, OneReaderMoves, Zenon DEF Goto, Labels
    <2> QED
      BY <2>1, <2>3, <1>1, <1>2, <1>5 DEF IInv, Labels
  <1>13. CASE _get_univ_size(t)
    <2>1. Lock(Ctx(t), t) /\ Goto(t, "again") /\ pc[t] = "ctx"
      BY <1>13 DEF _get_univ_size
    <2>2. owner'[Ctx(t)] = t
      BY <2>1, <1>2, LockFacts
    <2>3. ReaderInv'
      BY <2>1, <2>2, <1>0, <1>2, <1>5, OneReaderMoves, Zenon DEF Goto, Labels
    <2> QED
      BY <2>1, <2>3, <1>1, <1>2, <1>5 DEF IInv, Labels
  <1>8. CASE RdFirst(t)
    <2>1. Lock(Mine(t, "first"), t) /\ Goto(t, "second") /\ pc[t] = "first"
      BY <1>8 DEF RdFirst
    <2>2. owner'[Mine(t, "first")] = t /\ owner[Ctx(t)] = t
      BY <2>1, <1>2, LockFacts DEF IInv, ReaderInv
    <2>3. ReaderInv'
      BY <2>1, <2>2, <1>0, <1>2, <1>5, OneReaderMoves, Zenon DEF Goto, Labels
    <2> QED
      BY <2>1, <2>3, <1>1, <1>2, <1>5 DEF IInv, Labels
  <1>9. CASE RdSecond(t)
    <2>1. Lock(Mine(t, "second"), t) /\ Goto(t, "signal") /\ pc[t] = "second"
      BY <1>9 DEF RdSecond
    <2>2. owner'[Mine(t, "second")] = t /\ owner[Mine(t, "first")] = t /\ owner[Ctx(t)] = t
      BY <2>1, <1>2, LockFacts DEF IInv, ReaderInv
    <2>3. ReaderInv'
      BY <2>1, <2>2, <1>0, <1>2, <1>5, OneReaderMoves, Zenon DEF Goto, Labels
    <2> QED
      BY <2>1, <2>3, <1>1, <1>2, <1>5 DEF IInv, Labels
  <1>10. CASE RdSignal(t)
    <2>1. Unlock(Mine(t, "first")) /\ Goto(t, "sync") /\ pc[t] = "signal"
      BY <1>10 DEF RdSignal
    <2>2. owner[Mine(t, "first")] = t /\ owner[Mine(t, "second")] = t /\ owner[Ctx(t)] = t
      BY <2>1 DEF IInv, ReaderInv
    <2>3. owner'[Mine(t, "second")] = t /\ owner'[Ctx(t)] = t
      BY <2>1, <2>2, <1>2, <1>4, UnlockFacts
    <2>4. ReaderInv'
      BY <2>1, <2>2, <2>3, <1>0, <1>2, <1>6, OneReaderMoves, Zenon DEF Goto, Labels
    <2> QED
      BY <2>1, <2>2, <2>4, <1>1, <1>2, <1>6 DEF IInv, Labels
  <1>11. CASE UnlockCtx(t)
    <2>1. Unlock(Ctx(t)) /\ Goto(t, "read") /\ pc[t] = "sync"
      BY <1>11 DEF UnlockCtx
    <2>2. owner[Mine(t, "second")] = t /\ owner[Ctx(t)] = t
      BY <2>1 DEF IInv, ReaderInv
    <2>3. owner'[Mine(t, "second")] = t
      BY <2>1, <2>2, <1>2, <1>4, UnlockFacts
    <2>4. ReaderInv'
      BY <2>1, <2>2, <2>3, <1>0, <1>2, <1>6, OneReaderMoves, Zenon DEF Goto, Labels
    <2> QED
      BY <2>1, <2>2, <2>4, <1>1, <1>2, <1>6 DEF IInv, Labels
  <1>12. CASE rd_rel(t)
    <2>1. Unlock(Mine(t, "second")) /\ Goto(t, "idle") /\ pc[t] = "read"
      BY <1>12 DEF rd_rel
    <2>2. owner[Mine(t, "second")] = t
      BY <2>1 DEF IInv, ReaderInv
    <2>3. ReaderInv'
      BY <2>1, <2>2, <1>0, <1>2, <1>6, OneReaderMoves, Zenon DEF Goto, Labels
    <2> QED
      BY <2>1, <2>2, <2>3, <1>1, <1>2, <1>6 DEF IInv, Labels
  <1> QED
    BY <1>7, <1>8, <1>9, <1>10, <1>11, <1>12, <1>13 DEF Reader

\* What the server holds in each of its loops.
LEMMA HoldsNow ==
  \A j, i, k :
    /\ spc = "idle" => ~ServerHolds(j, i, k)
    /\ spc = "first" => (ServerHolds(j, i, k) <=> j < item \/ (j = item /\ k = "first" /\ i < idx))
    /\ spc = "second" => (ServerHolds(j, i, k) <=> j < item \/ (j = item /\ (k = "first" \/ i < idx)))
    /\ spc = "write" => ServerHolds(j, i, k)
    /\ spc = "rel_first" => (ServerHolds(j, i, k) <=> j > item \/ (j = item /\ i >= idx))
    /\ spc = "rel_second" =>
         (ServerHolds(j, i, k) <=> j > item \/ (j = item /\ (i > idx \/ (i = idx /\ k = "second"))))
  BY DEF ServerHolds

\* What the server holds after a step, by its label.
LEMMA HoldsNext ==
  \A j, i, k :
    /\ spc' = "idle" => ~ServerHolds(j, i, k)'
    /\ spc' = "first" => (ServerHolds(j, i, k)' <=> j < item' \/ (j = item' /\ k = "first" /\ i < idx'))
    /\ spc' = "second" => (ServerHolds(j, i, k)' <=> j < item' \/ (j = item' /\ (k = "first" \/ i < idx')))
    /\ spc' = "write" => ServerHolds(j, i, k)'
    /\ spc' = "rel_first" => (ServerHolds(j, i, k)' <=> j > item' \/ (j = item' /\ i >= idx'))
    /\ spc' = "rel_second" =>
         (ServerHolds(j, i, k)' <=> j > item' \/ (j = item' /\ (i > idx' \/ (i = idx' /\ k = "second"))))
  BY DEF ServerHolds

\* Who may own a mutex.
LEMMA OwnerType ==
  ASSUME IInv
  PROVE  owner \in [Mutexes -> Threads \cup {"server", NoOne}]
  BY DEF IInv, TypeInv

\* A step of the server keeps the types.
LEMMA ServerTyped ==
  ASSUME IInv, UNCHANGED <<taken, lock_idx, scan, pc>>,
         owner' \in [Mutexes -> Threads \cup {"server", NoOne}],
         spc' \in ServerLabels, item' \in Nat \ {0}, idx' \in Nat
  PROVE  TypeInv'
  BY DEF IInv, TypeInv

\* The steps of the server keep the invariant: it too gives back only what it holds.
LEMMA StepStart ==
  ASSUME Setting, IInv, wr_start
  PROVE  IInv'
  <1>0. At("first", 1, 0) /\ UNCHANGED <<owner, taken, lock_idx, scan, pc>>
    BY DEF wr_start, Aside
  <1>1. TypeInv'
    BY <1>0, OwnerType, ServerTyped DEF At, ServerLabels
  <1>2. ServerInv'
    BY <1>0, HoldsNow, HoldsNext DEF ServerInv, Setting, At
  <1> QED
    BY <1>0, <1>1, <1>2, IndicesKept, ReadersKept DEF IInv

\* The server takes a mutex.
LEMMA StepGet ==
  ASSUME Setting, IInv, wr_get
  PROVE  IInv'
  <1> DEFINE m == <<<<Item, idx>>, spc>>
  <1>0. /\ spc \in {"first", "second"} /\ item <= Len(Items) /\ idx < NumLocks[Item]
        /\ Lock(m, "server") /\ At(spc, item, idx + 1)
        /\ UNCHANGED <<taken, lock_idx, scan, pc>>
    BY DEF wr_get, Aside
  <1>1. item \in 1..Len(Items) /\ idx \in 0..(NumLocks[Item] - 1) /\ NumLocks[Item] \in Nat
    BY <1>0 DEF IInv, TypeInv, Setting, Item
  <1>2. m \in Mutexes
    BY <1>0, <1>1, PairFacts, Zenon DEF Item
  <1>3. owner'[m] = "server" /\ \A x \in Mutexes : owner[x] # NoOne => owner'[x] = owner[x]
    BY <1>0, <1>2, LockFacts
  <1>4. TypeInv'
    <2>1. owner' \in [Mutexes -> Threads \cup {"server", NoOne}]
      BY <1>0, Zenon DEF IInv, TypeInv, Lock
    <2>2. spc' \in ServerLabels /\ item' \in Nat \ {0} /\ idx' \in Nat
      BY <1>0, <1>1 DEF At, ServerLabels
    <2> QED
      BY <1>0, <2>1, <2>2, ServerTyped
  <1>5. ServerInv'
    <2>1. ASSUME NEW j \in 1..Len(Items), NEW i \in 0..(NumLocks[Items[j]] - 1), NEW k \in {"first", "second"},
                 ServerHolds(j, i, k)'
          PROVE  owner'[<<<<Items[j], i>>, k>>] = "server"
      <3>1. <<<<Items[j], i>>, k>> \in Mutexes
        BY PairFacts, Zenon
      <3>2. ServerHolds(j, i, k) \/ (j = item /\ i = idx /\ k = spc)
        BY <2>1, <1>0, <1>1, HoldsNow, HoldsNext DEF Setting, At
      <3>3. ServerHolds(j, i, k) => owner[<<<<Items[j], i>>, k>>] = "server"
        BY Zenon DEF IInv, ServerInv
      <3> QED
        BY <3>1, <3>2, <3>3, <1>3, Zenon DEF Setting, Item
    <2> QED
      BY <2>1, <1>0 DEF ServerInv, At
  <1>6. ReaderInv'
    BY <1>0, <1>3, ReadersKept DEF Setting
  <1> QED
    BY <1>0, <1>4, <1>5, <1>6, IndicesKept DEF IInv

\* The server moves on to the next mutex or writes.
LEMMA StepGot ==
  ASSUME Setting, IInv, wr_got
  PROVE  IInv'
  <1>0. UNCHANGED <<owner, taken, lock_idx, scan, pc>>
    BY DEF wr_got, Aside
  <1>1. item \in Nat \ {0} /\ idx \in Nat
    BY DEF IInv, TypeInv
  <1>2. CASE item > Len(Items)
    <2>0. spc = "first" /\ At("write", 1, 0)
      BY <1>1, <1>2 DEF ServerLabels, wr_got, IInv, ServerInv, Setting
    <2>1. TypeInv'
      BY <1>0, <2>0, OwnerType, ServerTyped DEF At, ServerLabels
    <2>2. \A j \in 1..Len(Items) : \A i \in 0..(NumLocks[Items[j]] - 1), k \in {"first", "second"} :
             ServerHolds(j, i, k)' => ServerHolds(j, i, k)
      BY <1>0, <1>1, <1>2, <2>0, HoldsNow, HoldsNext DEF At, Setting
    <2>3. ServerInv'
      BY <1>0, <1>1, <1>2, <2>0, <2>2 DEF At, IInv, ServerInv
    <2> QED
      BY <1>0, <2>1, <2>3, IndicesKept, ReadersKept DEF IInv
  <1>3. CASE item <= Len(Items) /\ spc = "first"
    <2>0. At("second", item, 0) /\ idx = NumLocks[Items[item]]
      BY <1>1, <1>3 DEF ServerLabels, wr_got, Item, Setting
    <2>1. TypeInv'
      BY <1>0, <1>1, <2>0, OwnerType, ServerTyped DEF At, ServerLabels
    <2>2. \A j \in 1..Len(Items) : \A i \in 0..(NumLocks[Items[j]] - 1), k \in {"first", "second"} :
             ServerHolds(j, i, k)' => ServerHolds(j, i, k)
      BY <1>0, <1>1, <1>3, <2>0, HoldsNow, HoldsNext DEF At, Setting
    <2>3. ServerInv'
      BY <1>0, <1>1, <1>3, <2>0, <2>2, Zenon DEF At, IInv, ServerInv
    <2> QED
      BY <1>0, <2>1, <2>3, IndicesKept, ReadersKept DEF IInv
  <1>4. CASE item <= Len(Items) /\ spc = "second"
    <2>0. At("first", item + 1, 0) /\ idx = NumLocks[Items[item]]
      BY <1>1, <1>4 DEF ServerLabels, wr_got, Item, Setting
    <2>1. TypeInv'
      BY <1>0, <1>1, <2>0, OwnerType, ServerTyped DEF At, ServerLabels
    <2>2. \A j \in 1..Len(Items) : \A i \in 0..(NumLocks[Items[j]] - 1), k \in {"first", "second"} :
             ServerHolds(j, i, k)' => ServerHolds(j, i, k)
      BY <1>0, <1>1, <1>4, <2>0, HoldsNow, HoldsNext DEF At, Setting
    <2>3. ServerInv'
      BY <1>0, <1>1, <1>4, <2>0, <2>2, Zenon DEF At, IInv, ServerInv
    <2> QED
      BY <1>0, <2>1, <2>3, IndicesKept, ReadersKept DEF IInv
  <1> QED
    BY <1>1, <1>2, <1>3, <1>4 DEF wr_got, Setting

\* The server releases a mutex.
LEMMA StepRel ==
  ASSUME Setting, IInv, wr_rel
  PROVE  IInv'
  <1>0. UNCHANGED <<taken, lock_idx, scan, pc>>
    BY DEF wr_rel, Aside
  <1>1. item \in Nat \ {0} /\ idx \in Nat
    BY DEF IInv, TypeInv
  \* Giving back the mutex k of the pair the loop has come to.
  <1>2. ASSUME NEW k \in {"first", "second"}, item <= Len(Items), idx < NumLocks[Items[item]],
               ServerHolds(item, idx, k), Unlock(<<<<Items[item], idx>>, k>>)
        PROVE  /\ owner' \in [Mutexes -> Threads \cup {"server", NoOne}] /\ ReaderInv'
               /\ \A j \in 1..Len(Items) : \A i \in 0..(NumLocks[Items[j]] - 1), l \in {"first", "second"} :
                     ServerHolds(j, i, l) /\ ~(j = item /\ i = idx /\ k = l)
                     => owner'[<<<<Items[j], i>>, l>>] = "server"
    <2> DEFINE m == <<<<Items[item], idx>>, k>>
    <2>1. item \in 1..Len(Items) /\ idx \in 0..(NumLocks[Items[item]] - 1)
      BY <1>1, <1>2 DEF Setting
    <2>2. m \in Mutexes /\ owner[m] = "server"
      BY <2>1, <1>2, PairFacts, Zenon DEF IInv, ServerInv
    <2>3. \A x \in Mutexes : x # m => owner'[x] = owner[x]
      BY <2>2, <1>2, UnlockFacts
    <2>4. ReaderInv'
      BY <2>2, <2>3, <1>0, ReadersKept DEF Setting
    <2>5. ASSUME NEW j \in 1..Len(Items), NEW i \in 0..(NumLocks[Items[j]] - 1), NEW l \in {"first", "second"},
                 ServerHolds(j, i, l), ~(j = item /\ i = idx /\ k = l)
          PROVE  owner'[<<<<Items[j], i>>, l>>] = "server"
      <3>1. <<<<Items[j], i>>, l>> \in Mutexes /\ <<<<Items[j], i>>, l>> # m
        BY <2>1, <2>5, PairFacts, Zenon DEF Setting
      <3> QED
        BY <3>1, <2>3, <2>5, Zenon DEF IInv, ServerInv
    <2> QED
      BY <2>4, <2>5, <1>2, Zenon DEF IInv, TypeInv, Unlock
  <1>3. CASE spc = "write"
    <2>0. At("rel_first", 1, 0) /\ UNCHANGED owner
      BY <1>3 DEF ServerLabels, wr_rel
    <2>1. TypeInv'
      BY <1>0, <2>0, OwnerType, ServerTyped DEF At, ServerLabels
    <2>2. ServerInv'
      BY <1>3, <2>0, HoldsNow, HoldsNext DEF At, IInv, ServerInv
    <2> QED
      BY <1>0, <2>0, <2>1, <2>2, IndicesKept, ReadersKept DEF IInv
  <1>4. CASE spc = "rel_first" /\ item <= Len(Items) /\ idx < NumLocks[Item]
    <2>0. /\ At("rel_second", item, idx)
          /\ Unlock(<<<<Items[item], idx>>, "first">>)
      BY <1>1, <1>4 DEF ServerLabels, wr_rel, Item, Setting
    <2>1. ServerHolds(item, idx, "first")
      BY <1>1, <1>4, HoldsNow, HoldsNext DEF At
    <2>2. TypeInv'
      BY <1>0, <1>1, <1>2, <1>4, <2>0, <2>1, OwnerType, ServerTyped DEF At, ServerLabels, Item
    <2>3. \A j, i \in Int, l \in {"first", "second"} :
             ServerHolds(j, i, l)' => ServerHolds(j, i, l) /\ ~(j = item /\ i = idx /\ l = "first")
      BY <1>1, <1>4, <2>0, HoldsNow, HoldsNext DEF At
    <2>4. ServerInv'
      <3>1. ASSUME NEW j \in 1..Len(Items), NEW i \in 0..(NumLocks[Items[j]] - 1), NEW l \in {"first", "second"},
                   ServerHolds(j, i, l)'
            PROVE  owner'[<<<<Items[j], i>>, l>>] = "server"
        <4>1. ServerHolds(j, i, l) /\ ~(j = item /\ i = idx /\ l = "first")
          BY <2>3, <3>1
        <4>2. item <= Len(Items) /\ idx < NumLocks[Items[item]]
          BY <1>4, Zenon DEF Item
        <4> QED
          BY <4>1, <4>2, <1>2, <2>0, <2>1, Zenon
      <3>2. spc' # "second" /\ (spc' = "rel_second" => item' <= Len(Items) /\ idx' < NumLocks[Items[item']])
        BY <1>4, <2>0 DEF At, Item
      <3> QED
        BY <3>1, <3>2, Zenon DEF ServerInv
    <2> QED
      BY <1>0, <1>2, <1>4, <2>0, <2>1, <2>2, <2>4, IndicesKept DEF IInv, Item
  <1>5. CASE spc = "rel_second"
    <2>0. /\ At("rel_first", item, idx + 1)
          /\ Unlock(<<<<Items[item], idx>>, "second">>)
          /\ item <= Len(Items) /\ idx < NumLocks[Items[item]]
      BY <1>5 DEF ServerLabels, wr_rel, Item, IInv, ServerInv
    <2>1. ServerHolds(item, idx, "second")
      BY <1>1, <1>5, HoldsNow, HoldsNext DEF At
    <2>2. TypeInv'
      BY <1>0, <1>1, <1>2, <2>0, <2>1, OwnerType, ServerTyped DEF At, ServerLabels
    <2>3. \A j, i \in Int, l \in {"first", "second"} :
             ServerHolds(j, i, l)' => ServerHolds(j, i, l) /\ ~(j = item /\ i = idx /\ l = "second")
      BY <1>1, <1>5, <2>0, HoldsNow, HoldsNext DEF At
    <2>4. ServerInv'
      <3>1. ASSUME NEW j \in 1..Len(Items), NEW i \in 0..(NumLocks[Items[j]] - 1), NEW l \in {"first", "second"},
                   ServerHolds(j, i, l)'
            PROVE  owner'[<<<<Items[j], i>>, l>>] = "server"
        <4>1. ServerHolds(j, i, l) /\ ~(j = item /\ i = idx /\ l = "second")
          BY <2>3, <3>1
        <4>2. item <= Len(Items) /\ idx < NumLocks[Items[item]]
          BY <2>0, Zenon
        <4> QED
          BY <4>1, <4>2, <1>2, <2>0, <2>1, Zenon
      <3>2. spc' # "second" /\ (spc' = "rel_second" => item' <= Len(Items) /\ idx' < NumLocks[Items[item']])
        BY <2>0 DEF At, Item
      <3> QED
        BY <3>1, <3>2, Zenon DEF ServerInv
    <2> QED
      BY <1>0, <1>2, <2>0, <2>1, <2>2, <2>4, IndicesKept DEF IInv
  <1>6. CASE spc = "rel_first" /\ (item <= Len(Items) => idx = NumLocks[Item])
    <2>0. /\ UNCHANGED owner
          /\ IF item > Len(Items) THEN At("idle", 1, 0) ELSE At("rel_first", item + 1, 0)
      BY <1>1, <1>6 DEF wr_rel, Item, Setting, ServerLabels
    <2>1. TypeInv'
      BY <1>0, <1>1, <2>0, OwnerType, ServerTyped DEF At, ServerLabels
    <2>2. \A j \in 1..Len(Items) : \A i \in 0..(NumLocks[Items[j]] - 1), k \in {"first", "second"} :
             ServerHolds(j, i, k)' => ServerHolds(j, i, k)
      BY <1>1, <1>6, <2>0, HoldsNow, HoldsNext DEF At, Setting, Item
    <2>3. ServerInv'
      BY <1>1, <1>6, <2>0, <2>2, Zenon DEF At, IInv, ServerInv
    <2> QED
      BY <1>0, <2>0, <2>1, <2>3, IndicesKept, ReadersKept DEF IInv
  <1> QED
    BY <1>3, <1>4, <1>5, <1>6 DEF wr_rel

----------------------------------------------------------------------------

\* Every step keeps the invariant.
LEMMA NextIInv == ASSUME Setting, IInv, [Next]_vars PROVE IInv'
  <1>1. CASE Next
    BY <1>1, StepStart, StepGet, StepGot, StepRel, StepLockInit, StepFetch, StepReader DEF Next
  <1>2. CASE UNCHANGED vars
    <2>1. UNCHANGED <<owner, taken, lock_idx, scan, pc>> /\ UNCHANGED server
      BY <1>2 DEF vars
    <2>2. TypeInv'
      BY <2>1 DEF IInv, TypeInv, server
    <2> QED
      BY <2>1, <2>2, IndicesKept, ReadersKept, ServerKept DEF IInv
  <1> QED
    BY <1>1, <1>2

\* The places of the threads and of the server in the locking functions tell who
\* holds which mutex (_dstore_fetch, pmix_ds21_lock_wr_get, pmix_ds21_lock_wr_rel).
THEOREM LockInvariant == ASSUME Setting PROVE Spec => []IInv
  <1>1. Init => IInv
    BY InitIInv
  <1>2. IInv /\ [Next]_vars => IInv'
    BY NextIInv
  <1> QED
    BY <1>1, <1>2, PTL DEF Spec

\* The compare-and-exchange of pmix_gds_ds21_lock_init never gives two processes the
\* same pair of mutexes, and refuses one only when all the pairs are taken.
THEOREM LockPairs == ASSUME Setting PROVE Spec => []PairsDistinct
  <1>1. IInv => PairsDistinct
    <2> SUFFICES ASSUME IInv PROVE PairsDistinct
      OBVIOUS
    <2>1. ASSUME NEW c \in Procs, lock_idx[c] = -2, NEW p \in Pairs(NspaceOf[c]) PROVE taken[p]
      <3>1. scan[c] = NumLocks[NspaceOf[c]] /\ \A i \in 0..(scan[c] - 1) : taken[<<NspaceOf[c], i>>]
        <4>1. lock_idx[c] # -1 /\ lock_idx[c] \notin 0..(NumLocks[NspaceOf[c]] - 1)
          BY <2>1
        <4> QED
          BY <4>1, Zenon DEF IInv, IndexInv
      <3> QED
        BY <2>1, <3>1 DEF Pairs
    <2> QED
      BY <2>1 DEF PairsDistinct, IInv, Distinct
  <1> QED
    BY <1>1, LockInvariant, PTL

\* The mutexes of gds/ds21 implement the lock the data store asks for: a step of a
\* thread or of the server takes or gives back the abstract lock or leaves it alone,
\* so no thread reads the segments while the server writes them.
THEOREM LockRefines == ASSUME Setting PROVE Spec => IsRWLock
  <1>1. Init => Abstract!Init
    BY DEF Init, Abstract!Init, readersNow
  <1>2. IInv /\ [Next]_vars => [Abstract!Next]_<<readersNow, spc = "write">>
    <2> SUFFICES ASSUME IInv, [Next]_vars
                 PROVE  Abstract!Next \/ (readersNow' = readersNow /\ (spc = "write")' = (spc = "write"))
      OBVIOUS
    <2> DEFINE R == {"signal", "sync", "read"}
    <2>0. /\ readersNow = {t \in Threads : pc[t] \in R}
          /\ readersNow' = {t \in Threads : pc'[t] \in R}
      BY DEF readersNow
    <2>1. CASE UNCHANGED <<pc, spc>>
      BY <2>1, <2>0
    <2>2. ASSUME NEW t \in Threads, RdSecond(t) PROVE Abstract!rd_get(t)
      <3>0. /\ pc[t] = "second" /\ Lock(Mine(t, "second"), t) /\ pc' = [pc EXCEPT ![t] = "signal"]
            /\ spc' = spc
        BY <2>2 DEF RdSecond, Goto, Rest, server
      <3>1. spc # "write"
        <4>1. PICK j \in 1..Len(Items) : NspaceOf[ProcOf[t]] = Items[j]
          BY PairFacts DEF Setting
        <4>2. lock_idx[ProcOf[t]] \in 0..(NumLocks[Items[j]] - 1)
          BY <3>0, <4>1, MineFacts DEF IInv, ReaderInv
        <4>3. spc = "write" => owner[<<<<Items[j], lock_idx[ProcOf[t]]>>, "second">>] = "server"
          BY <4>2, HoldsNow, Zenon DEF IInv, ServerInv
        <4> QED
          BY <3>0, <4>1, <4>3 DEF Lock, Mine, Setting
      <3>2. t \notin readersNow /\ readersNow' = readersNow \cup {t}
        BY <3>0, <2>0 DEF IInv, TypeInv
      <3> QED
        BY <3>0, <3>1, <3>2 DEF Abstract!rd_get
    <2>3. ASSUME NEW t \in Threads, rd_rel(t) PROVE Abstract!rd_rel(t)
      <3>0. pc[t] = "read" /\ pc' = [pc EXCEPT ![t] = "idle"] /\ spc' = spc
        BY <2>3 DEF rd_rel, Goto, Rest, server
      <3>1. t \in readersNow /\ readersNow' = readersNow \ {t}
        BY <3>0, <2>0 DEF IInv, TypeInv
      <3> QED
        BY <3>0, <3>1 DEF Abstract!rd_rel
    <2>4. ASSUME NEW t \in Threads, _dstore_fetch(t) \/ LockCtx(t) \/ _get_univ_size(t) \/ RdFirst(t) \/ RdSignal(t) \/ UnlockCtx(t)
          PROVE  readersNow' = readersNow /\ spc' = spc
      <3>0. PICK l : pc' = [pc EXCEPT ![t] = l] /\ (l \in R <=> pc[t] \in R) /\ spc' = spc
        BY <2>4 DEF _dstore_fetch, LockCtx, _get_univ_size, RdFirst, RdSignal, UnlockCtx, Goto, Rest, server
      <3> QED
        BY <3>0, <2>0 DEF IInv, TypeInv
    <2>5. CASE wr_got /\ spc' = "write"
      <3>0. pc' = pc /\ spc = "first" /\ item > Len(Items)
        BY <2>5 DEF wr_got, At, Aside, IInv, TypeInv, ServerInv, Setting
      <3>1. ASSUME NEW t \in Threads, pc[t] \in R PROVE FALSE
        <4>1. PICK j \in 1..Len(Items) : NspaceOf[ProcOf[t]] = Items[j]
          BY PairFacts DEF Setting
        <4>2. lock_idx[ProcOf[t]] \in 0..(NumLocks[Items[j]] - 1) /\ owner[Mine(t, "second")] = t
          BY <3>1, <4>1, MineFacts DEF IInv, ReaderInv
        <4>3. owner[<<<<Items[j], lock_idx[ProcOf[t]]>>, "second">>] = "server"
          <5>1. ServerHolds(j, lock_idx[ProcOf[t]], "second")
            BY <3>0, HoldsNow DEF IInv, TypeInv, Setting
          <5> QED
            BY <5>1, <4>2, Zenon DEF IInv, ServerInv
        <4> QED
          BY <4>1, <4>2, <4>3 DEF Mine, Setting
      <3> QED
        BY <3>0, <3>1, <2>0, <2>5 DEF Abstract!Next, Abstract!wr_get
    <2>6. CASE wr_rel /\ spc = "write"
      <3>0. spc' # "write" /\ pc' = pc
        BY <2>6 DEF wr_rel, At, Aside
      <3> QED
        BY <3>0, <2>0, <2>6 DEF Abstract!Next, Abstract!wr_rel
    <2>7. CASE wr_start \/ wr_get \/ (wr_got /\ spc' # "write") \/ (wr_rel /\ spc # "write")
      <3>0. pc' = pc /\ (spc' = "write") = (spc = "write")
        BY <2>7 DEF wr_start, wr_get, wr_got, wr_rel, At, Aside
      <3> QED
        BY <3>0, <2>0
    <2>8. CASE \E c \in Procs : lock_init(c)
      BY <2>8, <2>1 DEF lock_init, server
    <2>9. CASE UNCHANGED vars
      BY <2>9, <2>1 DEF vars, server
    <2> QED
      BY <2>2, <2>3, <2>4, <2>5, <2>6, <2>7, <2>8, <2>9 DEF Next, Reader, Abstract!Next
  <1> QED
    BY <1>1, <1>2, LockInvariant, PTL DEF Spec, IsRWLock, Abstract!Spec

-----------------------------------------------------------------------------
(* Buffers: within their memory, and queues *)

\* InBounds is inductive together with the types.
BufferInv == TypeOK /\ InBounds

\* Rounding up to a multiple of threshold_size leaves room for n bytes
\* (the large branch of buffer_extend).
LEMMA RoundedEnough ==
  ASSUME NEW n \in Nat
  PROVE  Rounded(n) \in Nat /\ Rounded(n) >= n
<1> DEFINE t == threshold_size
           q == (n + t - 1) \div t
<1>1. t \in Nat /\ t > 0
  BY SizesPositive
<1>2. n + t - 1 \in Nat /\ n + t - 1 = n + (t - 1)
  BY <1>1
<1>3. q \in Int /\ q * t <= n + t - 1 /\ n + t - 1 < (q + 1) * t /\ q >= 0
  BY <1>1, <1>2, Z3
<1>4. (q + 1) * t = q * t + t
  BY <1>1, <1>3, Z3
<1>5. q * t \in Nat
  BY <1>1, <1>3, Z3
<1>6. q * t >= n
  <2> HIDE DEF q
  <2> QED BY <1>1, <1>3, <1>4, <1>5
<1> QED
  BY <1>5, <1>6 DEF Rounded

\* The bytes of a buffer after s was packed into it.
LEMMA Concatenated ==
  ASSUME NEW r \in Seq(Bytes), NEW s \in Seq(Bytes)
  PROVE  r \o s \in Seq(Bytes) /\ Len(r \o s) = Len(r) + Len(s)
BY ConcatProperties

\* Filling a buffer whose memory is large enough keeps every buffer in bounds.
LEMMA FillSafe ==
  ASSUME TypeOK, \A b \in Buffers : buf[b].read <= used(b) /\ used(b) <= buf[b].allocated,
         NEW b \in Buffers, NEW t \in Types \cup {"undef"}, NEW s \in Seq(Bytes),
         NEW m \in Nat, m >= Required(b, s), Fill(b, t, s, m)
  PROVE  /\ buf' \in [Buffers -> [type : Types \cup {"undef"}, allocated : Nat,
                                  bytes : Seq(Bytes), read : Nat]]
         /\ \A c \in Buffers : buf'[c].read <= Len(buf'[c].bytes)
                               /\ Len(buf'[c].bytes) <= buf'[c].allocated
<1>1. buf[b].bytes \in Seq(Bytes) /\ buf[b].read \in Nat
  BY DEF TypeOK
<1>2. /\ buf[b].bytes \o s \in Seq(Bytes)
      /\ Len(buf[b].bytes \o s) = Len(buf[b].bytes) + Len(s)
  BY <1>1, Concatenated
<1>3. Len(buf[b].bytes) \in Nat /\ Len(s) \in Nat
  BY <1>1, LenProperties
<1>4. buf' = [buf EXCEPT ![b] = [type |-> t, allocated |-> m, bytes |-> buf[b].bytes \o s,
                                 read |-> buf[b].read]]
  BY DEF Fill, TypeOK
<1>5. buf' \in [Buffers -> [type : Types \cup {"undef"}, allocated : Nat,
                            bytes : Seq(Bytes), read : Nat]]
  BY <1>1, <1>2, <1>4 DEF TypeOK
<1>6. ASSUME NEW c \in Buffers
      PROVE  buf'[c].read <= Len(buf'[c].bytes) /\ Len(buf'[c].bytes) <= buf'[c].allocated
  <2>1. CASE c = b
    <3>1. buf'[b].read = buf[b].read /\ buf'[b].bytes = buf[b].bytes \o s /\ buf'[b].allocated = m
      BY <1>4 DEF TypeOK
    <3>2. buf[b].read <= Len(buf[b].bytes)
      BY DEF used
    <3> QED BY <2>1, <3>1, <3>2, <1>1, <1>2, <1>3 DEF Required, used
  <2>2. CASE c # b
    BY <2>2, <1>4 DEF TypeOK, used
  <2> QED BY <2>1, <2>2
<1> QED BY <1>5, <1>6

\* What buffer_extend does to a buffer keeps the invariant, whichever branch it takes.
LEMMA ExtendSafe ==
  ASSUME BufferInv, ~work.on, NEW b \in Buffers, NEW t \in Types \cup {"undef"},
         NEW s \in Seq(Bytes), Extend(b, t, s)
  PROVE  BufferInv'
<1>1. /\ \A c \in Buffers : buf[c].read <= used(c) /\ used(c) <= buf[c].allocated
      /\ buf[b] \in [type : Types \cup {"undef"}, allocated : Nat, bytes : Seq(Bytes), read : Nat]
  BY DEF BufferInv, InBounds, TypeOK
<1>2. Len(s) \in Nat /\ used(b) \in Nat /\ buf[b].allocated \in Nat
  BY <1>1, LenProperties DEF used
<1>3. ASSUME NEW m \in Nat, m >= Required(b, s), Fill(b, t, s, m), work' = work
      PROVE  BufferInv'
  <2>1. /\ buf' \in [Buffers -> [type : Types \cup {"undef"}, allocated : Nat,
                                  bytes : Seq(Bytes), read : Nat]]
        /\ \A c \in Buffers : buf'[c].read <= Len(buf'[c].bytes)
                               /\ Len(buf'[c].bytes) <= buf'[c].allocated
    <3> QED BY <1>1, <1>3, FillSafe, Zenon DEF BufferInv
  <2>2. TypeOK'
    BY <1>3, <2>1, Zenon DEF BufferInv, TypeOK, Idle
  <2>3. InBounds'
    BY <1>3, <2>1 DEF InBounds, used
  <2> QED BY <2>2, <2>3 DEF BufferInv
<1>4. CASE buf[b].allocated - used(b) >= Len(s) /\ Fill(b, t, s, buf[b].allocated) /\ work' = work
  <2>1. buf[b].allocated >= Required(b, s)
    BY <1>2, <1>4 DEF Required
  <2> QED BY <1>2, <1>3, <1>4, <2>1
<1>5. CASE /\ buf[b].allocated - used(b) < Len(s) /\ Required(b, s) >= threshold_size
           /\ Fill(b, t, s, Rounded(Required(b, s))) /\ work' = work
  <2>1. Required(b, s) \in Nat
    BY <1>2 DEF Required
  <2>2. Rounded(Required(b, s)) \in Nat /\ Rounded(Required(b, s)) >= Required(b, s)
    BY <2>1, RoundedEnough
  <2> QED BY <1>3, <1>5, <2>2
<1>6. CASE /\ UNCHANGED buf
           /\ work' = [on |-> TRUE, b |-> b, type |-> t, s |-> s,
                       to_alloc |-> IF buf[b].allocated = 0 THEN initial_size ELSE buf[b].allocated]
  <2>1. (IF buf[b].allocated = 0 THEN initial_size ELSE buf[b].allocated) \in Nat \ {0}
    BY <1>2, SizesPositive
  <2>2. TypeOK'
    BY <1>6, <2>1 DEF BufferInv, TypeOK
  <2>3. InBounds'
    <3>1. \A c \in Buffers : buf'[c].read <= used(c)' /\ used(c)' <= buf'[c].allocated
      BY <1>1, <1>6 DEF used
    <3>2. work'.b = b /\ buf'[b].allocated <= work'.to_alloc
      BY <1>2, <1>6, SizesPositive
    <3>3. used(work.b)' <= buf'[b].allocated
      BY <3>1, <3>2 DEF used
    <3> QED BY <3>1, <3>2, <3>3 DEF InBounds
  <2> QED BY <2>2, <2>3 DEF BufferInv
<1> QED BY <1>4, <1>5, <1>6 DEF Extend

\* Types and bounds hold throughout: packing, copying and loading never write,
\* and unpacking never reads, outside the memory of a buffer (pack_ptr,
\* unpack_ptr, bytes_used and bytes_allocated after every call, and inside the
\* loop of buffer_extend).
THEOREM BuffersInBounds == BufferSpec => [](TypeOK /\ InBounds)
<1>1. BufferInit => BufferInv
  <2> SUFFICES ASSUME BufferInit PROVE BufferInv
    OBVIOUS
  <2>1. <<>> \in Seq(Bytes) /\ Len(<<>>) = 0
    BY EmptySeq
  <2>2. TypeOK
    BY <2>1 DEF BufferInit, TypeOK, New, Idle
  <2>3. InBounds
    BY <2>1 DEF BufferInit, InBounds, used, New, Idle
  <2> QED BY <2>2, <2>3 DEF BufferInv
<1>2. BufferInv /\ [BufferNext]_buffervars => BufferInv'
  <2> SUFFICES ASSUME BufferInv, [BufferNext]_buffervars PROVE BufferInv'
    OBVIOUS
  <2>1. CASE UNCHANGED buffervars
    BY <2>1, Zenon DEF BufferInv, TypeOK, InBounds, used, buffervars, Idle
  <2>2. ASSUME NEW e, Fails(e) PROVE BufferInv'
    BY <2>2, Zenon DEF Fails, BufferInv, TypeOK, InBounds, used, Idle
  <2>3. ASSUME NEW b \in Buffers, NEW t \in Types, NEW s \in Payloads, Pack(b, t, s) PROVE BufferInv'
    BY <2>2, <2>3, ExtendSafe, PayloadsBytes DEF Pack
  <2>4. ASSUME NEW b \in Buffers, NEW t \in Types, NEW s \in Payloads, Load(b, t, s) PROVE BufferInv'
    <3>1. s \in Seq(Bytes) /\ Len(s) \in Nat
      BY PayloadsBytes, LenProperties
    <3>2. TypeOK'
      BY <2>4, <3>1, Zenon DEF Load, BufferInv, TypeOK, Idle
    <3>3. InBounds'
      <4>1. ~work'.on
        BY <2>4 DEF Load
      <4>2. ASSUME NEW c \in Buffers
            PROVE  buf'[c].read <= used(c)' /\ used(c)' <= buf'[c].allocated
        BY <2>4, <3>1 DEF Load, BufferInv, InBounds, TypeOK, used
      <4> QED BY <4>1, <4>2 DEF InBounds
    <3> QED BY <3>2, <3>3 DEF BufferInv
  <2>5. ASSUME NEW b \in Buffers, NEW t \in Types, NEW n \in 0..MaxUsed, Unpack(b, t, n) PROVE BufferInv'
    <3>1. CASE /\ ~(used(b) - buf[b].read < n)
               /\ buf' = [buf EXCEPT ![b].read = @ + n] /\ UNCHANGED work /\ ~work.on
      <4>1. buf[b].read \in Nat /\ used(b) \in Nat /\ n \in Nat
        BY BoundNatural, LenProperties DEF BufferInv, TypeOK, used
      <4>2. buf' = [buf EXCEPT ![b] = [buf[b] EXCEPT !.read = buf[b].read + n]]
        BY <3>1 DEF BufferInv, TypeOK
      <4>3. TypeOK'
        <5>1. [buf[b] EXCEPT !.read = buf[b].read + n]
                \in [type : Types \cup {"undef"}, allocated : Nat, bytes : Seq(Bytes), read : Nat]
          <6>1. buf[b] \in [type : Types \cup {"undef"}, allocated : Nat, bytes : Seq(Bytes),
                            read : Nat]
            BY DEF BufferInv, TypeOK
          <6>2. buf[b].read + n \in Nat
            BY <4>1
          <6> QED BY <6>1, <6>2
        <5> QED BY <3>1, <4>2, <5>1, Zenon DEF BufferInv, TypeOK, Idle
      <4>4. ASSUME NEW c \in Buffers
            PROVE  buf'[c].read <= used(c)' /\ used(c)' <= buf'[c].allocated
        <5>1. CASE c = b
          <6>1. /\ buf'[b].read = buf[b].read + n /\ buf'[b].bytes = buf[b].bytes
                /\ buf'[b].allocated = buf[b].allocated
            BY <4>2 DEF BufferInv, TypeOK
          <6> QED BY <3>1, <4>1, <5>1, <6>1 DEF BufferInv, InBounds, used
        <5>2. CASE c # b
          BY <4>2, <5>2 DEF BufferInv, InBounds, TypeOK, used
        <5> QED BY <5>1, <5>2
      <4> QED BY <3>1, <4>3, <4>4 DEF BufferInv, InBounds
    <3> QED BY <2>2, <2>5, <3>1 DEF Unpack
  <2>6. ASSUME NEW d \in Buffers, NEW s \in Buffers, NEW t \in Types, CopyPayload(d, s, t)
        PROVE  BufferInv'
    <3> DEFINE left == SubSeq(buf[s].bytes, buf[s].read + 1, used(s))
    <3>1. /\ buf[s].bytes \in Seq(Bytes) /\ buf[s].read \in Nat
          /\ used(s) \in Nat /\ used(s) = Len(buf[s].bytes)
          /\ buf[s].type \in Types \cup {"undef"}
      BY LenProperties DEF BufferInv, TypeOK, used
    <3>2. left \in Seq(Bytes)
      BY <3>1, SubSeqProperties
    <3>3. CASE Extend(d, buf[s].type, left) /\ ~work.on
      BY <3>1, <3>2, <3>3, ExtendSafe, Zenon
    <3>4. CASE buf' = [buf EXCEPT ![d].type = buf[s].type] /\ UNCHANGED work /\ ~work.on
      <4>1. buf' = [buf EXCEPT ![d] = [buf[d] EXCEPT !.type = buf[s].type]]
        BY <3>4 DEF BufferInv, TypeOK
      <4>2. [buf[d] EXCEPT !.type = buf[s].type]
              \in [type : Types \cup {"undef"}, allocated : Nat, bytes : Seq(Bytes), read : Nat]
        <5>1. \A c \in Buffers :
                buf[c] \in [type : Types \cup {"undef"}, allocated : Nat, bytes : Seq(Bytes), read : Nat]
          BY Zenon DEF BufferInv, TypeOK
        <5> QED BY <5>1, SMT
      <4>3. TypeOK'
        BY <3>4, <4>1, <4>2, Zenon DEF BufferInv, TypeOK, Idle
      <4>4. \A c \in Buffers : /\ buf'[c].read = buf[c].read /\ buf'[c].bytes = buf[c].bytes
                               /\ buf'[c].allocated = buf[c].allocated
        BY <4>1 DEF BufferInv, TypeOK
      <4>5. InBounds'
        BY <3>4, <4>4 DEF BufferInv, InBounds, used
      <4> QED BY <4>3, <4>5 DEF BufferInv
    <3> QED BY <2>2, <2>6, <3>3, <3>4 DEF CopyPayload
  <2>7. ASSUME NEW b \in Buffers, Unload(b) PROVE BufferInv'
    <3>1. <<>> \in Seq(Bytes) /\ Len(<<>>) = 0
      BY EmptySeq
    <3>2. [New EXCEPT !.type = buf[b].type]
            = [type |-> buf[b].type, allocated |-> 0, bytes |-> <<>>, read |-> 0]
      BY DEF New
    <3>3. TypeOK'
      BY <2>7, <3>1, <3>2, Zenon DEF Unload, BufferInv, TypeOK, Idle
    <3>4. InBounds'
      BY <2>7, <3>1, <3>2 DEF Unload, BufferInv, TypeOK, InBounds, used
    <3> QED BY <3>3, <3>4 DEF BufferInv
  <2>8. CASE Double
    <3>1. work \in [on : {TRUE}, b : Buffers, type : Types \cup {"undef"}, s : Seq(Bytes),
                    to_alloc : Nat \ {0}]
      <4>1. work.on /\ ~Idle.on
        BY <2>8 DEF Double, Idle
      <4> QED BY <4>1, Zenon DEF BufferInv, TypeOK
    <3>2. /\ work' \in [on : {TRUE}, b : Buffers, type : Types \cup {"undef"}, s : Seq(Bytes),
                         to_alloc : Nat \ {0}]
          /\ work'.b = work.b /\ work'.to_alloc = 2 * work.to_alloc
      <4>1. work' = [work EXCEPT !.to_alloc = 2 * work.to_alloc]
        BY <2>8, <3>1 DEF Double
      <4>2. 2 * work.to_alloc \in Nat \ {0}
        BY <3>1
      <4> QED BY <3>1, <4>1, <4>2, Zenon
    <3>3. work.to_alloc <= work'.to_alloc /\ buf[work.b].allocated \in Nat
      BY <3>1, <3>2 DEF BufferInv, TypeOK
    <3>4. InBounds'
      BY <2>8, <3>1, <3>2, <3>3 DEF Double, BufferInv, InBounds, used
    <3> QED BY <2>8, <3>2, <3>4, Zenon DEF Double, BufferInv, TypeOK
  <2>9. CASE Grow
    <3>1. work \in [on : {TRUE}, b : Buffers, type : Types \cup {"undef"}, s : Seq(Bytes),
                    to_alloc : Nat \ {0}]
      <4>1. work.on /\ ~Idle.on
        BY <2>9 DEF Grow, Idle
      <4> QED BY <4>1, Zenon DEF BufferInv, TypeOK
    <3>2. /\ buf' \in [Buffers -> [type : Types \cup {"undef"}, allocated : Nat,
                                    bytes : Seq(Bytes), read : Nat]]
          /\ \A c \in Buffers : buf'[c].read <= Len(buf'[c].bytes)
                                 /\ Len(buf'[c].bytes) <= buf'[c].allocated
      BY <2>9, <3>1, FillSafe DEF Grow, BufferInv, InBounds
    <3> QED BY <2>9, <3>2 DEF Grow, Idle, BufferInv, TypeOK, InBounds, used
  <2> QED
    BY <2>1, <2>3, <2>4, <2>5, <2>6, <2>7, <2>8, <2>9 DEF BufferNext
<1> QED
  BY <1>1, <1>2, PTL DEF BufferSpec, BufferInv

-----------------------------------------------------------------------------
(* A buffer is a queue of bytes (BufferQueue): what unpack_ptr has not passed. *)

left(b) == SubSeq(buf[b].bytes, buf[b].read + 1, Len(buf[b].bytes))
Q == [b \in Buffers |-> [type |-> buf[b].type, left |-> left(b)]]

\* The call that buffer_extend works for is the last one, and its arguments are as
\* they were when it was made: nothing else touches the buffers meanwhile.
CallInv ==
  work.on =>
    /\ op.b = work.b
    /\ \/ op.name = "pack" /\ buf[work.b].type \in {"undef", work.type}
       \/ /\ op.name = "copy" /\ op.from \in Buffers \ {work.b}
          /\ work.type = buf[op.from].type /\ work.s = left(op.from)
          /\ left(work.b) = <<>> \/ buf[work.b].type \in {"undef", work.type}

\* What is packed comes after what was left, and what was left stays in front.
LEMMA LeftOfConcat ==
  ASSUME NEW x \in Seq(Bytes), NEW y \in Seq(Bytes), NEW r \in 0..Len(x)
  PROVE  SubSeq(x \o y, r + 1, Len(x \o y)) = SubSeq(x, r + 1, Len(x)) \o y
<1> DEFINE z == x \o y
           l == SubSeq(x, r + 1, Len(x))
           m == SubSeq(z, r + 1, Len(z))
           w == l \o y
<1>1. /\ z \in Seq(Bytes) /\ Len(z) = Len(x) + Len(y)
      /\ \A i \in 1..Len(x) + Len(y) : z[i] = IF i <= Len(x) THEN x[i] ELSE y[i - Len(x)]
  BY ConcatProperties
<1>2. Len(x) \in Nat /\ Len(y) \in Nat /\ r \in Nat /\ r <= Len(x)
  BY LenProperties
<1> HIDE DEF z
<1>3. /\ l \in Seq(Bytes) /\ Len(l) = Len(x) - r
      /\ \A i \in 1..(Len(x) - r) : l[i] = x[r + i]
  <2>1. \A i \in r + 1..Len(x) : x[i] \in Bytes
    BY <1>2, ElementOfSeq
  <2>2. /\ l \in Seq(Bytes) /\ Len(l) = IF r + 1 <= Len(x) THEN Len(x) - (r + 1) + 1 ELSE 0
        /\ \A i \in 1..(Len(x) - (r + 1) + 1) : l[i] = x[r + 1 + i - 1]
    BY <1>2, <2>1, SubSeqProperties
  <2> HIDE DEF l
  <2> QED BY <1>2, <2>2
<1>4. /\ m \in Seq(Bytes) /\ Len(m) = Len(x) + Len(y) - r
      /\ \A i \in 1..(Len(x) + Len(y) - r) : m[i] = z[r + i]
  <2>1. \A i \in r + 1..Len(z) : z[i] \in Bytes
    BY <1>1, <1>2, ElementOfSeq
  <2>2. /\ m \in Seq(Bytes) /\ Len(m) = IF r + 1 <= Len(z) THEN Len(z) - (r + 1) + 1 ELSE 0
        /\ \A i \in 1..(Len(z) - (r + 1) + 1) : m[i] = z[r + 1 + i - 1]
    BY <1>1, <1>2, <2>1, SubSeqProperties
  <2> HIDE DEF m
  <2>3. Len(m) = Len(x) + Len(y) - r /\ Len(z) - (r + 1) + 1 = Len(x) + Len(y) - r
    BY <1>1, <1>2, <2>2
  <2>4. ASSUME NEW i \in 1..(Len(x) + Len(y) - r) PROVE m[i] = z[r + i]
    <3>1. m[i] = z[r + 1 + i - 1]
      BY <2>2, <2>3
    <3>2. r + 1 + i - 1 = r + i
      BY <1>2
    <3> QED BY <3>1, <3>2
  <2> QED BY <2>2, <2>3, <2>4, Zenon
<1> HIDE DEF l, m
<1>5. /\ w \in Seq(Bytes) /\ Len(w) = Len(l) + Len(y)
      /\ \A i \in 1..Len(l) + Len(y) : w[i] = IF i <= Len(l) THEN l[i] ELSE y[i - Len(l)]
  BY <1>3, ConcatProperties, Zenon
<1> HIDE DEF w
<1>6. ASSUME NEW i \in 1..Len(m) PROVE m[i] = w[i]
  <2>1. m[i] = z[r + i] /\ i \in Nat /\ r + i \in 1..Len(x) + Len(y)
    BY <1>2, <1>4
  <2>2. z[r + i] = IF r + i <= Len(x) THEN x[r + i] ELSE y[r + i - Len(x)]
    BY <2>1, <1>1
  <2>3. i \in 1..Len(l) + Len(y)
    BY <1>2, <1>3, <1>4
  <2>4. w[i] = IF i <= Len(l) THEN l[i] ELSE y[i - Len(l)]
    BY <2>3, <1>5
  <2>5. CASE r + i <= Len(x)
    BY <2>1, <2>2, <2>4, <2>5, <1>2, <1>3
  <2>6. CASE r + i > Len(x)
    <3>1. i - Len(l) = r + i - Len(x) /\ ~(i <= Len(l)) /\ ~(r + i <= Len(x))
      BY <2>1, <2>6, <1>2, <1>3
    <3> QED BY <3>1, <2>1, <2>2, <2>4
  <2> QED BY <2>1, <2>5, <2>6, <1>2
<1>7. Len(m) = Len(w)
  BY <1>2, <1>3, <1>4, <1>5
<1>8. m = w
  BY <1>4, <1>5, <1>6, <1>7, SeqEqual, Zenon
<1> QED
  BY <1>8, Zenon DEF m, w, l, z

\* The bytes in front of an appended sequence are the old ones.
LEMMA PrefixOfConcat ==
  ASSUME NEW x \in Seq(Bytes), NEW y \in Seq(Bytes)
  PROVE  SubSeq(x \o y, 1, Len(x)) = x
<1>1. /\ x \o y \in Seq(Bytes) /\ Len(x \o y) = Len(x) + Len(y)
      /\ \A i \in 1..Len(x) + Len(y) : (x \o y)[i] = IF i <= Len(x) THEN x[i] ELSE y[i - Len(x)]
      /\ Len(x) \in Nat /\ Len(y) \in Nat
  BY ConcatProperties, LenProperties
<1>2. \A i \in 1..Len(x) : (x \o y)[i] \in Bytes
  BY <1>1, ElementOfSeq
<1>3. /\ SubSeq(x \o y, 1, Len(x)) \in Seq(Bytes)
      /\ Len(SubSeq(x \o y, 1, Len(x))) = IF 1 <= Len(x) THEN Len(x) - 1 + 1 ELSE 0
      /\ \A i \in 1..(Len(x) - 1 + 1) : SubSeq(x \o y, 1, Len(x))[i] = (x \o y)[1 + i - 1]
  BY <1>1, <1>2, SubSeqProperties
<1> QED
  BY <1>1, <1>3, SeqEqual

\* What a buffer has left, and the queues, when one buffer changes.
LEMMA LeftSeq ==
  ASSUME BufferInv, NEW b \in Buffers
  PROVE  /\ left(b) \in Seq(Bytes) /\ buf[b].bytes \in Seq(Bytes) /\ Len(buf[b].bytes) \in Nat
         /\ buf[b].read \in 0..Len(buf[b].bytes)
<1>1. /\ buf[b].bytes \in Seq(Bytes) /\ buf[b].read \in Nat /\ buf[b].read <= Len(buf[b].bytes)
      /\ Len(buf[b].bytes) \in Nat
  BY LenProperties DEF BufferInv, TypeOK, InBounds, used
<1>2. \A i \in buf[b].read + 1..Len(buf[b].bytes) : buf[b].bytes[i] \in Bytes
  BY <1>1, ElementOfSeq
<1>3. left(b) \in Seq(Bytes)
  BY <1>1, <1>2, SubSeqProperties DEF left
<1> QED BY <1>1, <1>3

\* What the queue of a buffer is, before and after a step.
LEMMA QFacts ==
  /\ \A b \in Buffers : Q[b].type = buf[b].type /\ Q[b].left = left(b)
  /\ \A b \in Buffers : Q'[b].type = buf'[b].type /\ Q'[b].left = left(b)'
  BY DEF Q

\* A step that changes one buffer changes one queue.
LEMMA OneChanges ==
  ASSUME NEW b \in Buffers, \A c \in Buffers \ {b} : buf'[c] = buf[c]
  PROVE  Q' = [Q EXCEPT ![b] = Q'[b]]
  BY Zenon DEF Q, left

\* Filling appends to the queue of one buffer.
LEMMA FillQ ==
  ASSUME BufferInv, NEW b \in Buffers, NEW t, NEW s \in Seq(Bytes), NEW m, Fill(b, t, s, m)
  PROVE  /\ buf'[b].type = t /\ left(b)' = left(b) \o s
         /\ \A c \in Buffers \ {b} : buf'[c] = buf[c]
<1>1. buf' = [buf EXCEPT ![b] = [type |-> t, allocated |-> m, bytes |-> buf[b].bytes \o s,
                                 read |-> buf[b].read]]
  BY DEF Fill, BufferInv, TypeOK
<1>2. /\ buf'[b].type = t /\ buf'[b].bytes = buf[b].bytes \o s /\ buf'[b].read = buf[b].read
      /\ \A c \in Buffers \ {b} : buf'[c] = buf[c]
  BY <1>1 DEF BufferInv, TypeOK
<1>3. left(b)' = SubSeq(buf[b].bytes \o s, buf[b].read + 1, Len(buf[b].bytes \o s))
  BY <1>2 DEF left
<1>4. left(b)' = left(b) \o s
  BY <1>3, LeftSeq, LeftOfConcat, Zenon DEF left
<1> QED BY <1>2, <1>4

\* Bytes written for a pack, and for a copy, are a step of the queues.
LEMMA PutStep ==
  ASSUME BufferInv, NEW b \in Buffers, NEW t, NEW s \in Seq(Bytes), NEW m, Fill(b, t, s, m),
         buf[b].type \in {"undef", t}, op'.name = "pack"
  PROVE  Queue!Put(b)
<1>1. /\ Q'[b].type = t /\ Q[b].type \in {"undef", t} /\ Q[b].left = left(b)
      /\ Q'[b].left = left(b) \o s /\ Q' = [Q EXCEPT ![b] = Q'[b]]
  BY FillQ, QFacts, OneChanges, Zenon
<1>2. SubSeq(Q'[b].left, 1, Len(Q[b].left)) = Q[b].left
  BY <1>1, LeftSeq, PrefixOfConcat
<1> QED
  BY <1>1, <1>2, Zenon DEF Queue!Put, Queue!Becomes, Q, left

\* Filling with what another buffer holds copies its queue.
LEMMA CopyStep ==
  ASSUME BufferInv, NEW b \in Buffers, NEW c \in Buffers \ {b}, NEW m,
         Fill(b, buf[c].type, left(c), m), op'.name = "copy",
         left(b) = <<>> \/ buf[b].type \in {"undef", buf[c].type}
  PROVE  Queue!Copy(b, c)
<1>0. /\ buf'[b].type = buf[c].type /\ left(b)' = left(b) \o left(c)
      /\ \A d \in Buffers \ {b} : buf'[d] = buf[d]
  BY FillQ, LeftSeq, Zenon
<1>1. /\ Q'[b].type = Q[c].type /\ Q'[b].left = Q[b].left \o Q[c].left
      /\ Q' = [Q EXCEPT ![b] = Q'[b]]
      /\ Q[b].left = <<>> \/ Q[b].type \in {"undef", Q[c].type}
  BY <1>0, QFacts, OneChanges, Zenon
<1> QED
  BY <1>1, Zenon DEF Queue!Copy, Queue!Becomes, Q, left

\* Reading n bytes leaves the rest of what was left.
LEMMA DropMore ==
  ASSUME NEW x \in Seq(Bytes), NEW r \in Nat, NEW n \in Nat, r + n <= Len(x)
  PROVE  /\ n \in 0..Len(SubSeq(x, r + 1, Len(x)))
         /\ SubSeq(x, r + n + 1, Len(x)) = SubSeq(SubSeq(x, r + 1, Len(x)), n + 1, Len(SubSeq(x, r + 1, Len(x))))
<1> DEFINE l == SubSeq(x, r + 1, Len(x))
           m == SubSeq(x, r + n + 1, Len(x))
           w == SubSeq(l, n + 1, Len(l))
<1>1. Len(x) \in Nat /\ \A i \in 1..Len(x) : x[i] \in Bytes
  BY LenProperties, ElementOfSeq
<1>2. /\ l \in Seq(Bytes) /\ Len(l) = Len(x) - r
      /\ \A i \in 1..(Len(x) - r) : l[i] = x[r + i]
  <2>2. /\ l \in Seq(Bytes) /\ Len(l) = IF r + 1 <= Len(x) THEN Len(x) - (r + 1) + 1 ELSE 0
        /\ \A i \in 1..(Len(x) - (r + 1) + 1) : l[i] = x[r + 1 + i - 1]
    BY <1>1, SubSeqProperties
  <2> HIDE DEF l
  <2> QED BY <1>1, <2>2
<1>3. /\ m \in Seq(Bytes) /\ Len(m) = Len(x) - r - n
      /\ \A i \in 1..(Len(x) - r - n) : m[i] = x[r + n + i]
  <2>2. /\ m \in Seq(Bytes) /\ Len(m) = IF r + n + 1 <= Len(x) THEN Len(x) - (r + n + 1) + 1 ELSE 0
        /\ \A i \in 1..(Len(x) - (r + n + 1) + 1) : m[i] = x[r + n + 1 + i - 1]
    BY <1>1, SubSeqProperties
  <2> HIDE DEF m
  <2> QED BY <1>1, <2>2
<1> HIDE DEF l, m
<1>4. /\ w \in Seq(Bytes) /\ Len(w) = Len(l) - n
      /\ \A i \in 1..(Len(l) - n) : w[i] = l[n + i]
  <2>1. Len(l) \in Nat /\ n <= Len(l) /\ \A i \in n + 1..Len(l) : l[i] \in Bytes
    BY <1>1, <1>2, ElementOfSeq
  <2>2. /\ w \in Seq(Bytes) /\ Len(w) = IF n + 1 <= Len(l) THEN Len(l) - (n + 1) + 1 ELSE 0
        /\ \A i \in 1..(Len(l) - (n + 1) + 1) : w[i] = l[n + 1 + i - 1]
    BY <2>1, SubSeqProperties
  <2> HIDE DEF w
  <2> QED BY <2>1, <2>2
<1> HIDE DEF w
<1>5. Len(m) = Len(w) /\ n <= Len(l) /\ Len(l) \in Nat
  BY <1>1, <1>2, <1>3, <1>4
<1>6. ASSUME NEW i \in 1..Len(m) PROVE m[i] = w[i]
  <2>1. m[i] = x[r + n + i] /\ w[i] = l[n + i] /\ n + i \in 1..(Len(x) - r)
    BY <1>1, <1>2, <1>3, <1>4
  <2>2. l[n + i] = x[r + (n + i)] /\ r + (n + i) = r + n + i
    BY <2>1, <1>2
  <2> QED BY <2>1, <2>2
<1>7. m = w
  BY <1>3, <1>4, <1>5, <1>6, SeqEqual, Zenon
<1> QED
  BY <1>5, <1>7 DEF l, m, w

\* buffer_extend either made room and the bytes are written, or starts its loop.
LEMMA ExtendQ ==
  ASSUME NEW b \in Buffers, NEW t, NEW s, Extend(b, t, s)
  PROVE  \/ work' = work /\ \E m : Fill(b, t, s, m)
         \/ buf' = buf /\ work'.b = b /\ work'.type = t /\ work'.s = s
  BY DEF Extend

\* Between calls there is nothing to say about the call in progress.
LEMMA NotWorking == ASSUME ~work'.on PROVE CallInv'
  BY DEF CallInv

\* An operation on the buffer that op names is a step of the queues.
LEMMA OnOp ==
  ASSUME NEW b, NEW c, op'.b = b,
         \/ Queue!Put(b) \/ Queue!Take(b) \/ Queue!Load(b) \/ Queue!Unload(b)
         \/ Queue!Copy(b, c) /\ op'.from = c
  PROVE  Queue!Next
<1>1. CASE Queue!Put(b)
  BY <1>1, Zenon DEF Queue!Next, Queue!Put, Queue!Becomes
<1>2. CASE Queue!Take(b)
  BY <1>2, ZenonT(60) DEF Queue!Next, Queue!Take, Queue!Becomes
<1>3. CASE Queue!Load(b)
  BY <1>3, Zenon DEF Queue!Next, Queue!Load, Queue!Becomes
<1>4. CASE Queue!Unload(b)
  BY <1>4, Zenon DEF Queue!Next, Queue!Unload, Queue!Becomes
<1>5. CASE Queue!Copy(b, c) /\ op'.from = c
  BY <1>5, Zenon DEF Queue!Next, Queue!Copy, Queue!Becomes
<1> QED BY <1>1, <1>2, <1>3, <1>4, <1>5

\* A step of the model is a step of the queues, and keeps CallInv.
LEMMA QueueStep ==
  ASSUME BufferInv, CallInv, BufferNext
  PROVE  CallInv' /\ (Queue!Next \/ Q' = Q)
<1> DEFINE Goal == CallInv' /\ (Queue!Next \/ Q' = Q)
<1>1. ASSUME UNCHANGED buf PROVE Q' = Q
  BY <1>1 DEF Q, left
<1>2. ASSUME NEW e, Fails(e), ~work.on PROVE Goal
  BY <1>1, <1>2 DEF Fails, CallInv
<1>3. ASSUME NEW b \in Buffers, NEW t \in Types, NEW s \in Payloads, Pack(b, t, s) PROVE Goal
  <2>0. ~work.on /\ op' = [name |-> "pack", b |-> b, from |-> b] /\ s \in Seq(Bytes)
    BY <1>3, PayloadsBytes DEF Pack, Called
  <2>1. CASE buf[b].type \in {"undef", t} /\ Extend(b, t, s)
    <3>1. CASE work' = work /\ \E m : Fill(b, t, s, m)
      <4>1. Queue!Put(b)
        BY <2>0, <2>1, <3>1, PutStep
      <4> QED BY <2>0, <3>1, <4>1, NotWorking, OnOp
    <3>2. CASE buf' = buf /\ work'.b = b /\ work'.type = t /\ work'.s = s
      BY <2>0, <2>1, <3>2, <1>1 DEF CallInv
    <3> QED BY <2>1, <3>1, <3>2, ExtendQ
  <2> QED BY <1>2, <1>3, <2>0, <2>1 DEF Pack
<1>4. ASSUME NEW b \in Buffers, NEW t \in Types, NEW s \in Payloads, Load(b, t, s) PROVE Goal
  <2>0. ~work'.on /\ op'.b = b /\ op'.name = "load" /\ \A c \in Buffers \ {b} : buf'[c] = buf[c]
    BY <1>4 DEF Load, Called, BufferInv, TypeOK
  <2>1. Q' = [Q EXCEPT ![b] = Q'[b]]
    BY <2>0, OneChanges
  <2>2. Queue!Load(b)
    BY <2>0, <2>1 DEF Queue!Load, Queue!Becomes, Q, left
  <2> QED BY <2>0, <2>2, NotWorking, OnOp
<1>5. ASSUME NEW b \in Buffers, NEW t \in Types, NEW n \in 0..MaxUsed, Unpack(b, t, n) PROVE Goal
  <2>0. ~work.on /\ op'.b = b /\ op'.name = "unpack"
    BY <1>5 DEF Unpack, Called
  <2>1. CASE /\ ~(used(b) - buf[b].read < n)
             /\ buf' = [buf EXCEPT ![b].read = @ + n] /\ UNCHANGED work
    <3>1. /\ buf[b].bytes \in Seq(Bytes) /\ buf[b].read \in Nat /\ n \in Nat
          /\ buf[b].read + n <= Len(buf[b].bytes)
      BY <2>1, LeftSeq, BoundNatural DEF used
    <3>2. /\ buf'[b].bytes = buf[b].bytes /\ buf'[b].read = buf[b].read + n /\ buf'[b].type = buf[b].type
          /\ \A c \in Buffers \ {b} : buf'[c] = buf[c]
      BY <2>1, <3>1 DEF BufferInv, TypeOK
    <3>3. n \in 0..Len(left(b)) /\ left(b)' = SubSeq(left(b), n + 1, Len(left(b)))
      <4>1. /\ n \in 0..Len(left(b))
            /\ SubSeq(buf[b].bytes, buf[b].read + n + 1, Len(buf[b].bytes)) = SubSeq(left(b), n + 1, Len(left(b)))
        BY <3>1, DropMore, Zenon DEF left
      <4>2. left(b)' = SubSeq(buf[b].bytes, buf[b].read + n + 1, Len(buf[b].bytes))
        BY <3>2 DEF left
      <4> QED BY <4>1, <4>2, Zenon
    <3>4. Q'[b].type = Q[b].type /\ Q' = [Q EXCEPT ![b] = Q'[b]]
      BY <3>2, OneChanges, QFacts
    <3>5. n \in 0..Len(Q[b].left) /\ Q'[b].left = SubSeq(Q[b].left, n + 1, Len(Q[b].left))
      BY <3>3, QFacts
    <3>6. Queue!Take(b)
      BY <2>0, <3>4, <3>5, Zenon DEF Queue!Take, Queue!Becomes, Q, left
    <3> QED BY <2>0, <2>1, <3>6, NotWorking, OnOp
  <2> QED BY <1>2, <1>5, <2>0, <2>1 DEF Unpack
<1>6. ASSUME NEW d \in Buffers, NEW s \in Buffers, NEW t \in Types, CopyPayload(d, s, t) PROVE Goal
  <2>0. /\ ~work.on /\ d # s /\ op' = [name |-> "copy", b |-> d, from |-> s]
        /\ left(s) \in Seq(Bytes) /\ left(d) \in Seq(Bytes)
    BY <1>6, LeftSeq DEF CopyPayload, Called
  <2>1. buf[d].allocated = 0 => left(d) = <<>>
    <3>1. buf[d].allocated = 0 => Len(buf[d].bytes) = 0
      BY LeftSeq DEF BufferInv, InBounds, used
    <3>2. Len(buf[d].bytes) = 0 => buf[d].read + 1 > Len(buf[d].bytes)
      BY LeftSeq
    <3>3. buf[d].read + 1 > Len(buf[d].bytes) => left(d) = <<>>
      BY LeftSeq, SubSeqEmpty DEF left
    <3> QED BY <3>1, <3>2, <3>3
  <2>2. CASE /\ left(d) = <<>> \/ buf[d].type \in {"undef", buf[s].type}
             /\ Extend(d, buf[s].type, left(s))
    <3>1. CASE work' = work /\ \E m : Fill(d, buf[s].type, left(s), m)
      <4>1. Queue!Copy(d, s)
        BY <2>0, <2>2, <3>1, CopyStep
      <4> QED BY <2>0, <3>1, <4>1, NotWorking, OnOp
    <3>2. CASE buf' = buf /\ work'.b = d /\ work'.type = buf[s].type /\ work'.s = left(s)
      BY <2>0, <2>2, <3>2, <1>1, Zenon DEF CallInv, left
    <3> QED BY <2>2, <3>1, <3>2, ExtendQ
  <2>3. CASE /\ buf[d].allocated = 0 /\ left(s) = <<>>
             /\ buf' = [buf EXCEPT ![d].type = buf[s].type] /\ UNCHANGED work
    <3>1. /\ buf'[d].type = buf[s].type /\ buf'[d].bytes = buf[d].bytes /\ buf'[d].read = buf[d].read
          /\ \A c \in Buffers \ {d} : buf'[c] = buf[c]
      BY <2>3 DEF BufferInv, TypeOK
    <3>2. left(d)' = left(d) \o left(s)
      <4>1. left(d)' = left(d)
        BY <3>1 DEF left
      <4> QED BY <4>1, <2>0, <2>3, ConcatEmptySeq
    <3>3. /\ Q'[d].type = Q[s].type /\ Q'[d].left = Q[d].left \o Q[s].left
          /\ Q' = [Q EXCEPT ![d] = Q'[d]] /\ Q[d].left = <<>>
      BY <2>1, <2>3, <3>1, <3>2, QFacts, OneChanges, Zenon
    <3>4. Queue!Copy(d, s)
      BY <2>0, <3>3, Zenon DEF Queue!Copy, Queue!Becomes, Q, left
    <3> QED BY <2>0, <2>3, <3>4, NotWorking, OnOp
  <2> QED BY <1>2, <1>6, <2>0, <2>1, <2>2, <2>3 DEF CopyPayload, left, used
<1>7. ASSUME NEW b \in Buffers, Unload(b) PROVE Goal
  <2>0. /\ ~work'.on /\ op'.b = b /\ op'.name = "unload" /\ \A c \in Buffers \ {b} : buf'[c] = buf[c]
        /\ buf'[b].type = buf[b].type /\ buf'[b].bytes = <<>> /\ buf'[b].read = 0
    BY <1>7 DEF Unload, Called, New, BufferInv, TypeOK
  <2>1. left(b)' = <<>>
    <3>1. left(b)' = SubSeq(<<>>, 1, 0)
      BY <2>0 DEF left
    <3> QED BY <3>1, SubSeqEmpty
  <2>2. Q' = [Q EXCEPT ![b] = Q'[b]] /\ Q'[b].type = Q[b].type /\ Q'[b].left = <<>>
    BY <2>0, <2>1, OneChanges, QFacts
  <2>3. Queue!Unload(b)
    BY <2>0, <2>2 DEF Queue!Unload, Queue!Becomes, Q, left
  <2> QED BY <2>0, <2>3, NotWorking, OnOp
<1>8. CASE Double
  <2>1. UNCHANGED <<buf, op>> /\ work'.b = work.b /\ work'.type = work.type /\ work'.s = work.s /\ work.on
    <3>1. work.on /\ ~Idle.on
      BY <1>8 DEF Double, Idle
    <3> QED BY <1>8, <3>1 DEF Double, BufferInv, TypeOK
  <2> QED BY <2>1, <1>1 DEF CallInv, left
<1>9. CASE Grow
  <2>1. /\ work.on /\ ~work'.on /\ op' = op /\ work.b \in Buffers /\ work.s \in Seq(Bytes)
        /\ Fill(work.b, work.type, work.s, work.to_alloc)
    <3>1. work.on /\ ~Idle.on
      BY <1>9 DEF Grow, Idle
    <3> QED BY <1>9, <3>1, Zenon DEF Grow, BufferInv, TypeOK
  <2>a. PICK b \in Buffers : b = work.b
    BY <2>1
  <2>b. PICK s \in Seq(Bytes) : s = work.s
    BY <2>1
  <2>c. PICK t, m : t = work.type /\ m = work.to_alloc
    OBVIOUS
  <2>2. b = work.b /\ s = work.s /\ t = work.type /\ m = work.to_alloc
    BY <2>a, <2>b, <2>c
  <2>3. Fill(b, t, s, m)
    <3>1. /\ [type |-> t, allocated |-> m, bytes |-> buf[b].bytes \o s, read |-> buf[b].read]
              = [type |-> work.type, allocated |-> work.to_alloc, bytes |-> buf[work.b].bytes \o work.s,
                 read |-> buf[work.b].read]
      BY <2>2, Zenon
    <3>2. buf' = [buf EXCEPT ![work.b] = [type |-> work.type, allocated |-> work.to_alloc,
                                          bytes |-> buf[work.b].bytes \o work.s, read |-> buf[work.b].read]]
      BY <2>1 DEF Fill
    <3>3. buf' = [buf EXCEPT ![b] = [type |-> t, allocated |-> m, bytes |-> buf[b].bytes \o s,
                                     read |-> buf[b].read]]
      BY <2>2, <3>1, <3>2, Zenon
    <3> QED BY <3>3 DEF Fill
  <2>4. CASE op.name = "pack" /\ buf[work.b].type \in {"undef", work.type}
    <3>1. Queue!Put(b)
      BY <2>1, <2>2, <2>3, <2>4, PutStep
    <3> QED BY <2>1, <2>2, <3>1, NotWorking, OnOp DEF CallInv
  <2>5. CASE /\ op.name = "copy" /\ op.from \in Buffers \ {work.b}
             /\ work.type = buf[op.from].type /\ work.s = left(op.from)
             /\ left(work.b) = <<>> \/ buf[work.b].type \in {"undef", work.type}
    <3>1. PICK c \in Buffers \ {b} : c = op.from
      BY <2>2, <2>5
    <3>2. t = buf[c].type /\ s = left(c) /\ (left(b) = <<>> \/ buf[b].type \in {"undef", buf[c].type})
      BY <2>2, <2>5, <3>1 DEF left
    <3>3. Fill(b, buf[c].type, left(c), m)
      BY <2>3, <3>2 DEF Fill
    <3>4. Queue!Copy(b, c)
      BY <2>1, <2>5, <3>2, <3>3, CopyStep
    <3> QED BY <2>1, <2>2, <3>1, <3>4, NotWorking, OnOp DEF CallInv
  <2> QED BY <2>1, <2>4, <2>5 DEF CallInv
<1> QED
  BY <1>3, <1>4, <1>5, <1>6, <1>7, <1>8, <1>9 DEF BufferNext

\* Buffers implement queues of bytes for any number of buffers, any sizes and any
\* payloads: bytes come out of PMIX_BFROPS_UNPACK in the order they went in, once,
\* whatever buffer_extend, PMIX_LOAD_BUFFER, PMIX_UNLOAD_BUFFER and
\* PMIX_BFROPS_COPY_PAYLOAD do in between.
THEOREM BuffersAreQueues == BufferSpec => BufferIsQueue
<1>1. BufferInit => CallInv /\ Queue!Init
  <2> SUFFICES ASSUME BufferInit PROVE CallInv /\ Queue!Init
    OBVIOUS
  <2>1. CallInv
    BY DEF BufferInit, Idle, CallInv
  <2>2. SubSeq(<<>>, 1, 0) = <<>> /\ Len(<<>>) = 0
    BY SubSeqEmpty
  <2>3. \A b \in Buffers : buf[b].type = "undef" /\ buf[b].bytes = <<>> /\ buf[b].read = 0
    BY Zenon DEF BufferInit, New
  <2>4. Q = [b \in Buffers |-> [type |-> "undef", left |-> <<>>]]
    BY <2>2, <2>3 DEF Q, left
  <2> QED BY <2>1, <2>4 DEF BufferInit, Queue!Init, Queue!Empty, Q, left
<1>2. BufferInv /\ CallInv /\ [BufferNext]_buffervars => CallInv' /\ [Queue!Next]_<<Q, op>>
  <2> SUFFICES ASSUME BufferInv, CallInv, [BufferNext]_buffervars
               PROVE  CallInv' /\ (Queue!Next \/ UNCHANGED <<Q, op>>)
    OBVIOUS
  <2>1. CASE UNCHANGED buffervars
    BY <2>1 DEF buffervars, CallInv, Q, left
  <2>2. CASE BufferNext
    <3>1. CallInv' /\ (Queue!Next \/ Q' = Q)
      BY <2>2, QueueStep
    <3>2. Q' = Q => Queue!Next
      BY DEF Queue!Next, Queue!Nothing, Q, left
    <3> QED BY <3>1, <3>2
  <2> QED BY <2>1, <2>2
<1>3. BufferSpec => []BufferInv
  BY BuffersInBounds, PTL DEF BufferInv
<1>4. BufferSpec => []CallInv /\ Queue!Init /\ [][Queue!Next]_<<Q, op>>
  BY <1>1, <1>2, <1>3, PTL DEF BufferSpec
<1> QED
  BY <1>4, PTL DEF BufferIsQueue, Queue!Spec, Q, left

=============================================================================
