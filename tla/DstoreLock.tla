----------------------------- MODULE DstoreLock ------------------------------
(***************************************************************************)
(* The lock of gds/ds21: each namespace of a session has a shared segment     *)
(* with two mutexes for each local process.  A process takes one of the pairs *)
(* when it attaches.  A reader takes its first mutex, then the second, then    *)
(* lets go of the first; the server takes all the first ones and then all the  *)
(* second ones, namespace by namespace.  The threads of a client share its     *)
(* pair; the mutex of its context (ds_ctx->lock) covers the time until the     *)
(* segments are mapped.  A client that looks for a key of any rank (the rank    *)
(* PMIX_RANK_UNDEF) fetches the size of the universe first, under that mutex,   *)
(* and waits there for itself.                                                 *)
(***************************************************************************)
EXTENDS Integers, Sequences, FiniteSets

CONSTANTS
  Items,      \* the namespaces in the order of the list of locks
  NumLocks,   \* namespace -> local_size
  Threads,
  ProcOf,     \* thread -> client process
  NspaceOf,   \* client process -> namespace
  NoOne

VARIABLES
  owner,    \* mutex -> who holds it
  taken,    \* the index array of each segment
  lock_idx, \* process -> its index, -1 before it attached, -2 if none was left
  scan,     \* process -> index it tries next
  pc,       \* thread -> where it is in _dstore_fetch
  spc,      \* the server: in which loop of wr_get and wr_rel it is, or writing
  item,     \* the item of the list of locks the loop has come to
  idx       \* the index in that item

server == <<spc, item, idx>>
vars == <<owner, taken, lock_idx, scan, pc, server>>

Procs == {ProcOf[t] : t \in Threads}
Pairs(n) == {<<n, i>> : i \in 0..(NumLocks[n] - 1)}
AllPairs == UNION {Pairs(Items[j]) : j \in DOMAIN Items}
Mutexes == {<<p, k>> : p \in AllPairs, k \in {"first", "second"}} \cup {<<<<c, 0>>, "ctx">> : c \in Procs}

\* What is asked of the constants: the list of locks has one item for each
\* namespace (lock_init appends one when the namespace is added), and every client
\* is of one of them.
Setting ==
  /\ Len(Items) \in Nat /\ DOMAIN Items = 1..Len(Items)
  /\ \A j, k \in 1..Len(Items) : Items[j] = Items[k] => j = k
  /\ \A j \in 1..Len(Items) : NumLocks[Items[j]] \in Nat
  /\ \A c \in Procs : \E j \in 1..Len(Items) : NspaceOf[c] = Items[j]
  /\ NoOne \notin Threads /\ NoOne # "server" /\ "server" \notin Threads

Init ==
  /\ owner = [m \in Mutexes |-> NoOne]
  /\ taken = [p \in AllPairs |-> FALSE]
  /\ lock_idx = [c \in Procs |-> -1]
  /\ scan = [c \in Procs |-> 0]
  /\ pc = [t \in Threads |-> "idle"]
  /\ spc = "idle" /\ item = 1 /\ idx = 0

Lock(m, who) == owner[m] = NoOne /\ owner' = [owner EXCEPT ![m] = who]
Unlock(m) == owner' = [owner EXCEPT ![m] = NoOne]

----------------------------------------------------------------------------

\* pmix_gds_ds21_lock_init at a client: one compare-and-exchange.
lock_init(c) ==
  LET n == NspaceOf[c]
      i == scan[c] IN
  /\ lock_idx[c] = -1
  /\ IF i = NumLocks[n] THEN lock_idx' = [lock_idx EXCEPT ![c] = -2] /\ UNCHANGED <<taken, scan>>
     ELSE IF taken[<<n, i>>] THEN scan' = [scan EXCEPT ![c] = i + 1] /\ UNCHANGED <<taken, lock_idx>>
     ELSE /\ taken' = [taken EXCEPT ![<<n, i>>] = TRUE]
          /\ lock_idx' = [lock_idx EXCEPT ![c] = i]
          /\ UNCHANGED scan
  /\ UNCHANGED <<owner, pc, server>>

\* The reader's side of _dstore_fetch, and pmix_ds21_lock_rd_get / rd_rel.
Mine(t, k) == <<<<NspaceOf[ProcOf[t]], lock_idx[ProcOf[t]]>>, k>>
Ctx(t) == <<<<ProcOf[t], 0>>, "ctx">>
Goto(t, l) == pc' = [pc EXCEPT ![t] = l]
Rest == UNCHANGED <<taken, lock_idx, scan, server>>

_dstore_fetch(t) ==
  /\ pc[t] = "idle" /\ lock_idx[ProcOf[t]] >= 0
  /\ Goto(t, "ctx") /\ UNCHANGED owner /\ Rest
LockCtx(t) == pc[t] = "ctx" /\ Lock(Ctx(t), t) /\ Goto(t, "first") /\ Rest
\* _get_univ_size calls _dstore_fetch, which locks the context again: the mutex has
\* the default type, so the thread waits for ever and keeps it.
_get_univ_size(t) == pc[t] = "ctx" /\ Lock(Ctx(t), t) /\ Goto(t, "again") /\ Rest
RdFirst(t) == pc[t] = "first" /\ Lock(Mine(t, "first"), t) /\ Goto(t, "second") /\ Rest
RdSecond(t) == pc[t] = "second" /\ Lock(Mine(t, "second"), t) /\ Goto(t, "signal") /\ Rest
\* Mutant: the reader keeps the first mutex; the context's mutex is not unlocked.
Mut_RdSignal(t) == pc[t] = "signal" /\ UNCHANGED owner /\ Goto(t, "sync") /\ Rest
RdSignal(t) == pc[t] = "signal" /\ Unlock(Mine(t, "first")) /\ Goto(t, "sync") /\ Rest
\* The segments are mapped.
UnlockCtx(t) == pc[t] = "sync" /\ Unlock(Ctx(t)) /\ Goto(t, "read") /\ Rest
rd_rel(t) == pc[t] = "read" /\ Unlock(Mine(t, "second")) /\ Goto(t, "idle") /\ Rest

----------------------------------------------------------------------------
\* The server: the loops of wr_get and wr_rel over the items and their indices.
Item == Items[item]
Aside == UNCHANGED <<taken, lock_idx, scan, pc>>
At(l, j, i) == spc' = l /\ item' = j /\ idx' = i

wr_start == spc = "idle" /\ At("first", 1, 0) /\ UNCHANGED owner /\ Aside
\* Mutant: only the first mutexes are taken, the readers' "barrier".
Mut_wr_get ==
  /\ spc \in {"first", "second"} /\ item <= Len(Items) /\ idx < NumLocks[Item]
  /\ IF spc = "first" THEN Lock(<<<<Item, idx>>, "first">>, "server") ELSE UNCHANGED owner
  /\ At(spc, item, idx + 1) /\ Aside
\* pmix_ds21_lock_wr_get: first the signalling mutexes of an item, then its main ones.
wr_get ==
  /\ spc \in {"first", "second"} /\ item <= Len(Items) /\ idx < NumLocks[Item]
  /\ Lock(<<<<Item, idx>>, spc>>, "server")
  /\ At(spc, item, idx + 1) /\ Aside
\* One of its loops has ended.
wr_got ==
  /\ spc \in {"first", "second"} /\ (item <= Len(Items) => idx = NumLocks[Item])
  /\ IF item > Len(Items) THEN At("write", 1, 0)
     ELSE IF spc = "first" THEN At("second", item, 0) ELSE At("first", item + 1, 0)
  /\ UNCHANGED owner /\ Aside
\* pmix_ds21_lock_wr_rel: both mutexes of each index of an item.
wr_rel ==
  /\ Aside
  /\ \/ spc = "write" /\ At("rel_first", 1, 0) /\ UNCHANGED owner
     \/ /\ spc = "rel_first" /\ item <= Len(Items) /\ idx < NumLocks[Item]
        /\ Unlock(<<<<Item, idx>>, "first">>) /\ At("rel_second", item, idx)
     \/ /\ spc = "rel_second"
        /\ Unlock(<<<<Item, idx>>, "second">>) /\ At("rel_first", item, idx + 1)
     \/ /\ spc = "rel_first" /\ (item <= Len(Items) => idx = NumLocks[Item])
        /\ IF item > Len(Items) THEN At("idle", 1, 0) ELSE At("rel_first", item + 1, 0)
        /\ UNCHANGED owner

Reader(t) == LockCtx(t) \/ _get_univ_size(t) \/ RdFirst(t) \/ RdSecond(t) \/ RdSignal(t) \/ UnlockCtx(t) \/ rd_rel(t)
Next ==
  \/ wr_start \/ wr_get \/ wr_got \/ wr_rel
  \/ \E c \in Procs : lock_init(c)
  \/ \E t \in Threads : _dstore_fetch(t) \/ Reader(t)
\* Threads run, and one that waits for a mutex gets it if it stays free.  POSIX
\* promises no more: others may take it first again and again.
Fairness ==
  /\ WF_vars(wr_get) /\ WF_vars(wr_got) /\ WF_vars(wr_rel)
  /\ \A t \in Threads : WF_vars(Reader(t))
Spec == Init /\ [][Next]_vars /\ Fairness

----------------------------------------------------------------------------
\* No two processes share a pair of mutexes (the compare-and-exchange of
\* pmix_gds_ds21_lock_init), and one goes without only if all are taken.
PairsDistinct ==
  /\ \A c, d \in Procs : c # d /\ NspaceOf[c] = NspaceOf[d] /\ lock_idx[c] >= 0 => lock_idx[c] # lock_idx[d]
  /\ \A c \in Procs : lock_idx[c] = -2 => \A p \in Pairs(NspaceOf[c]) : taken[p]

\* The threads that read.
readersNow == {t \in Threads : pc[t] \in {"signal", "sync", "read"}}
Abstract == INSTANCE RWLock WITH Readers <- Threads, readers <- readersNow, writer <- spc = "write"
\* The mutexes give the data store the reader-writer lock it asks for: the server
\* writes alone, and readers read together.
IsRWLock == Abstract!Spec

\* The threads of a process one of whose threads waits for itself.
Stuck(t) == \E u \in Threads : ProcOf[u] = ProcOf[t] /\ pc[u] = "again"

\* The server or a thread waits for a mutex; a thread of such a process waits for good.
Waiting ==
  \/ spc \in {"first", "second"}
  \/ \E t \in Threads : pc[t] \in {"ctx", "first", "second"} /\ ~Stuck(t)
\* The lock never ends in everyone waiting for everyone: while the server or a thread
\* waits for a mutex, somebody gets through, until all who wait do so in a process
\* that looked for a key of any rank.
SomebodyGets == Waiting ~> (spc = "write" \/ (\E t \in Threads : pc[t] = "read") \/ ~Waiting)

\* The server that holds the first mutexes of a namespace gets the second ones although
\* clients keep fetching: it waits for the readers that are in, and no other enters.
\* This is what the pair of mutexes is for, and it needs no fair mutex.
ReadersHeldBack == spc = "second" ~> spc # "second"

\* Were the mutexes fair, the server would come to write although clients keep
\* reading, and every fetch would end although the server keeps writing, except in a
\* process one of whose threads looked for a key of any rank.  POSIX does not promise
\* fair mutexes, so this is a statement about the protocol and not about the program.
FairMutexes == SF_vars(wr_get) /\ \A t \in Threads : SF_vars(Reader(t))
WriterGets == spc = "first" ~> spc = "write"
ReaderGets == \A t \in Threads : pc[t] = "ctx" ~> (pc[t] = "idle" \/ Stuck(t))
NoStarvation == FairMutexes => WriterGets /\ ReaderGets

\* Every fetch ends, with fair mutexes.  This fails: PMIx_Get with no process looks
\* for the key of any rank, and that fetch waits for itself.
FetchesEnd == FairMutexes => \A t \in Threads : pc[t] = "ctx" ~> pc[t] = "idle"
=============================================================================
