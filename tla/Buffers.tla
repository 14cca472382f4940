------------------------------ MODULE Buffers -------------------------------
(***************************************************************************)
(* pmix_buffer_t: packing with growth (buffer_extend), unpacking, copying of *)
(* payload, loading and unloading.  The loop of buffer_extend that doubles    *)
(* the size runs one iteration per step.                                     *)
(***************************************************************************)
EXTENDS Integers, Sequences

CONSTANTS
  Buffers,
  Bytes,           \* contents of a byte
  Types,           \* compat.type of the peers
  initial_size,    \* pmix_bfrops_globals
  threshold_size,
  Payloads,        \* what a call packs, copies or loads
  MaxUsed          \* bound on the bytes in a buffer

ASSUME SizesPositive == initial_size \in Nat \ {0} /\ threshold_size \in Nat \ {0}
ASSUME BoundNatural == MaxUsed \in Nat
ASSUME PayloadsBytes == Payloads \subseteq Seq(Bytes)
ASSUME NoUndefType == "undef" \notin Types

VARIABLES
  buf,     \* buffer -> type, bytes_allocated, the bytes packed, how many were unpacked
  work,    \* the call to buffer_extend that is growing a buffer, if any
  rc,      \* result of the last call
  op       \* the last call: its name, the buffer it is about and, of a copy, its source

buffervars == <<buf, work, rc, op>>

New == [type |-> "undef", allocated |-> 0, bytes |-> <<>>, read |-> 0]
Idle == [on |-> FALSE]
used(b) == Len(buf[b].bytes)

BufferInit ==
  /\ buf = [b \in Buffers |-> New]
  /\ work = Idle
  /\ rc = "SUCCESS"
  /\ op = [name |-> "none"]

Called(name, b, from) == op' = [name |-> name, b |-> b, from |-> from]

\* The bytes s are packed at the end of b, which has room for them.
Fill(b, t, s, allocated) ==
  buf' = [buf EXCEPT ![b] = [type |-> t, allocated |-> allocated, bytes |-> @.bytes \o s,
                             read |-> @.read]]

\* buffer_extend: enough room already, a multiple of threshold_size, or doubling.
Required(b, s) == used(b) + Len(s)
\* Mutant: rounded down.
Mut_rounded_down(n) == (n \div threshold_size) * threshold_size
Rounded(n) == ((n + threshold_size - 1) \div threshold_size) * threshold_size
Extend(b, t, s) ==
  \/ /\ buf[b].allocated - used(b) >= Len(s)
     /\ Fill(b, t, s, buf[b].allocated)
     /\ rc' = "SUCCESS" /\ work' = work
  \/ /\ buf[b].allocated - used(b) < Len(s) /\ Required(b, s) >= threshold_size
     /\ Fill(b, t, s, Rounded(Required(b, s)))
     /\ rc' = "SUCCESS" /\ work' = work
  \/ /\ buf[b].allocated - used(b) < Len(s) /\ Required(b, s) < threshold_size
     /\ work' = [on |-> TRUE, b |-> b, type |-> t, s |-> s,
                 to_alloc |-> IF buf[b].allocated = 0 THEN initial_size ELSE buf[b].allocated]
     /\ UNCHANGED <<buf, rc>>

\* while (to_alloc < required) to_alloc <<= 1;
Double ==
  /\ work.on /\ work.to_alloc < Required(work.b, work.s)
  /\ work' = [work EXCEPT !.to_alloc = 2 * @]
  /\ UNCHANGED <<buf, rc, op>>
Grow ==
  /\ work.on /\ work.to_alloc >= Required(work.b, work.s)
  /\ Fill(work.b, work.type, work.s, work.to_alloc)
  /\ work' = Idle /\ rc' = "SUCCESS" /\ UNCHANGED op

Fails(e) == rc' = e /\ UNCHANGED <<buf, work>>

\* PMIX_BFROPS_PACK for a peer of type t.
Pack(b, t, s) ==
  /\ ~work.on /\ Required(b, s) <= MaxUsed
  /\ Called("pack", b, b)
  /\ IF buf[b].type \in {"undef", t} THEN Extend(b, t, s) ELSE Fails("PACK_MISMATCH")

\* PMIX_BFROPS_UNPACK of n bytes: bfrop_too_small before anything is read.
Unpack(b, t, n) ==
  /\ ~work.on
  /\ Called("unpack", b, b)
  /\ IF buf[b].type # t THEN Fails("UNPACK_FAILURE")
     ELSE IF used(b) - buf[b].read < n THEN Fails("UNPACK_READ_PAST_END")
     ELSE /\ buf' = [buf EXCEPT ![b].read = @ + n]
          /\ rc' = "SUCCESS" /\ UNCHANGED work

\* Mutant: the source is copied from its base, with what was already read.
Mut_copy_from_base(d, s, t) ==
  /\ ~work.on /\ d # s /\ Required(d, buf[s].bytes) <= MaxUsed
  /\ Called("copy", d, s)
  /\ IF buf[d].type \notin {"undef", t} \/ buf[s].type # t THEN Fails("PACK_MISMATCH")
     ELSE buf[s].bytes # <<>> /\ Extend(d, buf[s].type, buf[s].bytes)
\* PMIX_BFROPS_COPY_PAYLOAD and copy_payload.  The room for no bytes at all in a
\* buffer without memory is a NULL pointer, which is taken for a failure.
CopyPayload(d, s, t) ==
  LET left == SubSeq(buf[s].bytes, buf[s].read + 1, used(s)) IN
  /\ ~work.on /\ d # s /\ Required(d, left) <= MaxUsed
  /\ Called("copy", d, s)
  /\ IF buf[d].type \notin {"undef", t} THEN Fails("PACK_MISMATCH")
     ELSE IF buf[d].allocated # 0 /\ buf[s].type # t THEN Fails("BAD_PARAM")
     ELSE IF buf[d].allocated = 0 /\ left = <<>>
     THEN /\ buf' = [buf EXCEPT ![d].type = buf[s].type]
          /\ rc' = "OUT_OF_RESOURCE" /\ UNCHANGED work
     ELSE Extend(d, buf[s].type, left)

\* PMIX_LOAD_BUFFER: the buffer takes over a block of the caller's.
Load(b, t, s) ==
  /\ ~work.on /\ Len(s) <= MaxUsed
  /\ Called("load", b, b)
  /\ buf' = [buf EXCEPT ![b] = [type |-> t, allocated |-> Len(s), bytes |-> s, read |-> 0]]
  /\ rc' = "SUCCESS" /\ UNCHANGED work

\* PMIX_UNLOAD_BUFFER: unpack_ptr and bytes_used bytes go to the caller.  All
\* callers unload a buffer they packed and did not read from.  The type stays.
Unload(b) ==
  /\ ~work.on /\ buf[b].read = 0
  /\ Called("unload", b, b)
  /\ buf' = [buf EXCEPT ![b] = [New EXCEPT !.type = buf[b].type]]
  /\ rc' = "SUCCESS" /\ UNCHANGED work

BufferNext ==
  \/ \E b \in Buffers, t \in Types, s \in Payloads : Pack(b, t, s)
  \/ \E b \in Buffers, t \in Types, s \in Payloads : Load(b, t, s)
  \/ \E b \in Buffers, t \in Types, n \in 0..MaxUsed : Unpack(b, t, n)
  \/ \E d \in Buffers, s \in Buffers, t \in Types : CopyPayload(d, s, t)
  \/ \E b \in Buffers : Unload(b)
  \/ Double \/ Grow

\* A call, once entered, runs to its end.
BufferSpec == BufferInit /\ [][BufferNext]_buffervars /\ WF_buffervars(Double \/ Grow)

\* ---- properties -----------------------------------------------------------------

TypeOK ==
  /\ buf \in [Buffers -> [type : Types \cup {"undef"}, allocated : Nat, bytes : Seq(Bytes),
                          read : Nat]]
  /\ work = Idle \/ work \in [on : {TRUE}, b : Buffers, type : Types \cup {"undef"},
                              s : Seq(Bytes), to_alloc : Nat \ {0}]

\* Everything packed lies in allocated memory, nothing is unpacked that was not
\* packed (bytes_used, pack_ptr and unpack_ptr against bytes_allocated), and what
\* buffer_extend clears behind the old end ends with the new block.
InBounds ==
  /\ \A b \in Buffers : buf[b].read <= used(b) /\ used(b) <= buf[b].allocated
  /\ work.on => /\ used(work.b) <= buf[work.b].allocated
                /\ buf[work.b].allocated <= work.to_alloc

\* What is left to unpack in each buffer.
Queue == INSTANCE BufferQueue WITH
  queue <- [b \in Buffers |->
              [type |-> buf[b].type, left |-> SubSeq(buf[b].bytes, buf[b].read + 1, Len(buf[b].bytes))]]
\* A buffer is a queue of bytes: what is packed, copied or loaded is unpacked in
\* order, across every reallocation.
BufferIsQueue == Queue!Spec

\* The doubling loop ends: a call that must grow a buffer returns.
GrowthEnds == work.on ~> ~work.on
=============================================================================
