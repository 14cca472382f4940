---------------------------- MODULE BufferQueue -----------------------------
(***************************************************************************)
(* What a pmix_buffer_t promises: a queue of bytes of one type.  What is      *)
(* packed is unpacked in the same order, once; copying the payload of another *)
(* buffer appends what that one has left and takes nothing from it.           *)
(***************************************************************************)
EXTENDS Naturals, Sequences

CONSTANT Buffers

VARIABLES
  queue,    \* buffer -> its type and the bytes not yet unpacked
  op        \* the call being made

Empty == [type |-> "undef", left |-> <<>>]

Init == queue = [b \in Buffers |-> Empty] /\ op = [name |-> "none"]

\* Only b changes, and it has type t afterwards.
Becomes(b, t) ==
  /\ queue' = [queue EXCEPT ![b] = queue'[b]]
  /\ queue'[b].type = t
\* Packing only adds at the end.
Put(b) ==
  /\ op'.name = "pack"
  /\ Becomes(b, queue'[b].type) /\ queue[b].type \in {"undef", queue'[b].type}
  /\ SubSeq(queue'[b].left, 1, Len(queue[b].left)) = queue[b].left
\* A buffer takes the type of the source when it holds nothing.
Copy(b, c) ==
  /\ op'.name = "copy"
  /\ queue[b].left = <<>> \/ queue[b].type \in {"undef", queue[c].type}
  /\ Becomes(b, queue[c].type)
  /\ queue'[b].left = queue[b].left \o queue[c].left
\* Unpacking only takes from the front.
Take(b) ==
  /\ op'.name = "unpack"
  /\ Becomes(b, queue[b].type)
  /\ \E n \in 0..Len(queue[b].left) :
       queue'[b].left = SubSeq(queue[b].left, n + 1, Len(queue[b].left))
Load(b) == op'.name = "load" /\ Becomes(b, queue'[b].type)
Unload(b) == op'.name = "unload" /\ Becomes(b, queue[b].type) /\ queue'[b].left = <<>>
\* A call that fails, or that has not done its work yet.
Nothing == queue' = queue

Next ==
  \/ Nothing
  \/ LET b == op'.b IN Put(b) \/ Copy(b, op'.from) \/ Take(b) \/ Load(b) \/ Unload(b)

Spec == Init /\ [][Next]_<<queue, op>>
=============================================================================
