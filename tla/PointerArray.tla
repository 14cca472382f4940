---------------------------- MODULE PointerArray ----------------------------
(***************************************************************************)
(* pmix_pointer_array_t: a growing table of pointers that hands out the       *)
(* lowest free index.  Free slots are tracked three times: the NULL entries   *)
(* of addr, the free_bits (searched a word at a time) and the counters        *)
(* number_free and lowest_free.                                             *)
(***************************************************************************)
EXTENDS Integers, FiniteSets

CONSTANTS
  Pointers, NullPointer,
  WordBits,              \* bits of an element of free_bits (64)
  initial_allocation, max_size, block_size,    \* arguments of pmix_pointer_array_init
  MaxIndex               \* bound on the indices that callers set

ASSUME NullIsNoPointer == NullPointer \notin Pointers
ASSUME WordPositive == WordBits \in Nat \ {0}
ASSUME InitArguments ==
  initial_allocation \in Nat /\ max_size \in Nat /\ block_size \in Nat \ {0} /\ block_size <= max_size
ASSUME IndexNatural == MaxIndex \in Nat

VARIABLES addr, bits, size, number_free, lowest_free

arrayvars == <<addr, bits, size, number_free, lowest_free>>

ArrayInit ==
  LET n == IF initial_allocation > 0 THEN initial_allocation ELSE block_size IN
  /\ addr = [i \in 0..(n - 1) |-> NullPointer] /\ bits = {}
  /\ size = n /\ number_free = n /\ lowest_free = 0

\* FIND_FIRST_ZERO: from the start of the word that holds `start', the first zero
\* bit; size when number_free says that there is none.
WordOf(i) == WordBits * (i \div WordBits)
FIND_FIRST_ZERO(start, b, free, s) ==
  IF free = 0 THEN s
  ELSE CHOOSE i \in WordOf(start)..(s + WordBits) :
         i \notin b /\ \A j \in WordOf(start)..(i - 1) : j \in b

\* grow_table: the new size, a multiple of block_size but for the last.
NewSize(at_least) ==
  LET n == block_size * ((at_least + 1 + block_size - 1) \div block_size)
  IN IF n >= max_size THEN max_size ELSE n
MayGrow(at_least) == NewSize(at_least) < max_size \/ at_least < max_size
Grown(at_least) ==
  [i \in 0..(NewSize(at_least) - 1) |-> IF i < size THEN addr[i] ELSE NullPointer]

\* The pointer p goes to the free slot i of a table a of s entries with f free.
Take(i, p, a, s, f, lowest) ==
  /\ addr' = [a EXCEPT ![i] = p]
  /\ bits' = bits \cup {i}
  /\ size' = s /\ number_free' = f - 1 /\ lowest_free' = lowest

add(p) ==
  IF number_free = 0
  THEN /\ MayGrow(size + 1)
       /\ LET s == NewSize(size + 1) IN
          Take(lowest_free, p, Grown(size + 1), s, s - size,
               IF s - size - 1 > 0
               THEN FIND_FIRST_ZERO(lowest_free, bits \cup {lowest_free}, s - size - 1, s) ELSE s)
  ELSE Take(lowest_free, p, addr, size, number_free,
            IF number_free - 1 > 0
            THEN FIND_FIRST_ZERO(lowest_free, bits \cup {lowest_free}, number_free - 1, size)
            ELSE size)

\* set_item in a table a of s entries with f free.
\* Mutant (Mut_SetIn): a slot freed below lowest_free does not lower it.
Mut_SetIn(i, v, a, s, f) ==
  IF v = NullPointer /\ a[i] # NullPointer
  THEN /\ addr' = [a EXCEPT ![i] = NullPointer] /\ bits' = bits \ {i}
       /\ size' = s /\ number_free' = f + 1 /\ UNCHANGED lowest_free
  ELSE IF v # NullPointer /\ a[i] = NullPointer THEN Take(i, v, a, s, f, lowest_free)
  ELSE addr' = [a EXCEPT ![i] = v] /\ size' = s /\ number_free' = f /\ UNCHANGED <<bits, lowest_free>>
SetIn(i, v, a, s, f) ==
  IF v = NullPointer
  THEN IF a[i] # NullPointer
       THEN /\ addr' = [a EXCEPT ![i] = NullPointer] /\ bits' = bits \ {i}
            /\ size' = s /\ number_free' = f + 1
            /\ lowest_free' = IF i < lowest_free THEN i ELSE lowest_free
       ELSE addr' = a /\ size' = s /\ number_free' = f /\ UNCHANGED <<bits, lowest_free>>
  ELSE IF a[i] = NullPointer
       THEN Take(i, v, a, s, f, IF i = lowest_free
                                THEN FIND_FIRST_ZERO(i, bits \cup {i}, f - 1, s) ELSE lowest_free)
       ELSE addr' = [a EXCEPT ![i] = v] /\ size' = s /\ number_free' = f /\ UNCHANGED <<bits, lowest_free>>
set_item(i, v) ==
  /\ size <= i => MayGrow(i)
  /\ LET s == IF size <= i THEN NewSize(i) ELSE size IN
     SetIn(i, v, IF size <= i THEN Grown(i) ELSE addr, s, number_free + s - size)

\* test_and_set_item: only into a free slot.
TestIn(i, v, a, s, f) ==
  Take(i, v, a, s, f,
       IF f - 1 > 0 THEN IF i = lowest_free THEN FIND_FIRST_ZERO(i, bits \cup {i}, f - 1, s) ELSE lowest_free
       ELSE s)
test_and_set_item(i, v) ==
  /\ i < size => addr[i] = NullPointer
  /\ IF size <= i
     THEN MayGrow(i) /\ TestIn(i, v, Grown(i), NewSize(i), number_free + NewSize(i) - size)
     ELSE TestIn(i, v, addr, size, number_free)

set_size(n) ==
  /\ n > size /\ MayGrow(n)
  /\ addr' = Grown(n) /\ size' = NewSize(n) /\ number_free' = number_free + NewSize(n) - size
  /\ UNCHANGED <<bits, lowest_free>>

remove_all ==
  /\ number_free # size
  /\ addr' = [i \in 0..(size - 1) |-> NullPointer] /\ bits' = {}
  /\ number_free' = size /\ lowest_free' = 0 /\ UNCHANGED size

ArrayNext ==
  \/ \E p \in Pointers : add(p)
  \/ \E i \in 0..MaxIndex, v \in Pointers \cup {NullPointer} : set_item(i, v)
  \/ \E i \in 0..MaxIndex, v \in Pointers : test_and_set_item(i, v)
  \/ \E n \in 0..MaxIndex : set_size(n)
  \/ remove_all

ArraySpec == ArrayInit /\ [][ArrayNext]_arrayvars

\* ---- properties -----------------------------------------------------------------

FreeSlots == {i \in 0..(size - 1) : addr[i] = NullPointer}

PointersTyped ==
  /\ size \in Nat /\ number_free \in Nat /\ lowest_free \in Nat
  /\ addr \in [0..(size - 1) -> Pointers \cup {NullPointer}]
  /\ bits \subseteq 0..(size - 1)

\* The three records of what is free agree (pmix_pointer_array_validate): the bits
\* are those of the entries in use, number_free counts the others and lowest_free
\* is the first of them, or size when there is none.  add therefore never
\* overwrites an entry and returns the lowest index.
FreeListExact ==
  /\ bits = (0..(size - 1)) \ FreeSlots
  /\ number_free = Cardinality(FreeSlots)
  /\ lowest_free \in 0..size /\ \A i \in 0..(lowest_free - 1) : i \in bits
  /\ lowest_free < size => lowest_free \in FreeSlots

\* The array is well formed and its free list and counts describe it exactly.
PointersSound == PointersTyped /\ FreeListExact
=============================================================================
