------------------------------- MODULE Lists -------------------------------
(***************************************************************************)
(* pmix_list_t: doubly linked lists through a sentinel, as the pointer        *)
(* assignments of pmix_list.[ch] make them.  A list and its sentinel are one  *)
(* node here.  The ghost `seq' is what the documentation says each list       *)
(* holds, updated by operations on sequences.                                *)
(***************************************************************************)
EXTENDS Integers, Sequences, FiniteSets, SequencesExt

CONSTANTS Items, ListHeads,
          MaxTwice       \* bound on the items that are counted twice

Nodes == Items \cup ListHeads

VARIABLES
  nxt, prv,      \* pmix_list_next and pmix_list_prev of every node
  len,           \* pmix_list_length of every list
  seq,           \* ghost: what each list should hold
  twice,         \* ghost: how many items of each list pmix_list_insert counted twice
  astray         \* an operation took a sentinel for an item

vars == <<nxt, prv, len, seq, twice, astray>>

\* pmix_list_construct, and pmix_list_item_construct (an item on no list is linked
\* to itself here; its pointers are NULL or stale and never followed).
Init ==
  /\ nxt = [n \in Nodes |-> n] /\ prv = [n \in Nodes |-> n]
  /\ len = [l \in ListHeads |-> 0] /\ seq = [l \in ListHeads |-> <<>>]
  /\ twice = [l \in ListHeads |-> 0] /\ astray = FALSE

OnNoList(i) == \A l \in ListHeads : ~Contains(seq[l], i)
\* Where an item, or the end of the list, stands in a list's sequence.
Place(l, n) == IF n = l THEN Len(seq[l]) + 1 ELSE CHOOSE k \in 1..Len(seq[l]) : seq[l][k] = n
Positions(l) == {l} \cup ToSet(seq[l])

\* item goes between before and after, in the order in which the code assigns.
Link(item, before, after) ==
  /\ nxt' = [nxt EXCEPT ![item] = after, ![before] = item]
  /\ prv' = [prv EXCEPT ![item] = before, ![after] = item]

pmix_list_append(l, i) ==
  /\ OnNoList(i)
  /\ Link(i, prv[l], l)
  /\ len' = [len EXCEPT ![l] = @ + 1]
  /\ UNCHANGED <<twice, astray>>
  /\ seq' = [seq EXCEPT ![l] = Append(@, i)]

pmix_list_prepend(l, i) ==
  /\ OnNoList(i)
  /\ Link(i, l, nxt[l])
  /\ len' = [len EXCEPT ![l] = @ + 1]
  /\ UNCHANGED <<twice, astray>>
  /\ seq' = [seq EXCEPT ![l] = <<i>> \o @]

pmix_list_insert_pos(l, pos, i) ==
  /\ OnNoList(i)
  /\ Link(i, prv[pos], pos)
  /\ len' = [len EXCEPT ![l] = @ + 1]
  /\ UNCHANGED <<twice, astray>>
  /\ seq' = [seq EXCEPT ![l] = InsertAt(@, Place(l, pos), i)]

\* The node reached from n by k next pointers.
RECURSIVE Walk(_, _)
Walk(n, k) == IF k = 0 THEN n ELSE Walk(nxt[n], k - 1)

\* Index 0 is left to pmix_list_prepend, which counts the item, and then counted
\* again.
pmix_list_insert(l, i, idx) ==
  /\ OnNoList(i)
  /\ idx < len[l]
  /\ LET ptr == IF idx = 0 THEN l ELSE Walk(nxt[l], idx - 1) IN Link(i, ptr, nxt[ptr])
  /\ idx = 0 => FoldFunction(+, 0, twice) < MaxTwice
  /\ len' = [len EXCEPT ![l] = IF idx = 0 THEN @ + 2 ELSE @ + 1]
  /\ twice' = [twice EXCEPT ![l] = IF idx = 0 THEN @ + 1 ELSE @]
  /\ seq' = [seq EXCEPT ![l] = InsertAt(@, idx + 1, i)]
  /\ UNCHANGED astray

Unlink(i) ==
  /\ nxt' = [nxt EXCEPT ![prv[i]] = nxt[i]]
  /\ prv' = [prv EXCEPT ![nxt[i]] = prv[i]]

pmix_list_remove_item(l, i) ==
  /\ Contains(seq[l], i)
  /\ Unlink(i)
  /\ len' = [len EXCEPT ![l] = @ - 1]
  /\ UNCHANGED <<twice, astray>>
  /\ seq' = [seq EXCEPT ![l] = RemoveAt(@, Place(l, i))]

pmix_list_remove_first(l) ==
  /\ len[l] # 0 /\ seq[l] # <<>>
  /\ LET item == nxt[l] IN
     /\ prv' = [prv EXCEPT ![nxt[item]] = prv[item]]
     /\ nxt' = [nxt EXCEPT ![l] = nxt[item]]
  /\ len' = [len EXCEPT ![l] = @ - 1]
  /\ UNCHANGED <<twice, astray>>
  /\ seq' = [seq EXCEPT ![l] = Tail(@)]

pmix_list_remove_last(l) ==
  /\ len[l] # 0 /\ seq[l] # <<>>
  /\ LET item == prv[l] IN
     /\ nxt' = [nxt EXCEPT ![prv[item]] = nxt[item]]
     /\ prv' = [prv EXCEPT ![l] = prv[item]]
  /\ len' = [len EXCEPT ![l] = @ - 1]
  /\ UNCHANGED <<twice, astray>>
  /\ seq' = [seq EXCEPT ![l] = Front(@)]

\* pmix_list_transfer: [begin, end) goes before pos.  Each assignment reads what
\* the ones before it wrote.
pmix_list_transfer(pos, begin, end) ==
  LET n1 == [nxt EXCEPT ![prv[end]] = pos]
      n2 == [n1 EXCEPT ![prv[begin]] = end]
      n3 == [n2 EXCEPT ![prv[pos]] = begin]
      tmp == prv[pos]
      p1 == [prv EXCEPT ![pos] = prv[end]]
      p2 == [p1 EXCEPT ![end] = p1[begin]]
      p3 == [p2 EXCEPT ![begin] = tmp]
  IN IF pos # end THEN nxt' = n3 /\ prv' = p3 ELSE UNCHANGED <<nxt, prv>>

\* What moving the items f..(t - 1) of x before the place k of l leaves.
Moved(l, k, x, f, t) ==
  LET part == SubSeq(seq[x], f, t - 1)
      rest == SubSeq(seq[x], 1, f - 1) \o SubSeq(seq[x], t, Len(seq[x]))
      at == IF l = x /\ k >= t THEN k - Len(part) ELSE k
      into == IF l = x THEN rest ELSE seq[l]
  IN [seq EXCEPT ![x] = rest,
                 ![l] = SubSeq(into, 1, at - 1) \o part \o SubSeq(into, at, Len(into))]

pmix_list_join(l, pos, x) ==
  /\ l # x /\ len[x] # 0 /\ seq[x] # <<>>
  /\ pmix_list_transfer(pos, nxt[x], x)
  /\ twice' = [twice EXCEPT ![l] = @ + twice[x], ![x] = 0] /\ UNCHANGED astray
  /\ len' = [len EXCEPT ![l] = @ + len[x], ![x] = 0]
  /\ seq' = Moved(l, Place(l, pos), x, 1, Len(seq[x]) + 1)

\* The callers' side of the contract: [first, last) is a range of x and pos is not
\* in it; both lists may be one.
pmix_list_splice(l, pos, x, first, last) ==
  /\ first # last /\ Place(x, first) < Place(x, last)
  /\ l = x => ~(Place(x, first) <= Place(x, pos) /\ Place(x, pos) < Place(x, last))
  /\ pmix_list_transfer(pos, first, last)
  /\ LET change == CHOOSE k \in 1..Cardinality(Items) :
                     Walk(first, k) = last /\ \A j \in 1..(k - 1) : Walk(first, j) # last
         grown == [len EXCEPT ![l] = @ + change]
     IN len' = [grown EXCEPT ![x] = @ - change]
  /\ UNCHANGED <<twice, astray>>
  /\ seq' = Moved(l, Place(l, pos), x, Place(x, first), Place(x, last))

\* pmix_list_sort: every item is taken off, the array sorted (Items are numbers)
\* and the items appended again.
pmix_list_sort(l) ==
  /\ len[l] # 0 /\ twice[l] = 0
  /\ UNCHANGED <<twice, astray>>
  /\ LET items == SortSeq([k \in 1..len[l] |-> Walk(l, k)], LAMBDA a, b : a < b)
         ring == <<l>> \o items
         Pos(n) == CHOOSE k \in 1..Len(ring) : ring[k] = n
     IN /\ nxt' = [n \in Nodes |-> IF Contains(ring, n)
                                   THEN IF Pos(n) = Len(ring) THEN l ELSE ring[Pos(n) + 1] ELSE nxt[n]]
        /\ prv' = [n \in Nodes |-> IF Contains(ring, n)
                                   THEN IF Pos(n) = 1 THEN Last(ring) ELSE ring[Pos(n) - 1] ELSE prv[n]]
        /\ len' = [len EXCEPT ![l] = Len(items)]
  /\ seq' = [seq EXCEPT ![l] = SortSeq(@, LAMBDA a, b : a < b)]

\* PMIX_LIST_DESTRUCT: the items are taken off one by one and released.
PMIX_LIST_DESTRUCT(l) ==
  /\ len[l] # 0 /\ twice[l] = 0
  /\ UNCHANGED <<twice, astray>>
  /\ nxt' = [nxt EXCEPT ![l] = l] /\ prv' = [prv EXCEPT ![l] = l]
  /\ len' = [len EXCEPT ![l] = 0] /\ seq' = [seq EXCEPT ![l] = <<>>]

\* A list with an item counted twice is longer than its chain.  The operations that
\* trust the length take the sentinel for an item: remove_first, remove_last and
\* join when the chain is empty, sort and PMIX_LIST_DESTRUCT, which go on until the
\* length is 0, always.  Nothing is said of the lists from there on.
TakesSentinel(l) ==
  /\ twice[l] > 0
  /\ astray' = TRUE
  /\ UNCHANGED <<nxt, prv, len, seq, twice>>

Next == ~astray /\
  \E l \in ListHeads :
    \/ \E i \in Items : pmix_list_append(l, i) \/ pmix_list_prepend(l, i) \/ pmix_list_remove_item(l, i)
    \/ \E i \in Items, pos \in Positions(l) : pmix_list_insert_pos(l, pos, i)
    \/ \E i \in Items, idx \in 0..Cardinality(Items) : pmix_list_insert(l, i, idx)
    \/ pmix_list_remove_first(l) \/ pmix_list_remove_last(l)
    \/ \E x \in ListHeads, pos \in Positions(l) :
         \/ pmix_list_join(l, pos, x)
         \/ \E first, last \in Positions(x) : pmix_list_splice(l, pos, x, first, last)
    \/ pmix_list_sort(l)
    \/ PMIX_LIST_DESTRUCT(l)
    \/ TakesSentinel(l)

Spec == Init /\ [][Next]_vars

\* ---- properties -----------------------------------------------------------------

\* Every list, walked forwards and walked backwards from its sentinel, visits
\* exactly the items its operations were documented to leave on it, in order, and
\* ends back at the sentinel: no operation, a splice within one list included,
\* loses an item or closes a ring without the sentinel.
ChainsAreSequences ==
  \A l \in ListHeads :
    LET ring == <<l>> \o seq[l] \o <<l>> IN
    \A k \in 1..(Len(ring) - 1) : nxt[ring[k]] = ring[k + 1] /\ prv[ring[k + 1]] = ring[k]

\* pmix_list_length, which remove_first, sort and the join trust instead of the
\* chain, counts the items on the chain, and those inserted at index 0 twice.  No
\* operation takes a sentinel for an item unless such an item was inserted.
LengthsCount ==
  /\ \A l \in ListHeads : len[l] = Len(seq[l]) + twice[l]
  /\ astray => \E l \in ListHeads : twice[l] > 0

\* The length counts the items.  Does not hold after pmix_list_insert at index 0.
LengthsRight == \A l \in ListHeads : len[l] = Len(seq[l])
=============================================================================
