----------------------------- MODULE HashTable ------------------------------
(***************************************************************************)
(* pmix_hash_table_t: open addressing with linear probing, removal that       *)
(* re-inserts the followers, growth when the table is half full.  There is    *)
(* one set of functions for each type of key; they differ in how a key is     *)
(* hashed.  A table is used with one type of key until it is emptied with     *)
(* remove_all.  `map' is what the table should hold.                         *)
(***************************************************************************)
EXTENDS Integers, Sequences, FiniteSets

CONSTANTS
  Keys,          \* uint32 and uint64 keys: sequences of one number
  PtrKeys,       \* keys of several bytes: sequences of numbers
  Values,
  Granule,       \* capacities are 1 more than a multiple of it (30)
  HASH_MULTIPLIER,
  InitialSize,   \* table_size of pmix_hash_table_init
  MaxSize,       \* bound on the entries
  MaxFails       \* bound on the allocations that fail

VARIABLES
  table,    \* 0..capacity-1 -> element
  size, trigger,
  methods,  \* ht_type_methods: "none" or a type of key
  rc,       \* result of the last call: its code and, of a get, the value
  fails,
  map

vars == <<table, size, trigger, methods, rc, fails, map>>

Free == [valid |-> FALSE]
capacity == Cardinality(DOMAIN table)

round_capacity_up(n) == ((n + Granule - 1) \div Granule) * Granule + 1
\* init: density 1/2, growth 2/1.
density(n) == n \div 2
growth(n) == 2 * n
Init ==
  LET c == round_capacity_up(2 * InitialSize) IN
  /\ table = [i \in 0..(c - 1) |-> Free]
  /\ size = 0 /\ trigger = density(c) /\ methods = "none"
  /\ rc = <<"SUCCESS">> /\ fails = 0
  /\ map = [k \in {} |-> 0]

hash_elt_uint32(k) == k[1]
hash_elt_uint64(k) == k[1]
RECURSIVE hash_key_ptr(_)
hash_key_ptr(k) ==
  IF k = <<>> THEN 0
  ELSE (HASH_MULTIPLIER * hash_key_ptr(SubSeq(k, 1, Len(k) - 1)) + k[Len(k)]) % 2^20
Hash(type, k) == CASE type = "uint32" -> hash_elt_uint32(k) [] type = "uint64" -> hash_elt_uint64(k)
                   [] type = "ptr" -> hash_key_ptr(k)
KeysOf(type) == IF type = "ptr" THEN PtrKeys ELSE Keys
Usable(type) == methods \in {"none", type}

\* Where the probe for k stops: at its element or at the first free one.  A probe
\* of a full table for a key that is not there does not stop.
Slots(t, h) == [d \in 0..(Cardinality(DOMAIN t) - 1) |-> (h + d) % Cardinality(DOMAIN t)]
Stops(t, h, k) == {d \in DOMAIN Slots(t, h) :
                     ~t[Slots(t, h)[d]].valid \/ t[Slots(t, h)[d]].key = k}
Probe(t, h, k) == Slots(t, h)[CHOOSE d \in Stops(t, h, k) : \A e \in Stops(t, h, k) : d <= e]
Place(t, type, e) == [t EXCEPT ![Probe(t, Hash(type, e.key), e.key)] = e]

get_value(type, k) ==
  /\ Usable(type) /\ Stops(table, Hash(type, k), k) # {}
  /\ LET e == table[Probe(table, Hash(type, k), k)] IN
     rc' = IF e.valid THEN <<"SUCCESS", e.value>> ELSE <<"NOT_FOUND">>
  /\ methods' = type
  /\ UNCHANGED <<table, size, trigger, fails, map>>

\* grow: every element into a table of the next capacity, in the order of the old one.
RECURSIVE Rehash(_, _, _)
Rehash(old, type, new) ==
  IF old = <<>> THEN new
  ELSE Rehash(Tail(old), type, IF Head(old).valid THEN Place(new, type, Head(old)) ELSE new)
pmix_hash_grow(t, type) ==
  LET c == Cardinality(DOMAIN t)
      n == round_capacity_up(growth(c))
  IN Rehash([i \in 1..c |-> t[i - 1]], type, [i \in 0..(n - 1) |-> Free])

SetValue(k, v) == [x \in DOMAIN map \cup {k} |-> IF x = k THEN v ELSE map[x]]
set_value(type, k, v) ==
  /\ Usable(type) /\ Stops(table, Hash(type, k), k) # {}
  /\ methods' = type /\ map' = SetValue(k, v)
  /\ LET at == Probe(table, Hash(type, k), k)
         t == [table EXCEPT ![at] = [valid |-> TRUE, key |-> k, value |-> v]]
         big == size + 1 >= trigger
     IN IF table[at].valid
        THEN /\ table' = t /\ rc' = <<"SUCCESS">>
             /\ UNCHANGED <<size, trigger, fails>>
        ELSE /\ size < MaxSize /\ size' = size + 1
             /\ \/ ~big /\ table' = t /\ rc' = <<"SUCCESS">> /\ UNCHANGED <<trigger, fails>>
                \/ /\ big /\ table' = pmix_hash_grow(t, type) /\ rc' = <<"SUCCESS">>
                   /\ trigger' = density(Cardinality(DOMAIN table')) /\ UNCHANGED fails
                \/ /\ big /\ fails < MaxFails /\ fails' = fails + 1
                   /\ table' = t /\ rc' = <<"OUT_OF_RESOURCE">> /\ UNCHANGED trigger

\* Mutant: the followers stay where they are.
Mut_remove_no_rehash(type, i) == [table EXCEPT ![i] = Free]
\* remove_elt_at: free element i, then each follower up to the next free element
\* moves to where a probe for it now stops.
RECURSIVE Close(_, _, _)
Close(t, type, i) ==
  LET e == t[i]
      without == [t EXCEPT ![i] = Free]
  IN IF ~e.valid THEN t
     ELSE Close(Place(without, type, e), type, (i + 1) % Cardinality(DOMAIN t))
remove_elt_at(type, i) == Close([table EXCEPT ![i] = Free], type, (i + 1) % capacity)

remove_value(type, k) ==
  /\ Usable(type) /\ Stops(table, Hash(type, k), k) # {}
  /\ methods' = type
  /\ LET at == Probe(table, Hash(type, k), k) IN
     IF table[at].valid
     THEN /\ table' = remove_elt_at(type, at) /\ size' = size - 1
          /\ map' = [x \in DOMAIN map \ {k} |-> map[x]]
          /\ rc' = <<"SUCCESS">>
     ELSE rc' = <<"NOT_FOUND">> /\ UNCHANGED <<table, size, map>>
  /\ UNCHANGED <<trigger, fails>>

remove_all ==
  /\ table' = [i \in DOMAIN table |-> Free]
  /\ size' = 0 /\ methods' = "none" /\ map' = [k \in {} |-> 0]
  /\ rc' = <<"SUCCESS">>
  /\ UNCHANGED <<trigger, fails>>

\* The same code for each type of key.
get_value_uint32(k) == get_value("uint32", k)
get_value_uint64(k) == get_value("uint64", k)
get_value_ptr(k) == get_value("ptr", k)
set_value_uint32(k, v) == set_value("uint32", k, v)
set_value_uint64(k, v) == set_value("uint64", k, v)
set_value_ptr(k, v) == set_value("ptr", k, v)
remove_value_uint32(k) == remove_value("uint32", k)
remove_value_uint64(k) == remove_value("uint64", k)
remove_value_ptr(k) == remove_value("ptr", k)

Next ==
  \/ \E k \in Keys :
       \/ get_value_uint32(k) \/ remove_value_uint32(k) \/ \E v \in Values : set_value_uint32(k, v)
       \/ get_value_uint64(k) \/ remove_value_uint64(k) \/ \E v \in Values : set_value_uint64(k, v)
  \/ \E k \in PtrKeys : get_value_ptr(k) \/ remove_value_ptr(k) \/ \E v \in Values : set_value_ptr(k, v)
  \/ remove_all

Spec == Init /\ [][Next]_vars

\* ---- properties -----------------------------------------------------------------

\* Every key is found with the value last set for it, and a key that was removed
\* or never set is not found, however set, remove and growth moved the elements
\* of a chain (remove_elt_at, pmix_hash_grow); the table counts what it holds.
HashIsMap ==
  /\ size = Cardinality(DOMAIN map)
  /\ methods # "none" =>
       \A k \in KeysOf(methods) :
         LET h == Hash(methods, k)
             e == table[Probe(table, h, k)]
         IN Stops(table, h, k) # {} =>
              (e.valid <=> k \in DOMAIN map) /\ (e.valid => e.value = map[k])

\* A probe ends: there is always a free element, so that the loops of get, set
\* and remove over a key that is not there stop, even when the table could not
\* be grown as often as MaxFails says.
ProbeEnds == \E i \in DOMAIN table : ~table[i].valid
=============================================================================
