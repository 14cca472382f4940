---------------------------- MODULE ClassProofs ----------------------------
(***************************************************************************)
(* Proofs about two classes of src/src/class: the hotel, with the cache of *)
(* notifications that is kept in one (NotifyCache), for any number of      *)
(* rooms and any occupants; and the pointer array, for any arguments of    *)
(* its init and any word size.                                             *)
(***************************************************************************)
EXTENDS NotifyCache, PointerArray, FiniteSetTheorems, WellFoundedInduction, TLAPS

\* StackIsEmptyRooms and TimerIffOccupied of a given hotel.
StackInv(h) ==
    /\ \A i, j \in Free(h) : h.unoccupied_rooms[i] = h.unoccupied_rooms[j] => i = j
    /\ \A r \in Rooms : h.rooms[r] = NULL <=>
          \E i \in Free(h) : h.unoccupied_rooms[i] = r

TimerInv(h) == \A r \in Rooms : r \in h.timers <=> h.rooms[r] # NULL

\* The inductive invariant: the three invariants of the run together.  None of
\* them is inductive alone: an eviction keeps the stack in its bounds only
\* because its room was occupied, which TimerIffOccupied says.
HotelInv(h) == h \in Hotels /\ StackInv(h) /\ TimerInv(h)

\* The fields of a hotel, once, for the provers.
LEMMA HotelFields ==
    ASSUME NEW h \in Hotels
    PROVE  /\ h.rooms \in [Rooms -> Occupants \cup {NULL}]
           /\ h.timers \in SUBSET Rooms
           /\ h.unoccupied_rooms \in [Rooms -> Rooms]
           /\ h.last_unoccupied_room \in Int
           /\ h.last_unoccupied_room >= -1
           /\ h.last_unoccupied_room <= num_rooms - 1
           /\ h = [rooms |-> h.rooms, timers |-> h.timers,
                   unoccupied_rooms |-> h.unoccupied_rooms,
                   last_unoccupied_room |-> h.last_unoccupied_room]
BY HotelAssumption DEF Hotels

\* While some room is occupied the stack is not full, so a checkout or an
\* eviction never pushes past the end of unoccupied_rooms (the asserts on
\* last_unoccupied_room in pmix_hotel_checkout and local_eviction_callback).
LEMMA StackNotFull ==
    ASSUME NEW h \in Hotels, StackInv(h), NEW r \in Rooms, h.rooms[r] # NULL
    PROVE  h.last_unoccupied_room + 1 \in Rooms
<1> USE HotelAssumption
<1>1. SUFFICES ASSUME h.last_unoccupied_room = num_rooms - 1
               PROVE  FALSE
  BY HotelFields DEF Rooms
<1>2. Free(h) = Rooms
  BY <1>1 DEF Free, Rooms
<1>3. IsFiniteSet(Rooms) /\ Cardinality(Rooms) = num_rooms
  BY FS_Interval DEF Rooms
<1>4. IsFiniteSet(Rooms \ {r}) /\ Cardinality(Rooms \ {r}) = num_rooms - 1
  BY <1>3, FS_RemoveElement
<1>5. \A i \in Rooms : h.unoccupied_rooms[i] \in Rooms \ {r}
  <2>1. \A i \in Rooms : h.unoccupied_rooms[i] \in Rooms
    BY DEF Hotels
  <2>2. \A i \in Rooms : h.unoccupied_rooms[i] # r
    BY <1>2 DEF StackInv
  <2> QED BY <2>1, <2>2
<1>6. h.unoccupied_rooms \in [Rooms -> Rooms \ {r}]
  BY <1>5 DEF Hotels
<1>7. PICK x, y \in Rooms : x # y /\ h.unoccupied_rooms[x] = h.unoccupied_rooms[y]
  BY <1>3, <1>4, <1>6, FS_PigeonHole, SMTT(30)
<1> QED BY <1>2, <1>7 DEF StackInv

\* pmix_hotel_checkin keeps the invariant, and fills an empty room.
LEMMA CheckinInv ==
    ASSUME NEW h, HotelInv(h), HasRoom(h), NEW o \in Occupants
    PROVE  /\ HotelInv(pmix_hotel_checkin(h, o))
           /\ h.rooms[NextRoom(h)] = NULL
           /\ NextRoom(h) \in Rooms
<1> USE HotelAssumption DEF HotelInv
<1> DEFINE k == h.last_unoccupied_room
           n == NextRoom(h)
           g == pmix_hotel_checkin(h, o)
<1>1. k \in Free(h) /\ k \in Rooms /\ Free(h) \subseteq Rooms
  BY DEF HasRoom, Hotels, Free, Rooms
<1>2. n \in Rooms /\ h.rooms[n] = NULL
  BY <1>1 DEF NextRoom, StackInv, Hotels
<1>3. /\ g \in Hotels
      /\ g.rooms = [h.rooms EXCEPT ![n] = o]
      /\ g.timers = h.timers \cup {n}
      /\ g.unoccupied_rooms = h.unoccupied_rooms
      /\ g.last_unoccupied_room = k - 1
  <2>1. g = [rooms |-> [h.rooms EXCEPT ![n] = o],
             timers |-> h.timers \cup {n},
             unoccupied_rooms |-> h.unoccupied_rooms,
             last_unoccupied_room |-> k - 1]
    BY HotelFields DEF pmix_hotel_checkin
  <2>2. [h.rooms EXCEPT ![n] = o] \in [Rooms -> Occupants \cup {NULL}]
    BY HotelFields, <1>2
  <2>3. k - 1 \in -1 .. (num_rooms - 1)
    BY HotelFields DEF HasRoom
  <2>4. h.timers \cup {n} \in SUBSET Rooms
    BY HotelFields, <1>2
  <2>5. h.unoccupied_rooms \in [Rooms -> Rooms]
    BY HotelFields
  <2> HIDE DEF g, k, n
  <2> QED BY <2>1, <2>2, <2>3, <2>4, <2>5 DEF Hotels
<1>4. Free(g) = Free(h) \ {k}
  BY <1>3, HotelFields DEF Free
<1>5. StackInv(g)
  <2>1. \A i, j \in Free(g) : g.unoccupied_rooms[i] = g.unoccupied_rooms[j] => i = j
    BY <1>3, <1>4 DEF StackInv
  <2>2. ASSUME NEW r \in Rooms
        PROVE  g.rooms[r] = NULL <=> \E i \in Free(g) : g.unoccupied_rooms[i] = r
    <3>1. CASE r = n
      <4>1. g.rooms[r] # NULL
        BY <1>3, <3>1 DEF Hotels
      <4>2. \A i \in Free(g) : g.unoccupied_rooms[i] # r
        BY <1>1, <1>3, <1>4, <3>1 DEF StackInv, NextRoom
      <4> QED BY <4>1, <4>2
    <3>2. CASE r # n
      <4>1. g.rooms[r] = h.rooms[r]
        BY <1>3, <3>2 DEF Hotels
      <4>2. \A i \in Free(h) : h.unoccupied_rooms[i] = r => i \in Free(g)
        BY <1>4, <3>2 DEF NextRoom
      <4> QED BY <4>1, <4>2, <1>3, <1>4 DEF StackInv
    <3> QED BY <3>1, <3>2
  <2> QED BY <2>1, <2>2 DEF StackInv
<1>6. TimerInv(g)
  BY <1>2, <1>3 DEF TimerInv, Hotels
<1> QED BY <1>2, <1>3, <1>5, <1>6

\* Vacating an occupied room keeps the invariant.
LEMMA VacateInv ==
    ASSUME NEW h, HotelInv(h), NEW r \in Rooms, h.rooms[r] # NULL
    PROVE  HotelInv(VacateRoom(h, r))
<1> USE HotelAssumption DEF HotelInv
<1> DEFINE k == h.last_unoccupied_room + 1
           g == VacateRoom(h, r)
<1>1. k \in Rooms
  BY StackNotFull
<1>2. /\ g \in Hotels
      /\ g.rooms = [h.rooms EXCEPT ![r] = NULL]
      /\ g.timers = h.timers \ {r}
      /\ g.unoccupied_rooms = [h.unoccupied_rooms EXCEPT ![k] = r]
      /\ g.last_unoccupied_room = k
  <2>1. g = [rooms |-> [h.rooms EXCEPT ![r] = NULL],
             timers |-> h.timers \ {r},
             unoccupied_rooms |-> [h.unoccupied_rooms EXCEPT ![k] = r],
             last_unoccupied_room |-> k]
    BY HotelFields DEF VacateRoom
  <2>2. [h.rooms EXCEPT ![r] = NULL] \in [Rooms -> Occupants \cup {NULL}]
    BY HotelFields
  <2>3. [h.unoccupied_rooms EXCEPT ![k] = r] \in [Rooms -> Rooms]
    BY HotelFields, <1>1
  <2>4. k \in -1 .. (num_rooms - 1)
    BY <1>1 DEF Rooms
  <2>5. h.timers \ {r} \in SUBSET Rooms
    BY HotelFields
  <2> HIDE DEF g, k
  <2> QED BY <2>1, <2>2, <2>3, <2>4, <2>5 DEF Hotels
<1>3. Free(g) = Free(h) \cup {k} /\ k \notin Free(h) /\ Free(g) \subseteq Rooms
  BY <1>1, <1>2, HotelFields DEF Free, Rooms
<1>4. /\ g.unoccupied_rooms[k] = r
      /\ \A i \in Free(h) : g.unoccupied_rooms[i] = h.unoccupied_rooms[i]
      /\ \A i \in Free(h) : h.unoccupied_rooms[i] # r
  BY <1>1, <1>2, <1>3 DEF Hotels, StackInv
<1>5. StackInv(g)
  <2>1. \A i, j \in Free(g) : g.unoccupied_rooms[i] = g.unoccupied_rooms[j] => i = j
    BY <1>3, <1>4 DEF StackInv
  <2>2. \A q \in Rooms : g.rooms[q] = NULL <=>
          \E i \in Free(g) : g.unoccupied_rooms[i] = q
    BY <1>2, <1>3, <1>4 DEF StackInv, Hotels
  <2> QED BY <2>1, <2>2 DEF StackInv
<1>6. TimerInv(g)
  BY <1>2 DEF TimerInv, Hotels
<1> QED BY <1>2, <1>5, <1>6

\* The invariant is inductive: one step per operation of the hotel.
LEMMA HotelInvInductive ==
    ASSUME HotelInv(hotel), [Next]_hotel
    PROVE  HotelInv(hotel')
<1>1. ASSUME NEW o \in Occupants, Checkin(o) PROVE HotelInv(hotel')
  BY <1>1, CheckinInv DEF Checkin
<1>2. ASSUME NEW r \in Rooms, Checkout(r) PROVE HotelInv(hotel')
  BY <1>2, VacateInv DEF Checkout, pmix_hotel_checkout
<1>3. ASSUME NEW r \in Rooms, Evict(r) PROVE HotelInv(hotel')
  BY <1>3, VacateInv DEF Evict, local_eviction_callback, HotelInv, TimerInv
<1>4. CASE UNCHANGED hotel
  BY <1>4
<1> QED BY <1>1, <1>2, <1>3, <1>4 DEF Next

\* A new hotel satisfies the invariant.
LEMMA HotelInvInit == HotelInv(pmix_hotel_init)
BY HotelAssumption
   DEF HotelInv, pmix_hotel_init, Hotels, Rooms, StackInv, TimerInv, Free

\* For every number of rooms and any calls: the stack of unoccupied rooms holds
\* exactly the empty rooms, and timers run exactly in the occupied ones.
THEOREM HotelSafety == Spec => [](TypeOK /\ RoomsSound)
<1>1. Init => HotelInv(hotel)
  BY HotelInvInit DEF Init
<1>2. HotelInv(hotel) /\ [Next]_hotel => HotelInv(hotel)'
  BY HotelInvInductive
<1>3. HotelInv(hotel) => TypeOK /\ RoomsSound
  BY DEF HotelInv, StackInv, TimerInv, TypeOK, RoomsSound, StackIsEmptyRooms, TimerIffOccupied
<1> QED BY <1>1, <1>2, <1>3, PTL DEF Spec

\* What one step does to a room, given the invariant.
LEMMA StepKeepsOccupants ==
    ASSUME HotelInv(hotel), [Next]_hotel, NEW r \in Rooms, hotel.rooms[r] # NULL
    PROVE  hotel'.rooms[r] \in {hotel.rooms[r], NULL}
<1>1. hotel.rooms \in [Rooms -> Occupants \cup {NULL}]
  BY HotelFields DEF HotelInv
<1>2. ASSUME NEW o \in Occupants, Checkin(o) PROVE hotel'.rooms[r] = hotel.rooms[r]
  <2>1. NextRoom(hotel) # r /\ NextRoom(hotel) \in Rooms
    BY <1>2, CheckinInv DEF Checkin
  <2>2. hotel'.rooms = [hotel.rooms EXCEPT ![NextRoom(hotel)] = o]
    BY <1>2 DEF Checkin, pmix_hotel_checkin
  <2> QED BY <1>1, <2>1, <2>2
<1>3. ASSUME NEW q \in Rooms, hotel' = VacateRoom(hotel, q)
      PROVE  hotel'.rooms[r] \in {hotel.rooms[r], NULL}
  <2>1. hotel'.rooms = [hotel.rooms EXCEPT ![q] = NULL]
    BY <1>3 DEF VacateRoom
  <2> QED BY <1>1, <2>1
<1> QED BY <1>2, <1>3
        DEF Next, Checkout, pmix_hotel_checkout, Evict, local_eviction_callback

\* checkin takes the top of the stack without looking into the room, and still
\* never replaces an occupant.
THEOREM HotelNoDoubleBooking == Spec => NoDoubleBooking
<1>1. Init => HotelInv(hotel)
  BY HotelInvInit DEF Init
<1>2. HotelInv(hotel) /\ [Next]_hotel => HotelInv(hotel)'
  BY HotelInvInductive
<1>3. HotelInv(hotel) /\ [Next]_hotel =>
        [\A r \in Rooms : hotel.rooms[r] # NULL =>
            hotel'.rooms[r] \in {hotel.rooms[r], NULL}]_hotel
  BY StepKeepsOccupants
<1> QED BY <1>1, <1>2, <1>3, PTL DEF Spec, NoDoubleBooking

-----------------------------------------------------------------------------
(* The cache of notifications *)

\* With no room left every room is occupied, and the room that is vacated is the
\* one the next checkin hands out.
LEMMA FullVacate ==
    ASSUME NEW h, HotelInv(h), ~HasRoom(h), NEW r \in Rooms
    PROVE  /\ h.rooms[r] # NULL
           /\ HasRoom(VacateRoom(h, r))
           /\ NextRoom(VacateRoom(h, r)) = r
<1> USE HotelAssumption
<1>1. /\ h.last_unoccupied_room \in Int /\ h.last_unoccupied_room = -1
      /\ h.unoccupied_rooms \in [Rooms -> Rooms]
  BY HotelFields DEF HotelInv, HasRoom
<1>2. Free(h) = {}
  BY <1>1 DEF Free
<1>3. h.rooms[r] # NULL
  BY <1>2 DEF HotelInv, StackInv
<1>4. /\ VacateRoom(h, r).last_unoccupied_room = 0
      /\ VacateRoom(h, r).unoccupied_rooms = [h.unoccupied_rooms EXCEPT ![0] = r]
  BY <1>1 DEF VacateRoom
<1>5. 0 \in Rooms
  BY DEF Rooms
<1> QED BY <1>1, <1>3, <1>4, <1>5 DEF HasRoom, NextRoom

\* notify_event_cache keeps the hotel sound, takes the new event in, and gives
\* up nothing while there is room, and the occupant of room 0 when there is not.
LEMMA CacheStep ==
    ASSUME NEW h, HotelInv(h), NEW o \in Occupants
    PROVE  /\ HotelInv(notify_event_cache(h, o))
           /\ o \in Residents(notify_event_cache(h, o))
           /\ Residents(h) \ Residents(notify_event_cache(h, o))
                 \subseteq (IF HasRoom(h) THEN {} ELSE {h.rooms[0]})
<1> USE HotelAssumption
<1>0. 0 \in Rooms /\ o # NULL
  BY DEF Rooms
<1>1. CASE HasRoom(h)
  <2> DEFINE g == pmix_hotel_checkin(h, o)
             n == NextRoom(h)
  <2>1. HotelInv(g) /\ h.rooms[n] = NULL /\ n \in Rooms
    BY <1>1, CheckinInv
  <2>2. g.rooms = [h.rooms EXCEPT ![n] = o] /\ h.rooms \in [Rooms -> Occupants \cup {NULL}]
    BY HotelFields DEF pmix_hotel_checkin, HotelInv
  <2>3. notify_event_cache(h, o) = g
    BY <1>1 DEF notify_event_cache
  <2> HIDE DEF g, n
  <2>4. o \in Residents(g)
    BY <1>0, <2>1, <2>2 DEF Residents
  <2>5. Residents(h) \subseteq Residents(g)
    BY <2>1, <2>2 DEF Residents
  <2> QED BY <1>1, <2>1, <2>3, <2>4, <2>5
<1>2. CASE ~HasRoom(h)
  <2> DEFINE k == VacateRoom(h, 0)
             g == pmix_hotel_checkin(k, o)
  <2>1. h.rooms[0] # NULL /\ HasRoom(k) /\ NextRoom(k) = 0
    BY <1>0, <1>2, FullVacate
  <2>2. HotelInv(k)
    BY <1>0, <2>1, VacateInv
  <2>3. notify_event_cache(h, o) = g
    BY <1>2, <2>1 DEF notify_event_cache, pmix_hotel_checkout
  <2>4. k.rooms = [h.rooms EXCEPT ![0] = NULL] /\ h.rooms \in [Rooms -> Occupants \cup {NULL}]
    BY HotelFields DEF VacateRoom, HotelInv
  <2> HIDE DEF k
  <2>5. HotelInv(g) /\ g.rooms = [k.rooms EXCEPT ![0] = o]
    BY <2>1, <2>2, CheckinInv DEF pmix_hotel_checkin
  <2> HIDE DEF g
  <2>6. \A r \in Rooms : g.rooms[r] = IF r = 0 THEN o ELSE h.rooms[r]
    BY <1>0, <2>4, <2>5
  <2>7. o \in Residents(g)
    BY <1>0, <2>6 DEF Residents
  <2>8. Residents(h) \ Residents(g) \subseteq {h.rooms[0]}
    BY <2>6 DEF Residents
  <2> QED BY <1>2, <2>3, <2>5, <2>7, <2>8
<1> QED BY <1>1, <1>2

\* Every step of the cache keeps the hotel sound.
LEMMA CacheInvInductive ==
    ASSUME HotelInv(hotel), [CacheNext]_cachevars
    PROVE  HotelInv(hotel')
<1>1. ASSUME NEW o \in Occupants, NotifyEventCache(o) PROVE HotelInv(hotel')
  BY <1>1, CacheStep DEF NotifyEventCache
<1>2. ASSUME NEW r \in Rooms, Evicted(r) PROVE HotelInv(hotel')
  BY <1>2, VacateInv DEF Evicted, Evict, local_eviction_callback, HotelInv, TimerInv
<1>3. CASE UNCHANGED cachevars
  BY <1>3 DEF cachevars
<1> QED BY <1>1, <1>2, <1>3 DEF CacheNext

\* What NewestCached says of a step.
LEMMA CacheKeepsNewest ==
    ASSUME HotelInv(hotel), CacheNext, newest' # NULL
    PROVE  /\ newest' \in Residents(hotel')
           /\ Cardinality(GivenUp) <= IF HasRoom(hotel) THEN 0 ELSE 1
<1>1. PICK o \in Occupants : NotifyEventCache(o)
  BY DEF CacheNext, Evicted
<1>2. newest' = o /\ hotel' = notify_event_cache(hotel, o)
  BY <1>1 DEF NotifyEventCache
<1>3. /\ o \in Residents(hotel')
      /\ GivenUp \subseteq (IF HasRoom(hotel) THEN {} ELSE {hotel.rooms[0]})
  BY <1>2, CacheStep DEF GivenUp
<1>4. Cardinality({}) = 0 /\ \A x : Cardinality({x}) = 1
  BY FS_EmptySet, FS_Singleton, Zenon
<1>5. GivenUp = {} \/ (~HasRoom(hotel) /\ GivenUp = {hotel.rooms[0]})
  BY <1>3
<1>6. Cardinality(GivenUp) = 0 \/ (~HasRoom(hotel) /\ Cardinality(GivenUp) = 1)
  BY <1>4, <1>5, Zenon
<1>7. Cardinality(GivenUp) <= IF HasRoom(hotel) THEN 0 ELSE 1
  BY <1>6
<1> QED BY <1>2, <1>3, <1>7

\* For every size of the hotel, whatever events are notified and whichever
\* timers fire: the cache loses no room (_notification_eviction_cbfunc), and
\* notify_event_cache always caches the new event, at the cost of at most one
\* other, and of none while there is room.
THEOREM CacheKeepsEvents == CacheSpec => CacheSound
<1>1. CacheInit => HotelInv(hotel)
  BY HotelInvInit DEF CacheInit, Init
<1>2. HotelInv(hotel) /\ [CacheNext]_cachevars => HotelInv(hotel)'
  BY CacheInvInductive
<1>3. HotelInv(hotel) => CacheRoomsSound
  BY DEF HotelInv, StackInv, TimerInv, CacheRoomsSound, RoomsSound, StackIsEmptyRooms, TimerIffOccupied
<1>4. HotelInv(hotel) /\ [CacheNext]_cachevars =>
        [newest' # NULL =>
           /\ newest' \in Residents(hotel')
           /\ Cardinality(GivenUp) <= IF HasRoom(hotel) THEN 0 ELSE 1]_cachevars
  BY CacheKeepsNewest
<1> QED BY <1>1, <1>2, <1>3, <1>4, PTL DEF CacheSpec, CacheSound, NewestCached

-----------------------------------------------------------------------------
(* Pointer arrays *)

Below == {p \in Nat \X Nat : p[1] < p[2]}

\* A set of numbers that is not empty has a least element.
LEMMA LeastNumber ==
    ASSUME NEW T \in SUBSET Nat, T # {}
    PROVE  \E n \in T : \A m \in T : n <= m
<1>1. IsWellFoundedOn(Below, Nat)
  BY NatLessThanWellFounded DEF OpToRel, Below
<1>2. PICK n \in T : \A m \in T : ~(<<m, n>> \in Below)
  BY <1>1, WFMin, Zenon
<1>3. ASSUME NEW m \in T PROVE n <= m
  <2>1. ~(<<m, n>> \in Below)
    BY <1>2, Zenon
  <2> QED BY <2>1 DEF Below
<1> QED BY <1>3, Zenon

\* The start of a word lies at or before each of its bits.
LEMMA WordStart ==
    ASSUME NEW i \in Nat
    PROVE  WordOf(i) \in 0 .. i
<1>1. i \div WordBits \in Nat /\ WordBits * (i \div WordBits) <= i /\ WordBits * (i \div WordBits) >= 0
  BY WordPositive, SMT
<1> QED BY <1>1, WordPositive DEF WordOf

\* A table that may grow has room for the index asked for.
LEMMA NewSizeExceeds ==
    ASSUME NEW n \in Nat, MayGrow(n)
    PROVE  NewSize(n) \in Nat /\ NewSize(n) > n
<1> DEFINE k == block_size * ((n + 1 + block_size - 1) \div block_size)
<1>1. k \in Nat /\ k > n
  BY InitArguments, SMT
<1>2. NewSize(n) = IF k >= max_size THEN max_size ELSE k
  BY Zenon DEF NewSize
<1> HIDE DEF k
<1> QED BY <1>1, <1>2, InitArguments DEF MayGrow

\* What PointersSound says of a table a of s entries, with the bits b, f free
\* slots and l the lowest of them.
Opens(a, s) == {i \in 0 .. (s - 1) : a[i] = NullPointer}
IsLowest(l, b, s) ==
    /\ l \in 0 .. s /\ \A i \in 0 .. (l - 1) : i \in b
    /\ l < s => l \notin b
Exact(a, b, s, f, l) ==
    /\ s \in Nat
    /\ a \in [0 .. (s - 1) -> Pointers \cup {NullPointer}]
    /\ b = (0 .. (s - 1)) \ Opens(a, s)
    /\ f = Cardinality(Opens(a, s))
    /\ IsLowest(l, b, s)

\* The inductive invariant, of the array itself.
ArrayInv == Exact(addr, bits, size, number_free, lowest_free)

\* The number of free slots is right, and there is none only if all are in use.
LEMMA OpensCounted ==
    ASSUME NEW s \in Nat, NEW a
    PROVE  /\ IsFiniteSet(Opens(a, s)) /\ Cardinality(Opens(a, s)) \in Nat
           /\ Cardinality(Opens(a, s)) = 0 <=> Opens(a, s) = {}
<1>1. IsFiniteSet(0 .. (s - 1)) /\ Opens(a, s) \subseteq 0 .. (s - 1)
  BY FS_Interval DEF Opens
<1>2. IsFiniteSet(Opens(a, s))
  BY <1>1, FS_Subset, Zenon
<1> QED BY <1>2, FS_CardinalityType, FS_EmptySet

\* FIND_FIRST_ZERO returns the lowest index that is not in use, when those before
\* the index it starts from are.
LEMMA FirstZero ==
    ASSUME NEW s \in Nat, NEW b \in SUBSET (0 .. (s - 1)), NEW l \in 0 .. s,
           \A i \in 0 .. (l - 1) : i \in b, NEW f, f # 0
    PROVE  IsLowest(FIND_FIRST_ZERO(l, b, f, s), b, s)
<1> DEFINE w == WordOf(l)
           T == {i \in w .. (s + WordBits) : i \notin b}
           Q(i) == i \notin b /\ \A j \in w .. (i - 1) : j \in b
<1>1. l \in Nat /\ w \in 0 .. l
  BY WordStart, SMT
<1> HIDE DEF w
<1>2. T \in SUBSET Nat /\ s \in T
  BY <1>1, WordPositive
<1>3. PICK n \in T : \A m \in T : n <= m
  BY <1>2, LeastNumber, Zenon
<1>4. n \in w .. (s + WordBits) /\ Q(n)
  BY <1>1, <1>3, WordPositive
<1>5. FIND_FIRST_ZERO(l, b, f, s) = CHOOSE i \in w .. (s + WordBits) : Q(i)
  BY Zenon DEF FIND_FIRST_ZERO, w
<1>6. PICK z \in w .. (s + WordBits) : z = FIND_FIRST_ZERO(l, b, f, s) /\ Q(z)
  BY <1>4, <1>5, Zenon
<1>7. z <= s
  BY <1>1, <1>6, WordPositive
<1>8. \A i \in 0 .. (z - 1) : i \in b
  BY <1>1, <1>6, WordPositive
<1>9. z \in 0 .. s
  BY <1>1, <1>6, <1>7, WordPositive
<1> QED BY <1>6, <1>8, <1>9 DEF IsLowest

\* A table that grows has its new slots free.
LEMMA GrowExact ==
    ASSUME NEW a, NEW b, NEW s, NEW f, NEW l, Exact(a, b, s, f, l), NEW n \in Nat, n >= s
    PROVE  Exact([i \in 0 .. (n - 1) |-> IF i < s THEN a[i] ELSE NullPointer], b, n, f + n - s, l)
<1> DEFINE g == [i \in 0 .. (n - 1) |-> IF i < s THEN a[i] ELSE NullPointer]
<1>1. s \in Nat /\ a \in [0 .. (s - 1) -> Pointers \cup {NullPointer}]
  BY DEF Exact
<1>2. g \in [0 .. (n - 1) -> Pointers \cup {NullPointer}]
  BY <1>1
<1>3. Opens(g, n) = Opens(a, s) \cup s .. (n - 1)
  BY <1>1 DEF Opens
<1>4. Opens(a, s) \cap s .. (n - 1) = {}
  BY <1>1 DEF Opens
<1> HIDE DEF g
<1>5. Cardinality(s .. (n - 1)) = n - s /\ IsFiniteSet(s .. (n - 1))
  BY <1>1, FS_Interval
<1>6. Cardinality(Opens(g, n)) = f + n - s
  <2>1. Cardinality(Opens(g, n)) = Cardinality(Opens(a, s)) + Cardinality(s .. (n - 1))
                                   - Cardinality(Opens(a, s) \cap s .. (n - 1))
    BY <1>1, <1>3, <1>5, OpensCounted, FS_Union, Zenon
  <2>2. Cardinality(Opens(a, s) \cap s .. (n - 1)) = 0
    BY <1>4, FS_EmptySet
  <2> QED BY <1>1, <1>5, <2>1, <2>2, OpensCounted DEF Exact
<1>7. b = (0 .. (n - 1)) \ Opens(g, n)
  BY <1>1, <1>3 DEF Exact
<1>8. IsLowest(l, b, n)
  BY <1>1 DEF Exact, IsLowest
<1> QED BY <1>2, <1>6, <1>7, <1>8, Zenon DEF Exact, g

\* A pointer that goes to a free slot takes it off the free ones.
LEMMA TakeExact ==
    ASSUME NEW a, NEW b, NEW s, NEW f, NEW l, Exact(a, b, s, f, l),
           NEW i \in 0 .. (s - 1), a[i] = NullPointer, NEW p \in Pointers,
           NEW k, IsLowest(k, b \cup {i}, s)
    PROVE  Exact([a EXCEPT ![i] = p], b \cup {i}, s, f - 1, k)
<1> DEFINE g == [a EXCEPT ![i] = p]
<1>1. s \in Nat /\ a \in [0 .. (s - 1) -> Pointers \cup {NullPointer}]
  BY DEF Exact
<1>2. g \in [0 .. (s - 1) -> Pointers \cup {NullPointer}]
  BY <1>1
<1>3. Opens(g, s) = Opens(a, s) \ {i} /\ i \in Opens(a, s)
  BY <1>1, NullIsNoPointer DEF Opens
<1> HIDE DEF g
<1>4. Cardinality(Opens(g, s)) = f - 1
  <2>1. Cardinality(Opens(a, s) \ {i}) = Cardinality(Opens(a, s)) - 1
    BY <1>1, <1>3, OpensCounted, FS_RemoveElement, Zenon
  <2> QED BY <1>3, <2>1, Zenon DEF Exact
<1>5. b \cup {i} = (0 .. (s - 1)) \ Opens(g, s)
  BY <1>1, <1>3 DEF Exact
<1> QED BY <1>1, <1>2, <1>4, <1>5, Zenon DEF Exact, g

\* A slot that is freed is the lowest, or the one that was remains it.
LEMMA FreeExact ==
    ASSUME NEW a, NEW b, NEW s, NEW f, NEW l, Exact(a, b, s, f, l),
           NEW i \in 0 .. (s - 1), a[i] # NullPointer
    PROVE  Exact([a EXCEPT ![i] = NullPointer], b \ {i}, s, f + 1, IF i < l THEN i ELSE l)
<1> DEFINE g == [a EXCEPT ![i] = NullPointer]
           k == IF i < l THEN i ELSE l
<1>1. s \in Nat /\ a \in [0 .. (s - 1) -> Pointers \cup {NullPointer}] /\ l \in 0 .. s
  BY DEF Exact, IsLowest
<1>2. g \in [0 .. (s - 1) -> Pointers \cup {NullPointer}]
  BY <1>1
<1>3. Opens(g, s) = Opens(a, s) \cup {i} /\ i \notin Opens(a, s)
  BY <1>1 DEF Opens
<1>4. IsLowest(k, b \ {i}, s)
  BY <1>1 DEF Exact, IsLowest
<1> HIDE DEF g, k
<1>5. Cardinality(Opens(g, s)) = f + 1
  <2>1. Cardinality(Opens(a, s) \cup {i}) = Cardinality(Opens(a, s)) + 1
    BY <1>1, <1>3, OpensCounted, FS_AddElement, Zenon
  <2> QED BY <1>3, <2>1, Zenon DEF Exact
<1>6. b \ {i} = (0 .. (s - 1)) \ Opens(g, s)
  BY <1>1, <1>3 DEF Exact
<1> QED BY <1>1, <1>2, <1>4, <1>5, <1>6, Zenon DEF Exact, g, k

\* Replacing a pointer changes nothing of what is free.
LEMMA ReplaceExact ==
    ASSUME NEW a, NEW b, NEW s, NEW f, NEW l, Exact(a, b, s, f, l),
           NEW i \in 0 .. (s - 1), a[i] # NullPointer, NEW p \in Pointers
    PROVE  Exact([a EXCEPT ![i] = p], b, s, f, l)
<1> DEFINE g == [a EXCEPT ![i] = p]
<1>1. s \in Nat /\ a \in [0 .. (s - 1) -> Pointers \cup {NullPointer}]
  BY DEF Exact
<1>2. g \in [0 .. (s - 1) -> Pointers \cup {NullPointer}]
  BY <1>1
<1>3. Opens(g, s) = Opens(a, s)
  BY <1>1, NullIsNoPointer DEF Opens
<1> HIDE DEF g
<1> QED BY <1>2, <1>3, Zenon DEF Exact, g

\* The lowest free slot after another one was taken: as it was, unless that was it.
LEMMA LowestTaken ==
    ASSUME NEW a, NEW b, NEW s, NEW f, NEW l, Exact(a, b, s, f, l),
           NEW i \in 0 .. (s - 1), a[i] = NullPointer
    PROVE  /\ i # l => IsLowest(l, b \cup {i}, s)
           /\ i = l /\ f - 1 # 0 => IsLowest(FIND_FIRST_ZERO(i, b \cup {i}, f - 1, s), b \cup {i}, s)
           /\ f - 1 = 0 => IsLowest(s, b \cup {i}, s)
           /\ f \in Nat \ {0}
<1>1. s \in Nat /\ l \in 0 .. s /\ b \in SUBSET (0 .. (s - 1)) /\ IsLowest(l, b, s)
  BY Zenon DEF Exact, IsLowest, Opens
<1>2. \A j \in 0 .. (l - 1) : j \in b \cup {i}
  BY <1>1, Zenon DEF IsLowest
<1>3. i # l => IsLowest(l, b \cup {i}, s)
  BY <1>1 DEF IsLowest
<1>4. i = l /\ f - 1 # 0 => IsLowest(FIND_FIRST_ZERO(i, b \cup {i}, f - 1, s), b \cup {i}, s)
  <2>1. b \cup {i} \in SUBSET (0 .. (s - 1))
    BY <1>1, Zenon
  <2> QED BY <1>1, <1>2, <2>1, FirstZero, Zenon
<1>5. i \in Opens(a, s)
  BY Zenon DEF Opens
<1>6. f \in Nat \ {0}
  BY <1>1, <1>5, OpensCounted, Zenon DEF Exact
<1>7. ASSUME f - 1 = 0 PROVE IsLowest(s, b \cup {i}, s)
  <2>1. Cardinality(Opens(a, s) \ {i}) = 0 /\ IsFiniteSet(Opens(a, s) \ {i})
    <3>1. Cardinality(Opens(a, s) \ {i}) = f - 1 /\ IsFiniteSet(Opens(a, s) \ {i})
      BY <1>1, <1>5, OpensCounted, FS_RemoveElement, Zenon DEF Exact
    <3> QED BY <1>7, <3>1, Zenon
  <2>2. Opens(a, s) \ {i} = {}
    BY <2>1, FS_EmptySet, Zenon
  <2>3. b \cup {i} = 0 .. (s - 1)
    BY <1>1, <2>2, Zenon DEF Exact
  <2> QED BY <1>1, <2>3 DEF IsLowest
<1> QED BY <1>3, <1>4, <1>6, <1>7, Zenon

\* A slot is set in a table that is exact.
LEMMA SetInExact ==
    ASSUME NEW a, NEW s, NEW f, Exact(a, bits, s, f, lowest_free),
           NEW i \in 0 .. (s - 1), NEW v \in Pointers \cup {NullPointer},
           SetIn(i, v, a, s, f)
    PROVE  Exact(addr', bits', size', number_free', lowest_free')
<1>1. CASE v = NullPointer /\ a[i] # NullPointer
  <2>1. /\ addr' = [a EXCEPT ![i] = NullPointer] /\ bits' = bits \ {i} /\ size' = s
        /\ number_free' = f + 1 /\ lowest_free' = IF i < lowest_free THEN i ELSE lowest_free
    BY <1>1, Zenon DEF SetIn
  <2> QED BY <1>1, <2>1, FreeExact, Zenon
<1>2. CASE v = NullPointer /\ a[i] = NullPointer
  BY <1>2, Zenon DEF SetIn
<1>3. CASE v # NullPointer /\ a[i] # NullPointer
  <2>1. /\ addr' = [a EXCEPT ![i] = v] /\ bits' = bits /\ size' = s
        /\ number_free' = f /\ lowest_free' = lowest_free
    BY <1>3, Zenon DEF SetIn
  <2>2. v \in Pointers
    BY <1>3, Zenon
  <2> QED BY <1>3, <2>1, <2>2, ReplaceExact, Zenon
<1>4. CASE v # NullPointer /\ a[i] = NullPointer
  <2> DEFINE k == IF i = lowest_free THEN FIND_FIRST_ZERO(i, bits \cup {i}, f - 1, s) ELSE lowest_free
  <2>1. /\ addr' = [a EXCEPT ![i] = v] /\ bits' = bits \cup {i} /\ size' = s
        /\ number_free' = f - 1 /\ lowest_free' = k
    BY <1>4, Zenon DEF SetIn, Take
  <2>2. v \in Pointers
    BY <1>4, Zenon
  <2>3. IsLowest(k, bits \cup {i}, s)
    <3>1. CASE i # lowest_free
      BY <1>4, <3>1, LowestTaken, Zenon
    <3>2. CASE i = lowest_free /\ f - 1 # 0
      BY <1>4, <3>2, LowestTaken, Zenon
    <3>3. CASE i = lowest_free /\ f - 1 = 0
      <4>1. k = s
        BY <3>3, Zenon DEF FIND_FIRST_ZERO
      <4>2. IsLowest(s, bits \cup {i}, s)
        BY <1>4, <3>3, LowestTaken, Zenon
      <4> QED BY <4>1, <4>2, Zenon
    <3> QED BY <3>1, <3>2, <3>3, Zenon
  <2> HIDE DEF k
  <2> QED BY <1>4, <2>1, <2>2, <2>3, TakeExact, Zenon
<1> QED BY <1>1, <1>2, <1>3, <1>4, Zenon

\* A free slot of an exact table is tested and set.
LEMMA TestInExact ==
    ASSUME NEW a, NEW s, NEW f, Exact(a, bits, s, f, lowest_free),
           NEW i \in 0 .. (s - 1), a[i] = NullPointer, NEW v \in Pointers,
           TestIn(i, v, a, s, f)
    PROVE  Exact(addr', bits', size', number_free', lowest_free')
<1> DEFINE k == IF f - 1 > 0 THEN IF i = lowest_free THEN FIND_FIRST_ZERO(i, bits \cup {i}, f - 1, s)
                                  ELSE lowest_free
                ELSE s
<1>1. /\ addr' = [a EXCEPT ![i] = v] /\ bits' = bits \cup {i} /\ size' = s
      /\ number_free' = f - 1 /\ lowest_free' = k
  BY Zenon DEF TestIn, Take
<1>2. IsLowest(k, bits \cup {i}, s)
  <2>1. f - 1 > 0 => f - 1 # 0
    OBVIOUS
  <2>2. f \in Nat \ {0}
    BY LowestTaken, Zenon
  <2>3. ~(f - 1 > 0) => f - 1 = 0
    BY <2>2
  <2> QED BY <2>1, <2>3, LowestTaken, Zenon
<1> HIDE DEF k
<1> QED BY <1>1, <1>2, TakeExact, Zenon

\* A table without entries is exact.
LEMMA EmptyExact ==
    ASSUME NEW n \in Nat
    PROVE  Exact([i \in 0 .. (n - 1) |-> NullPointer], {}, n, n, 0)
<1> DEFINE g == [i \in 0 .. (n - 1) |-> NullPointer]
<1>1. g \in [0 .. (n - 1) -> Pointers \cup {NullPointer}] /\ Opens(g, n) = 0 .. (n - 1)
  BY DEF Opens
<1>2. Cardinality(0 .. (n - 1)) = n
  BY FS_Interval
<1>3. IsLowest(0, {}, n)
  BY DEF IsLowest
<1> QED BY <1>1, <1>2, <1>3, Zenon DEF Exact

\* Every call keeps the array exact.
LEMMA ArrayNextExact ==
    ASSUME Exact(addr, bits, size, number_free, lowest_free), ArrayNext
    PROVE  Exact(addr', bits', size', number_free', lowest_free')
<1>1. size \in Nat /\ lowest_free \in Nat /\ lowest_free <= size
  BY DEF Exact, IsLowest
<1>2. ASSUME NEW n \in Nat, n >= size, MayGrow(n)
      PROVE  /\ NewSize(n) \in Nat /\ NewSize(n) > n
             /\ Exact(Grown(n), bits, NewSize(n), number_free + NewSize(n) - size, lowest_free)
  <2>1. NewSize(n) \in Nat /\ NewSize(n) > n
    BY <1>2, NewSizeExceeds, Zenon
  <2>2. NewSize(n) >= size
    BY <1>1, <1>2, <2>1
  <2> QED BY <2>1, <2>2, GrowExact, Zenon DEF Grown
<1>3. ASSUME NEW p \in Pointers, add(p)
      PROVE  Exact(addr', bits', size', number_free', lowest_free')
  <2>1. CASE number_free = 0
    <3> DEFINE s == NewSize(size + 1)
               g == Grown(size + 1)
               f == s - size
               b == bits \cup {lowest_free}
               k == IF f - 1 > 0 THEN FIND_FIRST_ZERO(lowest_free, b, f - 1, s) ELSE s
    <3>1. /\ MayGrow(size + 1)
          /\ addr' = [g EXCEPT ![lowest_free] = p] /\ bits' = bits \cup {lowest_free} /\ size' = s
          /\ number_free' = f - 1 /\ lowest_free' = k
      BY <1>3, <2>1, Zenon DEF add, Take
    <3>2. s \in Nat /\ s > size + 1 /\ Exact(g, bits, s, number_free + s - size, lowest_free)
      BY <1>1, <1>2, <3>1
    <3>3. number_free + s - size = f
      BY <1>1, <2>1, <3>2
    <3>4. lowest_free \in 0 .. (s - 1) /\ g[lowest_free] = NullPointer
      <4>1. lowest_free \in 0 .. (s - 1) /\ lowest_free < s
        BY <1>1, <3>2
      <4>2. lowest_free \notin bits
        BY <3>2, <4>1, Zenon DEF Exact, IsLowest
      <4> QED BY <3>2, <4>1, <4>2, Zenon DEF Exact, Opens
    <3>5. Exact(g, bits, s, f, lowest_free)
      BY <3>2, <3>3, Zenon
    <3> HIDE DEF g, s, f
    <3>6. IsLowest(k, b, s)
      <4>1. f - 1 > 0 => f - 1 # 0
        OBVIOUS
      <4>2. f \in Nat \ {0}
        BY <3>4, <3>5, LowestTaken, Zenon
      <4>3. ~(f - 1 > 0) => f - 1 = 0
        BY <4>2
      <4> QED BY <3>4, <3>5, <4>1, <4>3, LowestTaken, Zenon
    <3> HIDE DEF k
    <3> QED BY <1>3, <3>1, <3>4, <3>5, <3>6, TakeExact, Zenon
  <2>2. CASE number_free # 0
    <3> DEFINE b == bits \cup {lowest_free}
               k == IF number_free - 1 > 0 THEN FIND_FIRST_ZERO(lowest_free, b, number_free - 1, size)
                    ELSE size
    <3>1. /\ addr' = [addr EXCEPT ![lowest_free] = p] /\ bits' = bits \cup {lowest_free}
          /\ size' = size /\ number_free' = number_free - 1 /\ lowest_free' = k
      BY <1>3, <2>2, Zenon DEF add, Take
    <3>2. lowest_free \in 0 .. (size - 1) /\ addr[lowest_free] = NullPointer
      <4>1. PICK i \in 0 .. (size - 1) : i \in Opens(addr, size)
        <5>1. Opens(addr, size) # {}
          BY <1>1, <2>2, OpensCounted, Zenon DEF Exact
        <5> QED BY <5>1, Zenon DEF Opens
      <4>2. lowest_free # size
        BY <1>1, <4>1 DEF Exact, IsLowest
      <4>3. lowest_free \in 0 .. (size - 1) /\ lowest_free < size
        BY <1>1, <4>2
      <4> QED BY <4>3, Zenon DEF Exact, IsLowest, Opens
    <3>3. IsLowest(k, b, size)
      <4>1. number_free - 1 > 0 => number_free - 1 # 0
        OBVIOUS
      <4>2. number_free \in Nat \ {0}
        BY <3>2, LowestTaken, Zenon
      <4>3. ~(number_free - 1 > 0) => number_free - 1 = 0
        BY <4>2
      <4> QED BY <3>2, <4>1, <4>3, LowestTaken, Zenon
    <3> HIDE DEF k
    <3> QED BY <1>3, <3>1, <3>2, <3>3, TakeExact, Zenon
  <2> QED BY <2>1, <2>2, Zenon
<1>4. ASSUME NEW i \in 0 .. MaxIndex, NEW v \in Pointers \cup {NullPointer}, set_item(i, v)
      PROVE  Exact(addr', bits', size', number_free', lowest_free')
  <2>1. i \in Nat
    BY IndexNatural
  <2>2. CASE size <= i
    <3>1. MayGrow(i) /\ SetIn(i, v, Grown(i), NewSize(i), number_free + NewSize(i) - size)
      BY <1>4, <2>2, Zenon DEF set_item
    <3>2. /\ NewSize(i) \in Nat /\ NewSize(i) > i
          /\ Exact(Grown(i), bits, NewSize(i), number_free + NewSize(i) - size, lowest_free)
      BY <1>1, <1>2, <2>1, <2>2, <3>1
    <3>3. i \in 0 .. (NewSize(i) - 1)
      BY <2>1, <3>2
    <3> QED BY <3>1, <3>2, <3>3, SetInExact, Zenon
  <2>3. CASE ~(size <= i)
    <3>1. SetIn(i, v, addr, size, number_free + size - size)
      BY <1>4, <2>3, Zenon DEF set_item
    <3>2. number_free + size - size = number_free /\ i \in 0 .. (size - 1)
      <4>1. number_free \in Nat
        BY <1>1, OpensCounted, Zenon DEF Exact
      <4> QED BY <1>1, <2>1, <2>3, <4>1
    <3> QED BY <3>1, <3>2, SetInExact, Zenon
  <2> QED BY <2>2, <2>3, Zenon
<1>5. ASSUME NEW i \in 0 .. MaxIndex, NEW v \in Pointers, test_and_set_item(i, v)
      PROVE  Exact(addr', bits', size', number_free', lowest_free')
  <2>1. i \in Nat
    BY IndexNatural
  <2>2. CASE size <= i
    <3>1. MayGrow(i) /\ TestIn(i, v, Grown(i), NewSize(i), number_free + NewSize(i) - size)
      BY <1>5, <2>2, Zenon DEF test_and_set_item
    <3>2. /\ NewSize(i) \in Nat /\ NewSize(i) > i
          /\ Exact(Grown(i), bits, NewSize(i), number_free + NewSize(i) - size, lowest_free)
      BY <1>1, <1>2, <2>1, <2>2, <3>1
    <3>3. i \in 0 .. (NewSize(i) - 1)
      BY <2>1, <3>2
    <3>4. Grown(i)[i] = NullPointer
      BY <1>1, <2>1, <2>2, <3>3 DEF Grown
    <3> QED BY <3>1, <3>2, <3>3, <3>4, TestInExact, Zenon
  <2>3. CASE ~(size <= i)
    <3>1. TestIn(i, v, addr, size, number_free)
      BY <1>5, <2>3, Zenon DEF test_and_set_item
    <3>2. i \in 0 .. (size - 1) /\ i < size
      BY <1>1, <2>1, <2>3
    <3>3. addr[i] = NullPointer
      BY <1>5, <3>2, Zenon DEF test_and_set_item
    <3> QED BY <3>1, <3>2, <3>3, TestInExact, Zenon
  <2> QED BY <2>2, <2>3, Zenon
<1>6. ASSUME NEW n \in 0 .. MaxIndex, set_size(n)
      PROVE  Exact(addr', bits', size', number_free', lowest_free')
  <2>1. n \in Nat /\ n >= size /\ MayGrow(n)
    BY <1>1, <1>6, IndexNatural DEF set_size
  <2>2. Exact(Grown(n), bits, NewSize(n), number_free + NewSize(n) - size, lowest_free)
    BY <1>2, <2>1, Zenon
  <2> QED BY <1>6, <2>2, Zenon DEF set_size
<1>7. ASSUME remove_all
      PROVE  Exact(addr', bits', size', number_free', lowest_free')
  BY <1>1, <1>7, EmptyExact, Zenon DEF remove_all
<1> QED BY <1>3, <1>4, <1>5, <1>6, <1>7, Zenon DEF ArrayNext

\* The invariant is what TLC checks.
LEMMA ExactArray == ArrayInv => PointersSound
<1>1. Opens(addr, size) = FreeSlots
  BY Zenon DEF Opens, FreeSlots
<1>2. SUFFICES ASSUME Exact(addr, bits, size, number_free, lowest_free) PROVE PointersSound
  BY Zenon DEF ArrayInv
<1>3. IsFiniteSet(0 .. (size - 1)) /\ FreeSlots \subseteq 0 .. (size - 1)
  BY <1>2, FS_Interval DEF Exact, FreeSlots
<1>4. number_free \in Nat
  BY <1>1, <1>2, <1>3, FS_Subset, FS_CardinalityType DEF Exact
<1>5. lowest_free < size => lowest_free \in FreeSlots
  BY <1>1, <1>2 DEF Exact, IsLowest
<1> QED BY <1>1, <1>2, <1>4, <1>5 DEF PointersSound, PointersTyped, FreeListExact, Exact, IsLowest

\* The free bits, the number of free slots and the lowest free index describe the
\* table exactly, whatever is added, set, tested, removed or grown, for every word
\* size and every size of the table (pmix_pointer_array_validate).
THEOREM PointerArrayExact == ArraySpec => []PointersSound
<1>1. ASSUME ArrayInit PROVE ArrayInv
  <2> DEFINE n == IF initial_allocation > 0 THEN initial_allocation ELSE block_size
             g == [i \in 0 .. (n - 1) |-> NullPointer]
  <2>1. n \in Nat
    BY InitArguments
  <2>2. addr = g /\ bits = {} /\ size = n /\ number_free = n /\ lowest_free = 0
    BY <1>1, Zenon DEF ArrayInit
  <2> HIDE DEF n
  <2> QED BY <2>1, <2>2, EmptyExact, Zenon DEF ArrayInv
<1>2. ASSUME ArrayInv, [ArrayNext]_arrayvars PROVE ArrayInv'
  <2>1. CASE ArrayNext
    BY <1>2, <2>1, ArrayNextExact, Zenon DEF ArrayInv
  <2>2. CASE UNCHANGED arrayvars
    BY <1>2, <2>2, Zenon DEF arrayvars, ArrayInv
  <2> QED BY <1>2, <2>1, <2>2, Zenon
<1> QED BY <1>1, <1>2, ExactArray, PTL DEF ArraySpec
=============================================================================
