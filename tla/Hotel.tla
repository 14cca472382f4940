------------------------------- MODULE Hotel -------------------------------
(***************************************************************************)
(* pmix_hotel_t (src/src/class/pmix_hotel.[ch]): a fixed number of rooms,  *)
(* each with an eviction timer, and a stack of the unoccupied room         *)
(* numbers.  The server keeps cached event notifications and cached IO in  *)
(* hotels.                                                                 *)
(*                                                                         *)
(* A hotel is a record, and each operation of the class an operator from   *)
(* hotel to hotel, so that modules which do several hotel operations in    *)
(* one handler can compose them.                                           *)
(***************************************************************************)
EXTENDS Integers, FiniteSets

CONSTANTS
    num_rooms,      \* rooms in the hotel
    Occupants,      \* what may be checked in (opaque pointers)
    NULL            \* the null pointer

ASSUME HotelAssumption ==
    /\ num_rooms \in Nat \ {0}
    /\ NULL \notin Occupants

Rooms == 0 .. (num_rooms - 1)

Hotels == [rooms : [Rooms -> Occupants \cup {NULL}],
           timers : SUBSET Rooms,
           unoccupied_rooms : [Rooms -> Rooms],
           last_unoccupied_room : -1 .. (num_rooms - 1)]

pmix_hotel_init ==
    [rooms |-> [r \in Rooms |-> NULL],
     timers |-> {},
     unoccupied_rooms |-> [i \in Rooms |-> i],
     last_unoccupied_room |-> num_rooms - 1]

HasRoom(h) == h.last_unoccupied_room >= 0

\* The room the next checkin hands out: the top of the stack.
NextRoom(h) == h.unoccupied_rooms[h.last_unoccupied_room]

\* Mutant: the stack index is not decremented after the pop.
Mut_checkin_no_pop(h, o) ==
    [h EXCEPT !.rooms[NextRoom(h)] = o, !.timers = @ \cup {NextRoom(h)}]

\* pmix_hotel_checkin with a room available: pop it, occupy it, arm its timer.
pmix_hotel_checkin(h, o) ==
    [rooms |-> [h.rooms EXCEPT ![NextRoom(h)] = o],
     timers |-> h.timers \cup {NextRoom(h)},
     unoccupied_rooms |-> h.unoccupied_rooms,
     last_unoccupied_room |-> h.last_unoccupied_room - 1]

\* Push the room back; shared by the two checkouts and the eviction.
VacateRoom(h, r) ==
    [rooms |-> [h.rooms EXCEPT ![r] = NULL],
     timers |-> h.timers \ {r},
     unoccupied_rooms |-> [h.unoccupied_rooms EXCEPT ![h.last_unoccupied_room + 1] = r],
     last_unoccupied_room |-> h.last_unoccupied_room + 1]

\* pmix_hotel_checkout, pmix_hotel_checkout_and_return_occupant: a checkout of
\* an empty room does nothing.
pmix_hotel_checkout(h, r) ==
    IF h.rooms[r] # NULL THEN VacateRoom(h, r) ELSE h

\* local_eviction_callback does not look whether the room is occupied: it runs
\* only when the room's timer fires.
local_eviction_callback(h, r) == VacateRoom(h, r)

pmix_hotel_knock(h, r) == h.rooms[r]

pmix_hotel_is_empty(h) == h.last_unoccupied_room = num_rooms - 1

-----------------------------------------------------------------------------
(* The hotel used by any sequence of legal calls.                          *)

VARIABLE hotel

Init == hotel = pmix_hotel_init

Checkin(o) ==
    /\ HasRoom(hotel)
    /\ hotel' = pmix_hotel_checkin(hotel, o)

Checkout(r) == hotel' = pmix_hotel_checkout(hotel, r)

Evict(r) ==
    /\ r \in hotel.timers
    /\ hotel' = local_eviction_callback(hotel, r)

Next ==
    \/ \E o \in Occupants : Checkin(o)
    \/ \E r \in Rooms : Checkout(r)
    \/ \E r \in Rooms : Evict(r)

Spec == Init /\ [][Next]_hotel

-----------------------------------------------------------------------------
(* Properties *)

\* Types of the variables; the index of the stack of free rooms stays within the
\* array (the asserts of pmix_hotel_checkout).
TypeOK == hotel \in Hotels

\* The slots of unoccupied_rooms that are on the stack.
Free(h) == 0 .. h.last_unoccupied_room

\* The stack of unoccupied rooms holds each empty room exactly once and no
\* occupied one.  checkin takes the top of the stack without looking into the
\* room, so this is what keeps it from overwriting an occupant (the assert of
\* pmix_hotel_checkin_with_res) and from losing rooms.
StackIsEmptyRooms ==
    /\ \A i, j \in Free(hotel) :
          hotel.unoccupied_rooms[i] = hotel.unoccupied_rooms[j] => i = j
    /\ \A r \in Rooms : hotel.rooms[r] = NULL <=>
          \E i \in Free(hotel) : hotel.unoccupied_rooms[i] = r

\* A room's eviction timer is armed exactly while the room is occupied, so an
\* eviction never vacates an empty room (local_eviction_callback does not test
\* the occupant) and no occupant outstays its time.
TimerIffOccupied ==
    \A r \in Rooms : r \in hotel.timers <=> hotel.rooms[r] # NULL

\* Rooms are neither lost nor handed out twice, whatever the order of checkins,
\* checkouts and evictions.
RoomsSound == StackIsEmptyRooms /\ TimerIffOccupied

\* No step replaces an occupant by another one: a room is vacated before it is
\* given away again.
NoDoubleBooking ==
    [][\A r \in Rooms : hotel.rooms[r] # NULL =>
          hotel'.rooms[r] \in {hotel.rooms[r], NULL}]_hotel

=============================================================================
