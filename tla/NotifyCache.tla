---------------------------- MODULE NotifyCache ----------------------------
(***************************************************************************)
(* pmix_globals.notifications: the hotel in which a process keeps the      *)
(* events it was notified of, for handlers registered later                *)
(* (notify_event_cache in src/src/event/pmix_event_notification.c).  A     *)
(* room is vacated by its eviction timer or, when the hotel is full, for   *)
(* the next event.                                                         *)
(***************************************************************************)
EXTENDS Hotel

\* Mutant: the result of the eviction is taken for the result of the checkin.
Mut_cache_evict_only(h, cd) ==
    IF HasRoom(h) THEN pmix_hotel_checkin(h, cd)
    ELSE pmix_hotel_checkout(h, 0)

\* With no room left the loop compares the age of the NEW event with itself in
\* every room, so that the index it ends with is always that of room 0.
notify_event_cache(h, cd) ==
    IF HasRoom(h) THEN pmix_hotel_checkin(h, cd)
    ELSE pmix_hotel_checkin(pmix_hotel_checkout(h, 0), cd)

-----------------------------------------------------------------------------
(* The cache used by any sequence of notifications.                        *)

VARIABLES
    newest,     \* the event the last step cached, NULL when it evicted one
    before      \* before[o]: the cached events that were cached before o

cachevars == <<hotel, newest, before>>

CacheInit == Init /\ newest = NULL /\ before = << >>

Residents(h) == {h.rooms[r] : r \in Rooms} \ {NULL}

NotifyEventCache(o) ==
    /\ o \notin Residents(hotel)
    /\ hotel' = notify_event_cache(hotel, o)
    /\ newest' = o
    /\ before' = [x \in Residents(hotel') |->
          (IF x = o THEN Residents(hotel) ELSE before[x]) \cap Residents(hotel')]

\* _notification_eviction_cbfunc, run by the room's timer.
Evicted(r) ==
    /\ Evict(r)
    /\ newest' = NULL
    /\ before' = [x \in Residents(hotel') |-> before[x] \cap Residents(hotel')]

CacheNext ==
    \/ \E o \in Occupants : NotifyEventCache(o)
    \/ \E r \in Rooms : Evicted(r)

CacheSpec == CacheInit /\ [][CacheNext]_cachevars

-----------------------------------------------------------------------------
(* Properties *)

\* What the cache gave up in a step.
GivenUp == Residents(hotel) \ Residents(hotel')

\* notify_event_cache always finds room for the new event, and to make room it
\* gives up at most one cached event, only when the hotel is full.
NewestCached ==
    [][newest' # NULL =>
         /\ newest' \in Residents(hotel')
         /\ Cardinality(GivenUp) <= IF HasRoom(hotel) THEN 0 ELSE 1]_cachevars

\* The rooms stay consistent when an occupant is turned out for another one:
\* no room is lost or handed out twice, and every cached event has its timer.
CacheRoomsSound == RoomsSound

\* A full cache takes the newest event in, gives up at most one, and loses no room.
CacheSound == []CacheRoomsSound /\ NewestCached

\* "search for the longest tenured occupant and evict them": the event given up
\* when the hotel is full is the one cached longest.
EvictsOldest ==
    [][newest' # NULL /\ ~HasRoom(hotel) =>
         GivenUp = {o \in Residents(hotel) : before[o] = {}}]_cachevars

=============================================================================
