------------------------------- MODULE RWLock --------------------------------
(***************************************************************************)
(* What the data store asks of a session's lock: readers share it, the       *)
(* server has it alone.  The lock of gds/ds12 is this lock: one               *)
(* pthread_rwlock_t in shared memory, or a lock on a file.                   *)
(***************************************************************************)
EXTENDS FiniteSets

CONSTANT Readers
VARIABLES readers, writer

Init == readers = {} /\ writer = FALSE
rd_get(t) == ~writer /\ t \notin readers /\ readers' = readers \cup {t} /\ UNCHANGED writer
rd_rel(t) == t \in readers /\ readers' = readers \ {t} /\ UNCHANGED writer
wr_get == ~writer /\ readers = {} /\ writer' = TRUE /\ UNCHANGED readers
wr_rel == writer /\ writer' = FALSE /\ UNCHANGED readers
Next == wr_get \/ wr_rel \/ \E t \in Readers : rd_get(t) \/ rd_rel(t)
Spec == Init /\ [][Next]_<<readers, writer>>
=============================================================================
