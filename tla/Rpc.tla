-------------------------------- MODULE Rpc --------------------------------
(***************************************************************************)
(* What the message layer promises the caller of a non-blocking operation: *)
(* a call made while the client is connected is answered once, by the      *)
(* answer to that call, unless the connection is lost first; from then on  *)
(* calls are refused and no further answer comes.                          *)
(***************************************************************************)
CONSTANT Calls
VARIABLES st, up

vars == <<st, up>>

Init == st = [c \in Calls |-> "idle"] /\ up = TRUE

Ask(c) ==
    /\ st[c] = "idle"
    /\ st' = [st EXCEPT ![c] = IF up THEN "waiting" ELSE "refused"]
    /\ UNCHANGED up

Answered(c) ==
    /\ up /\ st[c] = "waiting"
    /\ st' = [st EXCEPT ![c] = "answered"]
    /\ UNCHANGED up

\* The calls that have reached the message layer are told of the loss.
Lost ==
    /\ up /\ up' = FALSE
    /\ \E told \in SUBSET {c \in Calls : st[c] = "waiting"} :
         st' = [c \in Calls |-> IF c \in told THEN "lost" ELSE st[c]]

Next == Lost \/ \E c \in Calls : Ask(c) \/ Answered(c)

Spec == Init /\ [][Next]_vars

=============================================================================
