--------------------------- MODULE MCServerFaults ---------------------------
(***************************************************************************)
(* The server, for TLC: one part per behaviour.  In "fences" (the constants *)
(* of Collectives itself) nothing goes wrong.  In "refused" the host         *)
(* refuses operations, job information is missing and nspaces are known     *)
(* before they are registered.  In "timed" the timers of fences fire.  In   *)
(* "lost" processes that wait alone are lost at any time, and the host may  *)
(* answer or drop the operation.  In                                        *)
(* "modex" a job is registered late, or never, and clients that wait for    *)
(* its data time out, finalize or are lost, while the host refuses or has   *)
(* no data; "job info" is another instance of it.                           *)
(***************************************************************************)
EXTENDS Collectives, TLC

CONSTANTS
    A, B, C,                        \* jobs; C has no process on this node
    Parts,                          \* the behaviours to run
    t1, t2, t3, t4,                 \* trackers
    l1, l2,                         \* pmix_dmdx_local_t objects
    HOST, NONE,
    TimedFaults                     \* what goes wrong beside the timers

Proc(n, r) == [ns |-> n, rank |-> r]

AllOf(n) == Proc(n, WILDCARD)

A1 == {Proc(A, 0)}
A2 == {Proc(A, 0), Proc(A, 1)}
A3 == A2 \cup {Proc(A, 2)}
A1B1 == A1 \cup {Proc(B, 0)}
A2B1 == A2 \cup {Proc(B, 0)}

\* One job, two jobs in either order of the array, two overlapping groups.
OverA == {<<AllOf(A)>>}
OverAB == {<<AllOf(A), Proc(B, 0)>>, <<Proc(B, 0), AllOf(A)>>}
OverAorAB == {<<AllOf(A)>>} \cup OverAB
EachAlone == {<<AllOf(A), AllOf(C)>>, <<AllOf(B)>>}
RefusedSigs == {<<AllOf(A), AllOf(C)>>, <<AllOf(A), AllOf(B)>>}

VARIABLES part,
          knspaces, knlocalprocs, kall_registered, kranks, kgone, kcalls, kcollectives, ktrk, kheld,
          kshifted, kreplies,
          mnspaces, mnlocalprocs, mall_registered, mranks, clients, mgone, committed, local, remote,
          job_info, local_reqs, lcd, asked, mshifted, remote_pnd, waiting, answers
faulty == <<knspaces, knlocalprocs, kall_registered, kranks, kgone, kcalls, kcollectives, ktrk, kheld,
            kshifted, kreplies>>
modex == <<mnspaces, mnlocalprocs, mall_registered, mranks, clients, mgone, committed, local, remote,
           job_info, local_reqs, lcd, asked, mshifted, remote_pnd, waiting, answers>>

L == INSTANCE Collectives WITH
        Nspaces <- {A, B, C}, LocalProcs <- A1B1, Registered0 <- A1B1, Signatures <- EachAlone,
        Types <- {"fence", "connect"}, TimedTypes <- {}, Trackers <- {t1, t2, t3, t4}, Faults <- {"lost"},
        nspaces <- knspaces, nlocalprocs <- knlocalprocs, all_registered <- kall_registered,
        ranks <- kranks, gone <- kgone, calls <- kcalls, collectives <- kcollectives, trk <- ktrk,
        held <- kheld, shifted <- kshifted, replies <- kreplies

R == INSTANCE Collectives WITH
        Nspaces <- {A, B, C}, LocalProcs <- A1B1, Registered0 <- A1B1, Signatures <- RefusedSigs,
        Types <- {"fence", "connect"}, TimedTypes <- {}, Trackers <- {t1, t2},
        Faults <- {"reject", "noinfo", "landing"},
        nspaces <- knspaces, nlocalprocs <- knlocalprocs, all_registered <- kall_registered,
        ranks <- kranks, gone <- kgone, calls <- kcalls, collectives <- kcollectives, trk <- ktrk,
        held <- kheld, shifted <- kshifted, replies <- kreplies

T == INSTANCE Collectives WITH
        Nspaces <- {A, B, C}, LocalProcs <- A1B1, Registered0 <- A1B1, Signatures <- RefusedSigs,
        Types <- {"fence"}, TimedTypes <- {"fence"}, Trackers <- {t1, t2}, Faults <- TimedFaults,
        nspaces <- knspaces, nlocalprocs <- knlocalprocs, all_registered <- kall_registered,
        ranks <- kranks, gone <- kgone, calls <- kcalls, collectives <- kcollectives, trk <- ktrk,
        held <- kheld, shifted <- kshifted, replies <- kreplies

X == INSTANCE DirectModex WITH
        LocalProcs <- A1B1 \cup {Proc(B, 1)}, Registered0 <- A1, Nspaces <- {A, B}, Known0 <- {A},
        Targets <- {Proc(B, 0)}, HostTargets <- {Proc(B, 0)}, Immediate <- {FALSE},
        Timed <- {TRUE}, Scopes <- {"local"}, HostReplies <- {"nodata"}, MaxPending <- 1,
        Lcds <- {l1, l2}, Events <- {"lost", "finalize", "refuse"},
        nspaces <- mnspaces, nlocalprocs <- mnlocalprocs, all_registered <- mall_registered,
        ranks <- mranks, gone <- mgone, shifted <- mshifted

\* As X, with one local process of B, whose job-level information is asked for as well.
J == INSTANCE DirectModex WITH
        LocalProcs <- A1B1, Registered0 <- A1, Nspaces <- {A, B}, Known0 <- {A},
        Targets <- {Proc(B, 0), AllOf(B)}, HostTargets <- {Proc(B, 0)}, Immediate <- {FALSE},
        Timed <- {TRUE}, Scopes <- {"local"}, HostReplies <- {"nodata"}, MaxPending <- 1,
        Lcds <- {l1, l2}, Events <- {"lost", "finalize", "refuse"},
        nspaces <- mnspaces, nlocalprocs <- mnlocalprocs, all_registered <- mall_registered,
        ranks <- mranks, gone <- mgone, shifted <- mshifted

FaultsInit ==
    /\ part \in Parts
    /\ Init
    /\ IF part = "lost" THEN L!Init ELSE R!Init
    /\ IF part = "job info" THEN J!Init ELSE X!Init

FaultsNext ==
    \/ part = "fences" /\ Next /\ UNCHANGED <<part, faulty, modex>>
    \/ part = "lost" /\ L!Next /\ UNCHANGED <<part, vars, modex>>
    \/ part = "refused" /\ R!Next /\ UNCHANGED <<part, vars, modex>>
    \/ part = "timed" /\ T!Next /\ UNCHANGED <<part, vars, modex>>
    \/ part = "modex" /\ X!Next /\ UNCHANGED <<part, vars, faulty>>
    \/ part = "job info" /\ J!Next /\ UNCHANGED <<part, vars, faulty>>

FaultsSpec == FaultsInit /\ [][FaultsNext]_<<part, vars, faulty, modex>>

FaultsSymmetry == Permutations({t1, t2}) \cup Permutations({t3, t4}) \cup Permutations({l1, l2})

-----------------------------------------------------------------------------
(* The properties; each is documented in Collectives or DirectModex.       *)

\* Collectives: trackers are freed when nobody refers to them, and not before, when
\* the host refuses operations; when a process that waits alone is lost; and with
\* timers, until two callbacks come to one tracker, which only a fired timer causes.
FaultsTrackersSound ==
    /\ part = "lost" => L!TrackersSound
    /\ part = "refused" => R!TrackersSound
    /\ part = "timed" => T!TimedTrackersSound
\* Collectives: an answer is sent to a process that waits for it, with refusals and
\* with timers, where a second callback runs on the freed tracker.
FaultsAnswersAwaited == R!AnswersAwaited
\* Collectives: a queued event finds its tracker alive.
FaultsQueueSound == T!QueueSound
\* DirectModex: a waiting process has a request that can be found, and requests
\* keep what they refer to.
RequestsCounted == IF part = "job info" THEN J!RequestsCounted ELSE X!RequestsCounted
=============================================================================
