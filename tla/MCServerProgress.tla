-------------------------- MODULE MCServerProgress --------------------------
(***************************************************************************)
(* Every call is answered, for TLC: jobs A and B, one part per behaviour.    *)
(* In "modex" (the constants of DirectModex itself) clients of one job ask  *)
(* for a process of another one, which may be registered late,              *)
(* and for one on another node (DirectModex).  In "late" the second client *)
(* of one job, and the only one of another, are registered after the first *)
(* collective calls (Collectives).  Nothing is lost.                       *)
(***************************************************************************)
EXTENDS DirectModex

CONSTANTS
    A, B,                           \* jobs
    Parts,                          \* the behaviours to run, of "modex" and "late"
    t1, t2, t3                      \* trackers

Proc(n, r) == [ns |-> n, rank |-> r]

A0 == Proc(A, 0)
B0 == Proc(B, 0)
B1 == Proc(B, 1)

A1Only == {A0}
A1B1 == {A0, B0}

\* With B0 the only local process of B, B1 is one of another node.
LocalAndRemote == {B0, B1}
JobInfoOfB == {Proc(B, WILDCARD)}
OnlyB0 == {B0}

\* Where both parts are run, DirectModex is in its undisturbed setting.
ASSUME ProgressSetting == "late" \in Parts => Quiet

VARIABLES
    part,
    knspaces, knlocalprocs, kall_registered, kranks, kgone, calls, collectives, trk, held,
    kshifted, replies

kvars == <<knspaces, knlocalprocs, kall_registered, kranks, kgone, calls, collectives, trk,
           held, kshifted, replies>>

A2B1 == {A0, Proc(A, 1), B0}

\* All of job A and a process of job B on another node.
AandRemoteB == <<Proc(A, WILDCARD), Proc(B, 1)>>

K == INSTANCE Collectives WITH
        LocalProcs <- A2B1, Registered0 <- {A0}, Nspaces <- {A, B},
        Signatures <- {AandRemoteB}, Types <- {"fence", "disconnect"},
        TimedTypes <- {}, CollectDirectives <- {TRUE}, HostStatus <- {"SUCCESS"},
        Trackers <- {t1, t2, t3}, Faults <- {},
        nspaces <- knspaces, nlocalprocs <- knlocalprocs, all_registered <- kall_registered,
        ranks <- kranks, gone <- kgone, shifted <- kshifted

ProgressInit == part \in Parts /\ Init /\ K!Init

ProgressNext ==
    \/ part = "modex" /\ Next /\ UNCHANGED <<part, kvars>>
    \/ part = "late" /\ K!Next /\ UNCHANGED <<part, vars>>

\* The fairness of the two modules, asked of the part that runs.
Modex(action) == part = "modex" /\ action
Late(action) == part = "late" /\ action

ProgressSpec ==
    /\ ProgressInit
    /\ [][ProgressNext]_<<part, vars, kvars>>
    /\ WF_vars(Modex(_process_dmdx_reply))
    /\ \A l \in Lcds : WF_vars(Modex(\E h \in HostReplies : dmdx_cbfunc(l, h)))
    /\ \A p \in LocalProcs : /\ WF_vars(Modex(_register_client(p)))
                             /\ WF_vars(Modex(Connect(p)))
                             /\ WF_vars(Modex(FirstCommit(p)))
    /\ WF_kvars(Late(K!EventLoop))
    /\ \A t \in {t1, t2, t3} : WF_kvars(Late(K!HostCallback(t, "SUCCESS")))
    /\ \A p \in A2B1 : /\ WF_kvars(Late(K!_register_client(p)))
                       /\ \A type \in {"fence", "disconnect"} :
                             WF_kvars(Late(K!Joins(p, type, AandRemoteB)))

-----------------------------------------------------------------------------
(* The properties of Collectives; each is documented where it is defined.  *)

\* Collectives: the host is called when every local participant has called.
UpcallOnlyWhenAll == K!UpcallOnlyWhenAll
\* Collectives: every call of a collective is answered.
EveryCallAnswered == K!EveryCallAnswered
=============================================================================
