----------------------------- MODULE MCRuntime ------------------------------
(***************************************************************************)
(* What a PMIx process is built on.  One part runs at a time: the pointer    *)
(* array, the MCA frameworks with their variables, the library's life from   *)
(* init to finalize, a tool's search for a server, the choice of a server's  *)
(* interface, and the connection handshake.                                  *)
(***************************************************************************)
EXTENDS PointerArray, Sequences, TLC

CONSTANTS Parts, Barriers

VARIABLES
  part,
  fenv, mca, fw, repo, users, past, calls,
  lenv, g, lock, th, tev, queue, asked, replies, answering, got, sure,
  files, srv, tool, renv,
  cenv, cl, conns, events, job, clients, ranks, listen_thread_active, alive

framing == <<fenv, mca, fw, repo, users, past, calls>>
living == <<lenv, g, lock, th, tev, queue, asked, replies, answering, got, sure>>
finding == <<files, srv, tool, renv>>
connecting == <<cenv, cl, conns, events, job, clients, ranks, listen_thread_active, alive>>

\* ---- frameworks and variables ----------------------------------------------------

Decl(n, gr, t, fl, ro, c, df, of) ==
  [name |-> n, group |-> gr, type |-> t, flags |-> fl, readonly |-> ro, cell |-> c, default |-> df, of |-> of,
   assigned |-> n = "f_base_verbose"]
MCFrameworkDecls ==
  <<Decl("f", "f", "string", {"settable"}, FALSE, "fsel", "none", "none"),
    Decl("f_base_verbose", "f_base", "verb", {"settable", "dwg"}, FALSE, "fverb", "0", "none")>>
\* Component a is loaded and has a synonym, a string and a default-only bool; s is
\* linked in.
MCCompDecls ==
  [a |-> <<Decl("f_a_prio", "f_a", "int", {"settable", "dwg"}, FALSE, "aprio", "1", "none"),
           Decl("f_a_old", "f_a", "int", {"dwg"}, FALSE, "aprio", "1", "f_a_prio"),
           Decl("f_a_name", "f_a", "string", {"dwg"}, TRUE, "aname", "x", "none"),
           Decl("f_a_flag", "f_a", "bool", {"dwg", "default only"}, TRUE, "aflag", "1", "none")>>,
   s |-> <<Decl("f_s_prio", "f_s", "int", {"settable", "dwg"}, FALSE, "sprio", "1", "none")>>]
Asks(ok, inc, names) == [ok |-> ok, asked |-> TRUE, include |-> inc, names |-> names]
MCRequest ==
  [a |-> Asks(TRUE, TRUE, {"a"}), nota |-> Asks(TRUE, FALSE, {"a"}), bad |-> Asks(FALSE, TRUE, {}),
   zz |-> Asks(TRUE, TRUE, {"zz"})]
VarNames == {"f", "f_base_verbose", "f_a_prio", "f_a_old", "f_a_name", "f_a_flag", "f_s_prio"}
Says(names, v) == [n \in VarNames |-> IF n \in names THEN v ELSE "absent"]
Nothing == Says({}, "0")
Sources(o, e, s, ef, fi) == [override |-> o, environ |-> e, source |-> s, envfile |-> ef, files |-> fi]

F == INSTANCE Frameworks WITH
  ParentOf <- [f |-> "none", f_base |-> "f", f_a |-> "f", f_s |-> "f"], None <- "none", Absent <- "absent",
  Comps <- {"a", "s"}, Static <- {"s"}, Framework <- "f", CompGroup <- [a |-> "f_a", s |-> "f_s"],
  FrameworkDecls <- MCFrameworkDecls, CompDecls <- MCCompDecls, Request <- MCRequest,
  CellOf <- [fsel |-> "none", fverb |-> "none", aprio |-> "a", aname |-> "a", aflag |-> "a", sprio |-> "s"],
  RefusedAfter <- {0, 1, 3}, SetValues <- {"0"}, MaxUsers <- 2, MaxCalls <- 5, env <- fenv,
  Environments <- {
    Sources(Nothing, Nothing, "none", Nothing, <<>>),
    Sources(Says({"f_a_prio"}, "0"), Says({"f_a_prio", "f_a_name"}, "1"), "none", Nothing, <<Says({"f_a_name"}, "0")>>),
    Sources(Says({"f_a_name", "f_s_prio"}, "1"), Says({"f_s_prio", "f_a_old"}, "0"), "file", Nothing, <<>>),
    Sources(Nothing, Says({"f"}, "a"), "none", Says({"f_a_prio"}, "0"), <<Says({"f_a_prio", "f_a_flag", "f_s_prio"}, "0")>>),
    Sources(Nothing, Says({"f"}, "nota"), "override", Nothing, <<Says({"f_base_verbose"}, "1")>>),
    Sources(Nothing, Says({"f"}, "bad"), "none", Nothing, <<>>),
    Sources(Nothing, Says({"f"}, "zz"), "none", Nothing, <<>>),
    Sources(Nothing, Says({"f_a_prio", "f_s_prio"}, "big"), "none", Nothing, <<>>),
    Sources(Nothing, Says({"f_base_verbose", "f_a_flag"}, "x"), "none", Nothing, <<Says({"f_base_verbose"}, "1")>>),
    Sources(Nothing, Nothing, "none", Nothing, <<Says({"f_a_prio"}, "0"), Says({"f_a_prio"}, "1")>>),
    Sources(Says({"f_a_old"}, "0"), Says({"f_a_old"}, "1"), "none", Nothing, <<>>),
    Sources(Says({"f_a_old"}, "0"), Nothing, "none", Nothing, <<Says({"f_a_prio"}, "1")>>)}

\* ---- init to finalize ---------------------------------------------------------------

Lib(x, y) ==
  [lib |-> [t \in {"a", "b"} |-> IF t = "a" THEN x ELSE y], launcher |-> FALSE, nspace |-> TRUE, rank |-> TRUE,
   external |-> FALSE, barrier |-> FALSE, stop |-> FALSE, noconnect |-> FALSE, fails |-> {}, dies |-> FALSE, calls |-> 4]
ClientLib == Lib("client", "none")
ToolLib == Lib("tool", "none")
ServerLib == Lib("server", "none")
MCEnvironments ==
  {Lib("client", "client"), [Lib("client", "client") EXCEPT !.fails = {"module", "gds", "connect"}],
   [ClientLib EXCEPT !.dies = TRUE], [ClientLib EXCEPT !.stop = TRUE], [ClientLib EXCEPT !.nspace = FALSE],
   [ClientLib EXCEPT !.rank = FALSE], [ClientLib EXCEPT !.barrier = TRUE],
   Lib("server", "server"), [ServerLib EXCEPT !.fails = {"plog", "module", "listen"}], [ServerLib EXCEPT !.external = TRUE],
   [ToolLib EXCEPT !.dies = TRUE], [ToolLib EXCEPT !.external = TRUE], [ToolLib EXCEPT !.launcher = TRUE],
   [ToolLib EXCEPT !.rank = FALSE], [ToolLib EXCEPT !.rank = FALSE, !.nspace = FALSE, !.fails = {"store"}], [ToolLib EXCEPT !.rank = FALSE, !.nspace = FALSE, !.dies = TRUE],
   [ToolLib EXCEPT !.noconnect = TRUE], [ToolLib EXCEPT !.noconnect = TRUE, !.nspace = FALSE, !.rank = FALSE],
   [ToolLib EXCEPT !.launcher = TRUE, !.fails = {"listen", "module", "connect", "peer"}],
   [ClientLib EXCEPT !.external = TRUE], [Lib("tool", "tool") EXCEPT !.calls = 3]}

I == INSTANCE Lifecycle WITH
  Threads <- {"a", "b"}, Nobody <- "nobody", Values <- {"v"},
  Environments <- {e \in MCEnvironments : Barriers => e.barrier}, env <- lenv, alive <- answering

\* ---- finding a server -----------------------------------------------------------------

Interface(v, e, ma, l) == [ip |-> TRUE, vir |-> v, enabled |-> e, match |-> ma, loop |-> l, v6 |-> FALSE]
OneInterface(v6, conf) ==
  [conf |-> conf, list |-> <<[Interface(FALSE, TRUE, TRUE, TRUE) EXCEPT !.v6 = v6]>>,
   opt |-> [lists |-> "none", bad |-> FALSE, remote |-> FALSE, tools |-> FALSE]]
\* The name of server s1 begins that of s2.
R == INSTANCE Rendezvous WITH
  Servers <- {"s1", "s2"}, PidOf <- [s1 |-> <<"1">>, s2 |-> <<"1", "2">>], NspaceOf <- [s1 |-> <<"n">>, s2 |-> <<"m">>],
  Setups <- {OneInterface(FALSE, c) : c \in {
      [s1 |-> {"sys"}, s2 |-> {"session"}], [s1 |-> {"session"}, s2 |-> {"sys"}], [s1 |-> {}, s2 |-> {"uri", "rend"}],
      [s1 |-> {"sys"}, s2 |-> {"sys"}], [s1 |-> {"session", "apart"}, s2 |-> {"uri info"}]}}
    \cup {OneInterface(TRUE, [s1 |-> {"session"}, s2 |-> {}])},
  Faulty <- {"s2"},
  Directives <- {[given |-> {"uri", "pid"}, val |-> "s2"], [given |-> {"environment"}, val |-> "s2"],
                 [given |-> {"environment"}, val |-> "nobody"]} \cup
    {[given |-> x, val |-> "s1"] : x \in {{"file"}, {"rend", "nspace"}, {"pid", "system"}, {"nspace"},
                                         {"system", "system first"}, {"system first"}, {}}},
  max_retries <- 1, MaxInterfaces <- 2, NoFile <- "none", Empty <- "empty", env <- renv,
  Interfaces <- {Interface(FALSE, TRUE, x, y) : x \in BOOLEAN, y \in BOOLEAN}
    \cup {Interface(TRUE, TRUE, TRUE, FALSE), Interface(FALSE, FALSE, FALSE, TRUE)}

\* ---- connecting -------------------------------------------------------------------------

By(v, f, r, ver, mo, s, cr, n) ==
  [via |-> v, flag |-> f, rank |-> r, ver |-> ver, mods |-> mo, sec |-> s, cred |-> cr, handshake_max_retries |-> n]
Scenario(f, reg, t, ref, room) ==
  [room |-> room, proc |-> f, registered |-> reg, tools |-> t, refuses |-> ref, faults |-> Cardinality(DOMAIN f) = 1]
One(x) == [p \in {"a"} |-> x]
Two(x, y) == [p \in {"a", "b"} |-> IF p = "a" THEN x ELSE y]
\* Two processes share a rank, with up to three connections, or compete for the last
\* slot; the rest is one process with a server that may die, lacks a module, refuses,
\* or does not know the rank or the version.
MCScenarios == {
  Scenario(Two(By("tcp", 0, "r", 4, "all", TRUE, TRUE, 2), By("tcp", 0, "r", 4, "all", TRUE, TRUE, 1)), {"r"}, FALSE, FALSE, 3),
  Scenario(Two(By("usock", 0, "r", 3, "all", TRUE, TRUE, 2), By("tcp", 0, "r", 4, "all", TRUE, TRUE, 1)), {"r"}, FALSE, TRUE, 2),
  Scenario(One(By("usock", 0, "r", 3, "all", TRUE, FALSE, 2)), {"r"}, FALSE, TRUE, 1),
  Scenario(One(By("usock", 0, "r", 3, "all", TRUE, TRUE, 2)), {"r"}, FALSE, TRUE, 1),
  Scenario(One(By("usock", 0, "r", 3, "no gds", TRUE, TRUE, 2)), {"r"}, FALSE, TRUE, 1),
  Scenario(One(By("usock", 0, "r", 0, "all", TRUE, TRUE, 2)), {"r"}, FALSE, TRUE, 1),
  Scenario(One(By("usock", 0, "s", 4, "all", TRUE, TRUE, 2)), {"r"}, FALSE, TRUE, 1),
  Scenario(One(By("usock", 0, "r", 4, "all", TRUE, TRUE, 2)), {"r"}, FALSE, TRUE, 1),
  Scenario(One(By("usock", 0, "r", 3, "none", TRUE, TRUE, 2)), {"r"}, FALSE, TRUE, 1),
  Scenario(Two(By("tcp", 0, "r", 4, "all", TRUE, TRUE, 2), By("tcp", 0, "s", 4, "all", TRUE, TRUE, 1)), {"r"}, FALSE, TRUE, 1),
  Scenario(One(By("tcp", 0, "r", 4, "none", TRUE, TRUE, 2)), {"r"}, FALSE, TRUE, 1),
  Scenario(One(By("tcp", 3, "t", 4, "all", TRUE, TRUE, 2)), {"r"}, TRUE, TRUE, 1),
  Scenario(Two(By("tcp", 5, "r", 4, "all", FALSE, TRUE, 1), By("tcp", 8, "s", 4, "all", TRUE, TRUE, 1)), {"r", "s"}, TRUE, FALSE, 1),
  Scenario(One(By("tcp", 4, "t", 4, "all", TRUE, FALSE, 2)), {"r"}, FALSE, TRUE, 1),
  Scenario(One(By("tcp", 3, "t", 4, "all", TRUE, TRUE, 2)), {"r"}, FALSE, TRUE, 1),
  Scenario(One(By("tcp", 8, "s", 4, "all", TRUE, TRUE, 2)), {"r"}, TRUE, TRUE, 1),
  Scenario(One(By("tcp", 7, "t", 4, "none", TRUE, TRUE, 2)), {"r"}, FALSE, TRUE, 1)}

C == INSTANCE Connection WITH
  Procs <- {"a", "b"}, Ranks <- {"r", "s", "t"}, Scenarios <- MCScenarios, MaxClients <- 3, MaxRetries <- 2,
  env <- cenv

\* ---- the parts ----------------------------------------------------------------------------

MCInit ==
  /\ part \in Parts
  /\ ArrayInit
  /\ IF part = "frameworks" THEN F!Init
     ELSE fenv = 0 /\ mca = [vars |-> <<>>] /\ fw = 0 /\ repo = 0 /\ users = 0 /\ past = 0 /\ calls = 0
  /\ IF part = "lifecycle" THEN I!Init
     ELSE /\ lenv = [external |-> FALSE, dies |-> FALSE] /\ g = [ev_active |-> FALSE, left |-> FALSE, crossed |-> FALSE, down |-> TRUE, posted |-> {}]
          /\ th = [t \in {"a", "b"} |-> [at |-> "idle"]] /\ tev = 0 /\ queue = <<>> /\ answering = FALSE
          /\ lock = 0 /\ asked = {} /\ replies = {} /\ got = {} /\ sure = {}
  /\ IF part = "rendezvous" THEN R!Init ELSE IF part = "interfaces" THEN R!InitChoice
     ELSE files = 0 /\ srv = 0 /\ renv = 0 /\ tool = [pc |-> "failed"]
  /\ IF part = "connection" THEN C!Init
     ELSE /\ cenv = [proc |-> <<>>] /\ cl = [p \in {"a", "b"} |-> [at |-> "left"]] /\ conns = <<>> /\ events = <<>>
          /\ job = 0 /\ clients = <<>> /\ ranks = 0 /\ listen_thread_active = FALSE /\ alive = FALSE

MCNext ==
  \/ part = "pointer array" /\ ArrayNext /\ UNCHANGED <<part, framing, living, finding, connecting>>
  \/ part = "frameworks" /\ F!Next /\ UNCHANGED <<part, arrayvars, living, finding, connecting>>
  \/ part = "lifecycle" /\ I!Next /\ UNCHANGED <<part, arrayvars, framing, finding, connecting>>
  \/ part = "rendezvous" /\ R!Next /\ UNCHANGED <<part, arrayvars, framing, living, connecting>>
  \/ part = "connection" /\ C!Next /\ UNCHANGED <<part, arrayvars, framing, living, finding>>

MCSpec ==
  /\ MCInit
  /\ [][MCNext]_<<part, arrayvars, framing, living, finding, connecting>>
  /\ I!Fairness /\ R!Fairness /\ C!Fairness

\* ---- the properties -------------------------------------------------------------------------

\* Statements that are too strong (see Lifecycle, Rendezvous and Connection).
AlwaysUpWhileUsed == part = "lifecycle" => I!AlwaysUpWhileUsed
CommittedToNew == part = "lifecycle" => I!CommittedToNew
NoFrameUsedLate == part = "lifecycle" => I!NoFrameUsedLate
CallsEnd == I!CallsEnd
AllAnnounced == part = "rendezvous" => R!AllAnnounced
SessionFound == part = "rendezvous" => R!SessionFound
NothingLeft == part = "rendezvous" => R!NothingLeft
ToolSurvives == part = "rendezvous" => R!ToolSurvives
NothingStray == part = "connection" => C!NothingStray
RecordsHeld == part = "connection" => C!RecordsHeld
AllForgotten == C!AllForgotten
ServerSurvives == part = "connection" => C!ServerSurvives
ToolsReached == part = "interfaces" => R!ToolsReached

\* Refuted statements of Frameworks.
ListedAlwaysLoaded == part = "frameworks" => F!ListedAlwaysLoaded
DefaultComesBack == part = "frameworks" => F!DefaultComesBack
OverrideWins == part = "frameworks" => F!OverrideWins
\* See Lifecycle.
LifecycleSound == part = "lifecycle" => I!LifecycleSound
\* See Lifecycle.
BarrierReturns == I!BarrierReturns
\* See Rendezvous.
RendezvousSound ==
  /\ part = "rendezvous" => R!DirectedOnly /\ R!SearchFindsLive /\ R!Announced /\ R!CleanClose
  /\ part = "interfaces" => R!InterfaceRight
\* See Rendezvous.
PidExact == part = "rendezvous" => R!PidExact
\* See Connection.
ConnectionsSound == part = "connection" => C!ConnectionsSound
\* See Connection.
TcpIndexAgreed == part = "connection" => C!TcpIndexAgreed
\* The calls of the life cycle return, with the exceptions CallsReturn names, every
\* tool that looks for a server ends its search, and every connection attempt is
\* settled (see Lifecycle, Rendezvous and Connection).
RuntimeEnds == I!CallsReturn /\ R!ToolEnds /\ C!Settles /\ C!AbandonedForgotten
=============================================================================
