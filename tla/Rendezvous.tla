----------------------------- MODULE Rendezvous -----------------------------
(***************************************************************************)
(* How a tool finds a server (ptl/tcp): the contact files a server drops   *)
(* while it sets up its listener and removes when the component closes,    *)
(* and the tool's search for one of them.  Servers start, stop, fail half  *)
(* way and die while the tool looks; a file that has been opened but not   *)
(* closed yet is empty.  The handshake that follows is in Connection: here *)
(* a connection attempt succeeds exactly if the server is listening and    *)
(* its address can be read from its URI.                                   *)
(***************************************************************************)
EXTENDS Naturals, Sequences, FiniteSets

CONSTANTS
    Servers,
    PidOf, NspaceOf,    \* [Servers -> Seq(characters)]
    Setups,             \* the environments: see env
    Faulty,             \* the servers whose setup may fail and that may die
    Directives,         \* what the tool may be told: [given, val]
    max_retries,        \* times a missing file is waited for
    Interfaces,         \* interfaces as the choice of one tells them apart
    MaxInterfaces,      \* bound: how many a node has
    NoFile, Empty

VARIABLES
    files,  \* what each contact file holds: NoFile, Empty, or the server
    srv,    \* [Servers -> [pc, step, listening, kept, unlinked]]: kept holds the
            \* names to remove, unlinked says that another removed what it writes
    tool,   \* the tool in connect_to_peer
    env     \* [conf: what each server drops, a set of "uri" (named by an MCA parameter),
            \* "uri info" (by an info key), "rend", "sys", "session", and "apart" if its
            \* session directory is not beneath the tools' system directory (nothing: it
            \* is not run), list: the node's interfaces, opt: the interface options]

vars == <<files, srv, tool, env>>

Nobody == "nobody"
----------------------------------------------------------------------------
(* The interface a server listens on. *)

\* The interfaces setup_listener does not skip: IP, not virtual, of a family
\* that is enabled, and let through by the include or exclude list.
Considered(i) == i.ip /\ ~i.vir /\ i.enabled
Usable(i, opt) ==
    /\ Considered(i)
    /\ opt.lists = "include" => i.match
    /\ opt.lists = "exclude" => ~i.match

\* pmix_ifmatches comes to an entry of the list that it cannot parse, which ends
\* the setup.
NotParseable(i, opt) == opt.lists # "none" /\ opt.bad /\ Considered(i) /\ ~i.match

\* setup_listener's loop: the first usable loopback ends it unless remote
\* connections are wanted; otherwise the first usable interface is kept.  Whether
\* tools are supported is not looked at.
RECURSIVE Scan(_, _, _, _)
Scan(list, opt, n, saveindex) ==
    IF n > Len(list) THEN saveindex
    ELSE IF NotParseable(list[n], opt) THEN 0
    ELSE IF ~Usable(list[n], opt) THEN Scan(list, opt, n + 1, saveindex)
    ELSE IF list[n].loop
         THEN IF opt.remote THEN Scan(list, opt, n + 1, saveindex) ELSE n
         ELSE Scan(list, opt, n + 1, IF saveindex = 0 THEN n ELSE saveindex)

choose_interface(list, opt) == Scan(list, opt, 1, 0)
----------------------------------------------------------------------------
(* The server. *)

UriFile == [kind |-> "uri", id |-> <<>>]
RendFile == [kind |-> "rend", id |-> <<>>]
SysFile == [kind |-> "sys", id |-> <<>>]
\* A session file, beneath the directory tools search or elsewhere.
ToolFile(id, apart) == [kind |-> IF apart THEN "apart" ELSE "tool", id |-> id]
Names == {UriFile, RendFile, SysFile}
         \cup {ToolFile(id, x) : id \in {PidOf[s] : s \in Servers} \cup {NspaceOf[s] : s \in Servers}, x \in BOOLEAN}

\* The files setup_listener writes, in order.
Drops(s) ==
    LET conf == env.conf[s]
        apart == "apart" \in conf
    IN  (IF {"uri", "uri info"} \cap conf # {} THEN <<UriFile>> ELSE <<>>)
        \o (IF "rend" \in conf THEN <<RendFile>> ELSE <<>>)
        \o (IF "sys" \in conf THEN <<SysFile>> ELSE <<>>)
        \o (IF "session" \in conf THEN <<ToolFile(PidOf[s], apart), ToolFile(NspaceOf[s], apart)>> ELSE <<>>)

\* component_open keeps the name of the URI file if the MCA parameter gives it, and
\* the directives that of the rendezvous file.
Kept0(s) == (IF "uri" \in env.conf[s] THEN {UriFile} ELSE {})
            \cup (IF "rend" \in env.conf[s] THEN {RendFile} ELSE {})

\* The address is an IPv6 one.
V6 == LET n == choose_interface(env.list, env.opt) IN n # 0 /\ env.list[n].v6

Sockerror(s, kept) ==
    srv' = [srv EXCEPT ![s].pc = "failed", ![s].listening = FALSE, ![s].kept = kept]

\* The first half of setup_listener: an interface, a socket, listen().  bind() is
\* given the length of a struct sockaddr, which may be refused for IPv6.
create_listen(s) ==
    /\ srv[s].pc = "down" /\ env.conf[s] # {}
    /\ \/ /\ choose_interface(env.list, env.opt) # 0
          /\ srv' = [srv EXCEPT ![s].pc = "setup", ![s].listening = TRUE,
                                ![s].kept = Kept0(s)]
       \/ (s \in Faulty \/ V6 \/ choose_interface(env.list, env.opt) = 0) /\ Sockerror(s, Kept0(s))
    /\ UNCHANGED <<files, tool, env>>

Current(s) == Drops(s)[srv[s].step]

\* A contact file is opened for writing, which empties it; if it cannot be,
\* its name is forgotten (the URI file's is kept elsewhere, or not at all).
open_file(s) ==
    /\ srv[s].pc = "setup" /\ srv[s].step <= Len(Drops(s))
    /\ \/ /\ files' = [files EXCEPT ![Current(s)] = Empty]
          /\ srv' = [srv EXCEPT ![s].pc = "writing", ![s].unlinked = FALSE,
                                ![s].kept = @ \cup ({Current(s)} \ {UriFile})]
       \/ /\ s \in Faulty
          /\ Sockerror(s, srv[s].kept \ ({Current(s)} \ {UriFile}))
          /\ UNCHANGED files
    /\ UNCHANGED <<tool, env>>

\* It is written and closed and its mode set; when that fails, as it does if the
\* file was unlinked in the meantime, the name is forgotten and the file stays.
close_file(s) ==
    /\ srv[s].pc = "writing"
    /\ files' = IF srv[s].unlinked THEN files ELSE [files EXCEPT ![Current(s)] = s]
    /\ \/ /\ Current(s) = UriFile \/ files'[Current(s)] # NoFile
          /\ srv' = [srv EXCEPT ![s].pc = "setup", ![s].step = @ + 1]
       \/ (s \in Faulty \/ files'[Current(s)] = NoFile) /\ Current(s) # UriFile /\ Sockerror(s, srv[s].kept \ {Current(s)})
    /\ UNCHANGED <<tool, env>>

\* The listener is on the list and the thread is started.
start_listening(s) ==
    /\ srv[s].pc = "setup" /\ srv[s].step > Len(Drops(s))
    /\ srv' = [srv EXCEPT ![s].pc = "up"]
    /\ UNCHANGED <<files, tool, env>>

\* pmix_ptl_base_stop_listening: the thread is joined, the sockets closed.
stop_listening(s) ==
    /\ srv[s].pc = "up"
    /\ srv' = [srv EXCEPT ![s].pc = "stopped", ![s].listening = FALSE]
    /\ UNCHANGED <<files, tool, env>>

\* component_close unlinks every file whose name was kept, whoever wrote it last.
component_close(s) ==
    /\ srv[s].pc \in {"stopped", "failed"}
    /\ LET kept == srv[s].kept IN
       /\ srv' = [r \in Servers |->
                     IF r = s THEN [srv[s] EXCEPT !.pc = "closed", !.kept = {}]
                     ELSE [srv[r] EXCEPT !.unlinked = @ \/ (srv[r].pc = "writing" /\ Current(r) \in kept)]]
       /\ files' = [n \in Names |-> IF n \in kept THEN NoFile ELSE files[n]]
       /\ tool' = [tool EXCEPT !.must = @ \ kept]
    /\ UNCHANGED env

Dies(s) ==
    /\ s \in Faulty /\ srv[s].pc \notin {"down", "closed", "dead"}
    /\ srv' = [srv EXCEPT ![s].pc = "dead", ![s].listening = FALSE]
    /\ UNCHANGED <<files, tool, env>>
----------------------------------------------------------------------------
(* The tool. *)

IsPrefix(a, b) == Len(a) <= Len(b) /\ SubSeq(b, 1, Len(a)) = a

\* The names df_search takes for a given prefix of the file name: it searches the
\* system directory and all beneath it, for session files too.
Matches(id) == {n \in Names : n.kind = "tool" /\ IsPrefix(id, n.id)}
\* The search begins; what is there now will be come to.
searches(t, todo) ==
    [t EXCEPT !.pc = "search", !.todo = todo, !.must = {n \in todo : files[n] # NoFile}]

\* A client's server is named in its environment, or it is not for us.
by_environment(t) ==
    IF t.val = Nobody THEN [t EXCEPT !.pc = "failed"] ELSE [t EXCEPT !.pc = "try", !.found = t.val]

\* The other ways, in the order of connect_to_peer: the first that was given is
\* taken, whatever else was.
by_uri(t) == [t EXCEPT !.pc = "try", !.found = t.val]
by_file(t) == [t EXCEPT !.pc = "parse", !.name = UriFile]
by_rendfile(t) == [t EXCEPT !.pc = "parse", !.name = RendFile]
by_pid(t) == searches(t, Matches(PidOf[t.val]))
by_nspace(t) == searches(t, Matches(NspaceOf[t.val]))
by_system(t) == [t EXCEPT !.pc = "parse", !.name = SysFile]
by_session(t) == searches(t, Matches(<<>>))

\* The directives, collected from the info array: CONNECT_TO_SYSTEM wins over
\* SYSTEM_FIRST.
Ways == <<"environment", "uri", "file", "rend", "pid", "nspace", "system", "system first">>
directed(given) ==
    IF given = {} THEN "any"
    ELSE Ways[CHOOSE k \in DOMAIN Ways : Ways[k] \in given /\ \A l \in 1 .. k - 1 : Ways[l] \notin given]

connect_to_peer ==
    /\ tool.pc = "start"
    /\ \E d \in Directives :
          LET by == directed(d.given)
              t == [tool EXCEPT !.by = by, !.val = d.val,
                                !.live = {s \in Servers : srv[s].pc = "up"}] IN
          tool' = CASE by = "environment" -> by_environment(t)
                    [] by = "uri" -> by_uri(t)
                    [] by = "file" -> by_file(t)
                    [] by = "rend" -> by_rendfile(t)
                    [] by = "pid" -> by_pid(t)
                    [] by = "nspace" -> by_nspace(t)
                    [] by \in {"system", "system first"} -> by_system(t)
                    [] by = "any" -> by_session(t)
    /\ UNCHANGED <<files, srv, env>>

\* Mutant: the search ends with the first file that does not do.
Mut_Failed_search(t) == [t EXCEPT !.pc = "failed"]
\* A contact file or a server did not do: the search goes on with the next
\* file, a system-first tool goes on to search, any other gives up.
Failed(t) ==
    CASE t.searching -> [t EXCEPT !.pc = "search"]
      [] t.by = "system first" /\ ~t.searching -> by_session(t)
      [] OTHER -> [t EXCEPT !.pc = "failed"]

\* df_search: the next directory entry that exists and matches, in any order; one
\* that was made since the search began may be missed.
df_search ==
    /\ tool.pc = "search"
    /\ LET there == {n \in tool.todo : files[n] # NoFile} IN
       \/ \E n \in there :
             tool' = [tool EXCEPT !.pc = "parse", !.name = n, !.todo = @ \ {n},
                                  !.must = @ \ {n}, !.searching = TRUE, !.retries = 0]
       \/ /\ there \cap tool.must = {}
          /\ tool' = [tool EXCEPT !.pc = "failed"]
    /\ UNCHANGED <<files, srv, env>>

\* parse_uri_file: a file that does not exist is waited for, one that is empty
\* is given up at once.
parse_uri_file ==
    /\ tool.pc = "parse"
    /\ tool' = CASE files[tool.name] = NoFile /\ tool.retries < max_retries ->
                       [tool EXCEPT !.retries = @ + 1]
                 [] files[tool.name] = NoFile /\ tool.retries >= max_retries -> Failed(tool)
                 [] files[tool.name] = Empty -> Failed(tool)
                 [] OTHER -> [tool EXCEPT !.pc = "try", !.found = files[tool.name]]
    /\ UNCHANGED <<files, srv, env>>

\* The completion.  A tool that came by a rendezvous file has no URI to store
\* and does not survive storing it.
complete(t) == [t EXCEPT !.pc = IF t.by = "rend" THEN "crashed" ELSE "connected"]

\* try_connect.  The host of a URI ends at its first colon, so that no IPv6 address
\* is read.
try_connect ==
    /\ tool.pc = "try"
    /\ tool' = IF srv[tool.found].listening /\ ~V6 THEN complete(tool) ELSE Failed(tool)
    /\ UNCHANGED <<files, srv, env>>
----------------------------------------------------------------------------
Init ==
    /\ files = [n \in Names |-> NoFile]
    /\ srv = [s \in Servers |-> [pc |-> "down", step |-> 1, listening |-> FALSE, kept |-> {}, unlinked |-> FALSE]]
    /\ tool = [pc |-> "start", by |-> "any", val |-> Nobody, name |-> UriFile, todo |-> {}, must |-> {},
               retries |-> 0, found |-> Nobody, searching |-> FALSE, live |-> {}]
    /\ env \in Setups

\* Every node and every choice of options, for the choice of an interface alone.
InitChoice ==
    /\ files = [n \in Names |-> NoFile]
    /\ srv = [s \in Servers |-> [pc |-> "closed", step |-> 1, listening |-> FALSE, kept |-> {}, unlinked |-> FALSE]]
    /\ tool = [pc |-> "failed", by |-> "any", val |-> Nobody, name |-> UriFile, todo |-> {}, must |-> {},
               retries |-> 0, found |-> Nobody, searching |-> FALSE, live |-> {}]
    /\ env \in [conf : {[s \in Servers |-> {}]}, list : UNION {[1 .. n -> Interfaces] : n \in 0 .. MaxInterfaces},
                opt : [lists : {"none", "include", "exclude"}, bad : BOOLEAN, remote : BOOLEAN, tools : BOOLEAN]]

Server(s) ==
    \/ create_listen(s) \/ open_file(s) \/ close_file(s) \/ start_listening(s)
    \/ stop_listening(s) \/ component_close(s) \/ Dies(s)

Tool == connect_to_peer \/ df_search \/ parse_uri_file \/ try_connect

Next == Tool \/ \E s \in Servers : Server(s)

\* A tool in connect_to_peer goes on: its waits are timed.
Fairness == WF_vars(Tool)

Spec == Init /\ [][Next]_vars /\ Fairness
----------------------------------------------------------------------------
\* A tool that was told where to connect connects there or nowhere: by a URI
\* or a file to what that names, by pid or namespace to a server whose file
\* starts with that name, by CONNECT_TO_SYSTEM to a system server
\* (connect_to_peer; df_search compares only the prefix).
DirectedOnly ==
    tool.pc = "connected" =>
        CASE tool.by \in {"uri", "environment"} -> tool.found = tool.val
          [] tool.by = "file" -> {"uri", "uri info"} \cap env.conf[tool.found] # {}
          [] tool.by = "rend" -> FALSE
          [] tool.by = "pid" -> \E id \in {PidOf[tool.found], NspaceOf[tool.found]} :
                                    IsPrefix(PidOf[tool.val], id)
          [] tool.by = "nspace" -> \E id \in {PidOf[tool.found], NspaceOf[tool.found]} :
                                    IsPrefix(NspaceOf[tool.val], id)
          [] tool.by = "system" -> "sys" \in env.conf[tool.found]
          [] OTHER -> TRUE

\* A tool told a pid connects to the server with that pid.
PidExact ==
    tool.pc = "connected" /\ tool.by = "pid" => tool.found = tool.val

\* The search does not miss a server: a tool that may take any session server,
\* or the system server, and gives up, did not have one running from before it
\* began (df_search, whatever stale, empty or vanishing files are in its way).
\* Three kinds of servers are missed: one with an IPv6 address, one whose session
\* directory is not beneath the system directory, and a system server whose file
\* another server writes or removes too.
Shared(s, n) == \E r \in Servers \ {s} : \E i \in DOMAIN Drops(r) : Drops(r)[i] = n
SearchFindsLive ==
    tool.pc = "failed" =>
        \A s \in tool.live :
            srv[s].pc = "up" /\ ~V6 =>
                /\ tool.by \in {"any", "system first"} => "session" \notin env.conf[s] \/ "apart" \in env.conf[s]
                /\ tool.by \in {"system", "system first"} => "sys" \notin env.conf[s] \/ Shared(s, SysFile)

\* A server that is up is announced by each of its files, unless another server
\* uses the same name (two system servers of a node): that one overwrites the file,
\* and whichever closes first removes it.
Announced ==
    \A s \in Servers : srv[s].pc = "up" =>
        \A i \in DOMAIN Drops(s) : files[Drops(s)[i]] = s \/ Shared(s, Drops(s)[i])

\* A server that closed leaves no file behind that names it, except one whose
\* mode it could not set, after which setup ended, and a URI file that an info key
\* named: component_close knows only the MCA parameter's.
LeftBehind(s) == {n \in Names : files[n] = s}

CleanClose ==
    \A s \in Servers : srv[s].pc = "closed" =>
        LeftBehind(s) \subseteq (IF srv[s].step <= Len(Drops(s)) THEN {Current(s)} ELSE {})
                                \cup (IF "uri info" \in env.conf[s] THEN {UriFile} ELSE {})

\* The interface setup_listener picks is the first usable loopback when remote
\* connections are off and there is one, and else the first usable interface
\* that is no loopback; none, if the list cannot be parsed at an interface that is
\* looked at before the choice is made.  Support for tools does not matter.
InterfaceRight ==
    LET usable == {n \in DOMAIN env.list : Usable(env.list[n], env.opt)}
        loops == {n \in usable : env.list[n].loop}
        local == ~env.opt.remote /\ loops # {}
        wanted == IF local THEN loops ELSE usable \ loops
        seen == IF local THEN {n \in DOMAIN env.list : \A l \in loops : n <= l} ELSE DOMAIN env.list
        got == choose_interface(env.list, env.opt)
    IN  IF wanted = {} \/ \E n \in seen : NotParseable(env.list[n], env.opt) THEN got = 0
        ELSE got \in wanted /\ \A n \in wanted : got <= n

\* A tool's search comes to an end: it is connected, or told that it is not.  Only
\* a tool that comes by a rendezvous file ends otherwise: it crashes once connected.
ToolEnds == <>(tool.pc \in {"connected", "failed"} \/ (tool.pc = "crashed" /\ tool.by = "rend"))

\* Too strong: every server that is up is announced by its files.
AllAnnounced ==
    \A s \in Servers : srv[s].pc = "up" => \A i \in DOMAIN Drops(s) : files[Drops(s)[i]] = s
\* Too strong: a tool that may take any session server finds a live one.
SessionFound ==
    tool.pc = "failed" /\ tool.by = "any" => \A s \in tool.live : srv[s].pc = "up" => "session" \notin env.conf[s]
\* Too strong: nothing a server wrote outlives its orderly end.
NothingLeft == \A s \in Servers : srv[s].pc = "closed" /\ srv[s].step > Len(Drops(s)) => LeftBehind(s) = {}
\* Too strong: no tool crashes.
ToolSurvives == tool.pc # "crashed"
\* Too strong: a server that supports tools takes an interface that is no loopback,
\* if there is one.
ToolsReached ==
    LET got == choose_interface(env.list, env.opt)
    IN  env.opt.tools /\ got # 0 /\ (\E n \in DOMAIN env.list : Usable(env.list[n], env.opt) /\ ~env.list[n].loop)
            => ~env.list[got].loop
=============================================================================
