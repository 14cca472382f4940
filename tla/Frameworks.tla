----------------------------- MODULE Frameworks -----------------------------
(***************************************************************************)
(* The MCA variable system (mca/base/pmix_mca_base_var.c, _var_group.c,    *)
(* _var_enum.c): variables and the groups they belong to, registered once, *)
(* marked invalid when their component goes away and taken up again when   *)
(* it returns; synonyms; and where a variable's first value comes from.    *)
(* Its whole state is one record mca = [vars, groups, mem, bound, up, down]: *)
(* both arrays only grow while it is up, an index stands for a pointer     *)
(* array slot, and mem is the components' own memory, which a variable's   *)
(* storage points into: it starts with the values the components were      *)
(* compiled with, and only a component that assigns a variable before it   *)
(* registers it has them back later.  bound is a ghost: how often a cell   *)
(* was registered since its memory was loaded or assigned (2: or more).    *)
(* Texts are taken from a small set: the empty text, two numbers, a word,  *)
(* and a number too big for an int.                                        *)
(*                                                                         *)
(* With it, one MCA framework and its components                           *)
(* (pmix_mca_base_framework.c, _components_*.c, _component_find.c,         *)
(* _component_repository.c): register, open, select and close, counted by  *)
(* users, with the components found statically or loaded, the variables    *)
(* they register and their memory, which is gone once a component is       *)
(* unloaded.  One thread does all of it, but what components answer, and   *)
(* the order of the users' calls, is arbitrary.                            *)
(***************************************************************************)
EXTENDS Naturals, Sequences, FiniteSets
LOCAL INSTANCE SequencesExt

CONSTANTS
    ParentOf,       \* [group names -> group names \cup {None}]
    None,           \* NULL, and "not found"
    Absent,         \* no value given for a name
    Comps,          \* component names
    Static,         \* those linked in
    Framework,      \* the framework's group name
    CompGroup,      \* [Comps -> group names]
    FrameworkDecls, \* Seq of declarations the framework registers, selection first
    CompDecls,      \* [Comps -> Seq of declarations]
    Request,        \* [texts -> [ok, asked, include, names]]: parse_requested
    CellOf,         \* [cells -> Comps \cup {None}]: whose memory a cell is
    Environments,   \* [override, environ, source, envfile, files], files a sequence
    RefusedAfter,       \* how many variables a component that refuses may have registered
    SetValues,      \* values a program may set
    MaxUsers,       \* bound: users of the framework at once
    MaxCalls        \* bound: calls made

VARIABLES
    env,        \* where values come from, fixed
    mca,        \* the variable system
    fw,         \* [refcnt, registered, open, comps]
    repo,       \* [Comps -> [handle, refcnt]]: the repository's items
    users,      \* the callers that opened the framework and did not close it
    past,       \* ghost: [lost, failed, stale], see below
    calls

\* past.lost counts the registrations that failed and left their count,
\* past.failed says that opening has failed, and past.stale that the MCA was
\* shut down while the framework was still registered.
vars == <<env, mca, fw, repo, users, past, calls>>
----------------------------------------------------------------------------
\* Op applied to the value of x, which is computed once.
With(x, Op(_)) == CHOOSE r \in {Op(v) : v \in {x}} : TRUE

(* Conversions. *)

\* int_from_string and var_set_from_string: a word is no error for a plain
\* int (strtoull gives 0), an error for a bool, and NOT_FOUND, with 0 stored,
\* for the verbosity enumerator.
Converted(type, text) ==
    CASE type = "string" -> [rc |-> "OK", set |-> TRUE, val |-> IF text = "" THEN None ELSE text]
      [] type = "int" /\ text = "big" -> [rc |-> "BOUNDS", set |-> FALSE, val |-> None]
      [] type = "int" /\ text # "big" ->
            [rc |-> "OK", set |-> TRUE, val |-> IF text = "1" THEN "1" ELSE "0"]
      [] type = "bool" /\ text = "x" -> [rc |-> "BOUNDS", set |-> FALSE, val |-> None]
      [] type = "bool" /\ text # "x" ->
            [rc |-> "OK", set |-> TRUE, val |-> IF text \in {"1", "big"} THEN "1" ELSE "0"]
      [] type = "verb" /\ text = "x" -> [rc |-> "NOT FOUND", set |-> TRUE, val |-> "0"]
      [] type = "verb" /\ text = "big" -> [rc |-> "OK", set |-> TRUE, val |-> "none"]
      [] type = "verb" /\ text \notin {"x", "big"} ->
            [rc |-> "OK", set |-> TRUE, val |-> IF text = "1" THEN "1" ELSE "0"]

\* Texts of several files: they are read from the last to the first and a
\* later reading replaces an earlier one, so the leftmost file wins.
RECURSIVE read_files(_, _)
read_files(files, values) ==
    IF files = <<>> THEN values
    ELSE LET file == files[Len(files)]
         IN  read_files(SubSeq(files, 1, Len(files) - 1),
                        [n \in DOMAIN values |->
                            IF file[n] # Absent THEN file[n] ELSE values[n]])
----------------------------------------------------------------------------
(* Looking up. *)

Indices(s, P(_)) == {i \in DOMAIN s : P(s[i])}
Index(s, P(_)) == IF Indices(s, P) = {} THEN 0 ELSE CHOOSE i \in Indices(s, P) : TRUE

var_find(m, name, invalidok) ==
    Index(m.vars, LAMBDA v : v.name = name /\ (invalidok \/ v.valid))

group_find(m, name, invalidok) ==
    Index(m.groups, LAMBDA g : g.name = name /\ (invalidok \/ g.valid))

\* var_get(..., original = true): a synonym stands for its original.
Original(m, i) == IF m.vars[i].syn # 0 THEN m.vars[i].syn ELSE i
----------------------------------------------------------------------------
(* Where the first value comes from. *)

Store(m, o, text) ==
    LET c == Converted(m.vars[o].type, text)
        cell == m.vars[o].storage
    IN  [m |-> IF c.set THEN [m EXCEPT !.mem[cell] = c.val] ELSE m, rc |-> c.rc]

NotFound(m) == [m |-> m, rc |-> "NOT FOUND"]

\* A value in the environment, with the file its writer says it had it from.
\* The file compared with the override file is the synonym's own: for one
\* whose original had none, that is a null pointer.
var_set_from_env(m, i, o, e) ==
    LET v == m.vars[i]
        text == e.environ[v.name]
        m1 == IF e.source = None THEN m ELSE [m EXCEPT !.vars[o].srcfile = e.source]
        src == CASE e.source = None -> "env"
                 [] e.source # None /\ m1.vars[i].srcfile = "override" -> "override"
                 [] OTHER -> "file"
    IN  IF text = Absent \/ "default only" \in m.vars[o].flags \/ m.vars[o].source = "override"
        THEN NotFound(m)
        ELSE IF e.source # None /\ m1.vars[i].srcfile = None
        THEN [m |-> [m1 EXCEPT !.down = TRUE], rc |-> "OK"]
        ELSE Store([m1 EXCEPT !.vars[o].source = src], o, text)

\* A value in a list read from files.  The default-only flag looked at is the
\* synonym's own.
var_set_from_file(m, i, o, list) ==
    LET v == m.vars[i]
        found == [m EXCEPT !.vars[o].source = "file", !.vars[i].source = "file"]
    IN  IF \/ list[v.name] = Absent
           \/ "default only" \in v.flags
           \/ "environment only" \in m.vars[o].flags
           \/ m.vars[o].source = "override"
        THEN NotFound(m)
        ELSE Store(found, o, list[v.name])

\* The places in their order: the override file, the environment, the
\* environment variables' file, the parameter files.
OrElse(r, Op(_)) == IF r.rc # "NOT FOUND" THEN r ELSE With(r.m, Op)

Overridden(r, i) ==
    IF r.rc # "OK" THEN r.m
    ELSE [r.m EXCEPT !.vars[i].flags = (@ \ {"settable"}) \cup {"override"},
                     !.vars[i].source = "override"]

var_set_initial(m, i, o, e) ==
    LET first == IF o # i THEN [m EXCEPT !.vars[i].source = m.vars[o].source,
                                         !.vars[i].srcfile = m.vars[o].srcfile]
                 ELSE [m EXCEPT !.vars[i].source = "default"]
        ovr(x) == Overridden(var_set_from_file(x, i, o, e.override), i)
        environ(x) == var_set_from_env(x, i, o, e)
        envfile(x) == var_set_from_file(x, i, o, e.envfile)
        file(x) == var_set_from_file(x, i, o, e.files)
        found(x) == With(With(x, environ), LAMBDA r : OrElse(r, envfile))
        last(r) == OrElse(r, file)
    IN  [With(With(With(first, ovr), found), last)
            EXCEPT !.rc = IF @ = "NOT FOUND" THEN "OK" ELSE @]
----------------------------------------------------------------------------
(* Registering. *)

NewGroup(name) == [name |-> name, valid |-> TRUE, vars |-> <<>>, subgroups |-> <<>>]

\* group_register: known groups become valid again; a component's group makes
\* its framework's first and joins its subgroups.
RECURSIVE group_register(_, _)
group_register(m, name) ==
    LET known == group_find(m, name, TRUE)
        parent == ParentOf[name]
        added(x) == [x EXCEPT !.groups = Append(@, NewGroup(name))]
        joined(x) == [x EXCEPT !.groups[group_find(x, parent, TRUE)].subgroups = Append(@, Len(x.groups))]
    IN  IF known # 0 THEN [m EXCEPT !.groups[known].valid = TRUE]
        ELSE IF parent = None THEN added(m)
        ELSE With(With(group_register(m, parent), added), joined)

\* The entry a declaration d makes.
NewVar(m, d, syn) ==
    [name |-> d.name, group |-> group_find(m, d.group, TRUE), type |-> d.type,
     flags |-> IF d.readonly THEN d.flags \ {"settable"} ELSE d.flags,
     valid |-> FALSE, syn |-> syn, synonyms |-> <<>>, source |-> "default",
     srcfile |-> None, storage |-> None]

\* register_variable: the result is the new state and an error, if any.
Made(m, d, syn) ==
    LET known == var_find(m, d.name, TRUE)
        added(x) == [x EXCEPT !.vars = Append(@, NewVar(x, d, syn))]
        listed(x) == [x EXCEPT !.groups[x.vars[Len(x.vars)].group].vars = Append(@, Len(x.vars))]
    IN  IF known # 0 THEN [m EXCEPT !.groups[m.vars[known].group].valid = TRUE]
        ELSE With(With(group_register(m, d.group), added), listed)

\* The value that stands in the storage is left there: it is the default.
Bound(m, i, d, syn) ==
    IF syn = 0
    THEN [m EXCEPT !.vars[i].storage = d.cell, !.vars[i].valid = TRUE,
                   !.bound[d.cell] = IF @ < 2 THEN @ + 1 ELSE 2]
    ELSE [m EXCEPT !.vars[syn].synonyms = Append(@, i), !.vars[i].valid = TRUE]

register_variable(m, d, syn, e) ==
    IF var_find(m, d.name, TRUE) = 0 /\ {"default only", "settable"} \subseteq d.flags
    THEN [m |-> group_register(m, d.group), rc |-> "ERROR"]
    ELSE With(Made(m, d, syn), LAMBDA x :
         LET i == var_find(x, d.name, TRUE) IN
         With(Bound(x, i, d, syn), LAMBDA y :
              var_set_initial(y, i, IF syn = 0 THEN i ELSE syn, e)))

\* pmix_mca_base_var_register_synonym of a registered variable.
register_synonym(m, d, e) ==
    LET of == var_find(m, d.of, TRUE)
    IN  IF of = 0 \/ m.vars[of].syn # 0 THEN [m |-> m, rc |-> "BAD PARAM"]
        ELSE register_variable(m, [d EXCEPT !.type = m.vars[of].type], of, e)

\* The component may assign the default first.
Assigned(m, d) ==
    IF d.assigned THEN [m EXCEPT !.mem[d.cell] = d.default, !.bound[d.cell] = 0] ELSE m

Register(m, d, e) ==
    IF d.of = None THEN With(Assigned(m, d), LAMBDA x : register_variable(x, d, 0, e))
    ELSE register_synonym(m, d, e)
----------------------------------------------------------------------------
(* Taking away and changing. *)

\* pmix_mca_base_var_deregister: a variable lets go of its storage, and of the
\* string in it.
deregister(m, i) ==
    LET v == m.vars[i] IN
    IF ~v.valid THEN m
    ELSE IF v.syn # 0 THEN [m EXCEPT !.vars[i].valid = FALSE]
    ELSE LET gone == [m EXCEPT !.vars[i].valid = FALSE, !.vars[i].storage = None] IN
         IF v.type = "string" THEN [gone EXCEPT !.mem[v.storage] = None] ELSE gone

RECURSIVE DeregisterAll(_, _)
DeregisterAll(m, list) ==
    LET one(x) == IF x.vars[Head(list)].valid /\ "dwg" \in x.vars[Head(list)].flags
                  THEN deregister(x, Head(list)) ELSE x
    IN  IF list = <<>> THEN m
        ELSE With(With(m, one), LAMBDA x : DeregisterAll(x, Tail(list)))

\* pmix_mca_base_var_group_deregister: the variables that go with the group,
\* then the subgroups, each only if it is still valid.
RECURSIVE group_deregister(_, _), GroupsDeregister(_, _)
group_deregister(m, g) ==
    IF g = 0 \/ ~m.groups[g].valid THEN m
    ELSE With(DeregisterAll([m EXCEPT !.groups[g].valid = FALSE], m.groups[g].vars),
              LAMBDA x : GroupsDeregister(x, m.groups[g].subgroups))
GroupsDeregister(m, list) ==
    IF list = <<>> THEN m
    ELSE With(group_deregister(m, Head(list)), LAMBDA x : GroupsDeregister(x, Tail(list)))

\* pmix_mca_base_var_set_value, from the program.
set_value(m, i, val) ==
    LET o == Original(m, i) IN
    IF ~m.vars[o].valid \/ "settable" \notin m.vars[o].flags THEN m
    ELSE [m EXCEPT !.mem[m.vars[o].storage] = val, !.vars[o].source = "set"]

\* pmix_mca_base_var_group_set_var_flag(group, SETTABLE, false).
Locked(m, g) ==
    LET hit == IF g # 0 /\ m.groups[g].valid
               THEN {Original(m, i) : i \in {m.groups[g].vars[k] : k \in DOMAIN m.groups[g].vars}}
               ELSE {}
    IN  [m EXCEPT !.vars = [i \in DOMAIN @ |->
            IF i \in hit THEN [@[i] EXCEPT !.flags = @ \ {"settable"}] ELSE @[i]]]

\* pmix_mca_base_var_finalize: every variable is destroyed, and the string its
\* storage holds is freed.
var_finalize(m) ==
    LET strings == {m.vars[i].storage : i \in {j \in DOMAIN m.vars :
                        m.vars[j].type = "string" /\ m.vars[j].storage # None}}
    IN  [m EXCEPT !.vars = <<>>, !.groups = <<>>, !.up = FALSE,
                  !.mem = [c \in DOMAIN @ |-> IF c \in strings THEN None ELSE @[c]]]

----------------------------------------------------------------------------
Members(s) == {s[i] : i \in DOMAIN s}
Without(s, x) == SelectSeq(s, LAMBDA y : y # x)

Decls == Members(FrameworkDecls) \cup UNION {Members(CompDecls[c]) : c \in Comps}

\* What a cell is compiled with.
Compiled(cell) ==
    IF \E d \in Decls : d.cell = cell /\ d.of = None /\ ~d.assigned
    THEN (CHOOSE d \in Decls : d.cell = cell /\ d.of = None).default ELSE None

\* The memory of the components of S as it is loaded.
Fresh(m, S) ==
    [m EXCEPT !.mem = [cell \in DOMAIN @ |-> IF CellOf[cell] \in S THEN Compiled(cell) ELSE @[cell]],
              !.bound = [cell \in DOMAIN @ |-> IF CellOf[cell] \in S THEN 0 ELSE @[cell]]]

\* A component's register function goes on after an error, the framework's
\* registration stops.
RECURSIVE RegisterEach(_, _, _)
RegisterEach(m, decls, e) ==
    IF decls = <<>> THEN m
    ELSE With(Register(m, Head(decls), e), LAMBDA x : RegisterEach(x.m, Tail(decls), e))

RECURSIVE RegisterAll(_, _, _)
RegisterAll(r, decls, e) ==
    IF decls = <<>> \/ r.rc # "OK" THEN r
    ELSE With(Register(r.m, Head(decls), e), LAMBDA x : RegisterAll(x, Tail(decls), e))

\* The selection variable's text as pmix_mca_base_component_parse_requested
\* reads it.
parse_requested(mm) ==
    LET text == mm.mem[FrameworkDecls[1].cell]
    IN  IF text = None THEN [ok |-> TRUE, asked |-> FALSE, include |-> TRUE, names |-> {}] ELSE Request[text]

use_component(req, c) ==
    \/ ~req.asked
    \/ req.include /\ c \in req.names
    \/ ~req.include /\ c \notin req.names

\* component_find_check: every component asked for by name is there.
component_find_check(req, list) ==
    req.include /\ req.asked => req.names \subseteq Members(list)

\* The orders in which the components of a set can stand in a list.
Orders(S) == {s \in [1 .. Cardinality(S) -> S] : Members(s) = S}

\* pmix_mca_base_component_repository_open: the shared object is loaded unless
\* its handle is still there, and the item holds one reference.
repository_open(c) == IF repo[c].handle THEN repo[c] ELSE [handle |-> TRUE, refcnt |-> 1]

\* pmix_mca_base_component_find on a freshly constructed list: the static
\* ones, then those of the repository that load.  A component whose handle is
\* still there is listed again without being counted again.
component_find(req, bad) ==
    LET wanted == {c \in Comps : use_component(req, c)}
        dyn == {c \in wanted \ Static : repo[c].handle \/ c \notin bad}
    IN  [stat |-> wanted \cap Static, dyn |-> dyn, new |-> {c \in dyn : ~repo[c].handle},
         repo |-> [c \in Comps |-> IF c \in dyn THEN repository_open(c) ELSE repo[c]]]

\* register_components: a component that refuses has registered its first n
\* variables; it is taken off the list and neither deregistered nor released.
RECURSIVE register_components(_, _, _, _)
register_components(mm, list, refuse, n) ==
    LET decls == CompDecls[Head(list)] IN
    IF list = <<>> THEN mm
    ELSE With(RegisterEach(mm, IF Head(list) \in refuse THEN SubSeq(decls, 1, IF n < Len(decls) THEN n ELSE Len(decls))
                               ELSE decls, env),
              LAMBDA x : register_components(x, Tail(list), refuse, n))
----------------------------------------------------------------------------
(* Unloading. *)

\* pmix_mca_base_component_repository_release_internal: the component's
\* group goes, then the shared object and its memory.
release_internal(s, c) ==
    [s EXCEPT !.m = group_deregister(@, group_find(@, CompGroup[c], FALSE)),
              !.repo[c] = [handle |-> FALSE, refcnt |-> 0]]

\* pmix_mca_base_component_unload: the component's group goes, and with the
\* last reference the shared object.
Unload(s, c) ==
    LET s1 == [s EXCEPT !.m = group_deregister(@, group_find(@, CompGroup[c], FALSE))]
    IN  IF c \in Static THEN s1
        ELSE IF s.repo[c].refcnt = 1 THEN release_internal(s1, c)
        ELSE [s1 EXCEPT !.repo[c].refcnt = @ - 1]

RECURSIVE UnloadAll(_, _)
UnloadAll(s, list) ==
    IF list = <<>> THEN s
    ELSE With(Unload(s, Head(list)), LAMBDA x : UnloadAll(x, Tail(list)))

Loaded(c) == c \in Static \/ repo[c].handle

\* A component of the list was unloaded behind the framework's back: to look at
\* it is the process' end.
Dangling == \E c \in Members(fw.comps) : ~Loaded(c)
----------------------------------------------------------------------------
(* Registering and opening. *)

\* pmix_mca_base_framework_register, as the state after it and its result.
\* The count goes up first and stays up when anything after it fails.
RegisterResults(bad, refuse, n) ==
    LET counted == [fw EXCEPT !.refcnt = @ + 1]
        r == RegisterAll([m |-> group_register(mca, Framework), rc |-> "OK"], FrameworkDecls, env)
        req == parse_requested(r.m)
        found == component_find(req, bad)
        st == [rc |-> "ERROR", m |-> r.m, fw |-> [counted EXCEPT !.comps = <<>>], repo |-> repo]
    IN  IF fw.registered THEN {[rc |-> "OK", m |-> mca, fw |-> counted, repo |-> repo]}
        ELSE IF r.rc # "OK" \/ ~req.ok THEN {st}
        ELSE UNION {
            LET list == a \o b
                kept == SelectSeq(list, LAMBDA c : c \notin refuse)
            IN  IF ~component_find_check(req, list)
                THEN {[st EXCEPT !.m = Fresh(@, found.new), !.repo = found.repo, !.fw.comps = list]}
                ELSE {[rc |-> "OK", m |-> register_components(Fresh(r.m, found.new), list, refuse, n),
                       fw |-> [counted EXCEPT !.comps = kept, !.registered = TRUE],
                       repo |-> found.repo]}
            : <<a, b>> \in Orders(found.stat) \X Orders(found.dyn)}

\* pmix_mca_base_components_filter: what the selection no longer names is
\* unloaded, and everything it names must be there.
components_filter(s) ==
    LET req == parse_requested(s.m)
        kept == SelectSeq(s.fw.comps, LAMBDA c : use_component(req, c))
        out == SelectSeq(s.fw.comps, LAMBDA c : ~use_component(req, c))
    IN  IF ~req.ok THEN [s EXCEPT !.rc = "ERROR"]
        ELSE [UnloadAll([s EXCEPT !.fw.comps = kept], out)
                EXCEPT !.rc = IF component_find_check(req, kept) THEN "OK" ELSE "ERROR"]

\* open_components: those that will not open are closed and taken off.
open_components(s, refuse) ==
    UnloadAll([s EXCEPT !.fw.comps = SelectSeq(@, LAMBDA c : c \notin refuse)],
              SelectSeq(s.fw.comps, LAMBDA c : c \in refuse))

\* pmix_mca_base_framework_open after the registration: the framework's own
\* variables are locked first, and the reference is given back on failure.
Opened(s, refuse) ==
    With(components_filter([s EXCEPT !.m = Locked(@, group_find(@, Framework, FALSE))]), LAMBDA r :
         IF r.rc # "OK" THEN [r EXCEPT !.fw.refcnt = @ - 1]
         ELSE [open_components(r, refuse) EXCEPT !.fw.open = TRUE])

Call == calls < MaxCalls /\ calls' = calls + 1

framework_open ==
    /\ Call
    /\ mca.up /\ ~mca.down
    /\ users < MaxUsers
    /\ \E bad \in SUBSET (Comps \ Static), refuse \in SUBSET Comps :
       \E shut \in SUBSET (Comps \ refuse), n \in IF refuse = {} THEN {0} ELSE RefusedAfter :
       \E r \in RegisterResults(bad, refuse, n) :
          LET s == IF r.rc # "OK" \/ r.fw.open THEN r
                   ELSE IF Dangling /\ fw.registered THEN [r EXCEPT !.m.down = TRUE]
                   ELSE Opened(r, shut)
          IN  /\ mca' = s.m /\ fw' = s.fw /\ repo' = s.repo
              /\ users' = IF s.rc = "OK" THEN users + 1 ELSE users
              /\ past' = [past EXCEPT !.lost = IF r.rc # "OK" THEN @ + 1 ELSE @,
                                      !.failed = @ \/ s.rc # "OK"]
    /\ UNCHANGED env

\* pmix_mca_base_framework_close by a user that opened it.  (A framework whose
\* components dangle has a lost count too many to be closed here.)
framework_close ==
    /\ Call
    /\ mca.up /\ ~mca.down
    /\ users > 0
    /\ users' = users - 1
    /\ IF fw.refcnt > 1
       THEN fw' = [fw EXCEPT !.refcnt = @ - 1] /\ UNCHANGED <<mca, repo>>
       ELSE LET m1 == group_deregister(mca, group_find(mca, Framework, FALSE))
                s == UnloadAll([m |-> m1, repo |-> repo], fw.comps)
            IN  /\ mca' = s.m /\ repo' = s.repo
                /\ fw' = [refcnt |-> 0, registered |-> FALSE, open |-> FALSE, comps |-> <<>>]
    /\ UNCHANGED <<env, past>>

\* pmix_mca_base_select on an open framework: the first of the components with
\* the highest priority stays; a component without a module has none.
select ==
    /\ Call
    /\ fw.open /\ mca.up /\ ~mca.down
    /\ \E priority \in [Members(fw.comps) -> 0 .. 2] :
          LET able == {i \in DOMAIN fw.comps : priority[fw.comps[i]] > 0}
              best == {i \in able : \A j \in able :
                          \/ priority[fw.comps[i]] > priority[fw.comps[j]]
                          \/ priority[fw.comps[i]] = priority[fw.comps[j]] /\ i <= j}
              kept == {fw.comps[i] : i \in best}
              s == IF Dangling THEN [m |-> [mca EXCEPT !.down = TRUE], repo |-> repo]
                   ELSE UnloadAll([m |-> mca, repo |-> repo], SelectSeq(fw.comps, LAMBDA c : c \notin kept))
          IN  /\ fw' = [fw EXCEPT !.comps = SelectSeq(@, LAMBDA c : c \in kept)]
              /\ mca' = s.m /\ repo' = s.repo
    /\ UNCHANGED <<env, users, past>>

\* The program sets a variable.
var_set_value ==
    /\ Call
    /\ ~mca.down
    /\ \E i \in DOMAIN mca.vars, val \in SetValues : mca' = set_value(mca, i, val)
    /\ UNCHANGED <<env, fw, repo, users, past>>

\* The end of pmix_rte_finalize, when each user has closed the framework:
\* pmix_mca_base_var_finalize, and then pmix_mca_base_close, whose
\* pmix_mca_base_component_repository_finalize destroys every item of the
\* repository and unloads what is still loaded, whether or not the framework
\* has let go of it.
mca_base_close ==
    /\ Call
    /\ mca.up /\ ~mca.down
    /\ users = 0
    /\ LET s == [m |-> var_finalize(mca), repo |-> repo]
           all == CHOOSE o \in Orders(Comps \ Static) : TRUE
           left == FoldLeft(release_internal, s, all)
       IN  mca' = left.m /\ repo' = left.repo
    /\ past' = [past EXCEPT !.stale = @ \/ fw.registered]
    /\ UNCHANGED <<env, fw, users>>

\* pmix_rte_init sets the variable system and the repository up again.
mca_base_open ==
    /\ ~mca.up
    /\ mca' = [mca EXCEPT !.up = TRUE]
    /\ UNCHANGED <<env, fw, repo, users, past, calls>>
----------------------------------------------------------------------------
Init ==
    /\ env \in {[e EXCEPT !.files = read_files(@, [n \in DOMAIN e.environ |-> Absent])] : e \in Environments}
    /\ mca = [vars |-> <<>>, groups |-> <<>>, mem |-> [c \in DOMAIN CellOf |-> Compiled(c)],
              bound |-> [c \in DOMAIN CellOf |-> 0], up |-> TRUE, down |-> FALSE]
    /\ fw = [refcnt |-> 0, registered |-> FALSE, open |-> FALSE, comps |-> <<>>]
    /\ repo = [c \in Comps |-> [handle |-> FALSE, refcnt |-> 0]]
    /\ users = 0 /\ past = [lost |-> 0, failed |-> FALSE, stale |-> FALSE] /\ calls = 0

Next ==
    \/ framework_open \/ framework_close \/ select \/ var_set_value
    \/ mca_base_close \/ mca_base_open

Spec == Init /\ [][Next]_vars
----------------------------------------------------------------------------
\* No variable points into the memory of a component that was unloaded: what
\* a component registered is deregistered before it is unloaded, whichever of
\* the five ways it goes (release_internal: "ensure all variables are
\* deregistered before we dlclose the component").
StorageLoaded ==
    \A i \in DOMAIN mca.vars :
        mca.vars[i].storage # None /\ CellOf[mca.vars[i].storage] # None => Loaded(CellOf[mca.vars[i].storage])

\* A component the framework lists is listed once, and is loaded unless the MCA
\* was shut down while the framework was still registered; and that takes an
\* open that failed, which gave no count back or left the framework
\* registered for nobody.
ListedLoaded ==
    /\ Cardinality(Members(fw.comps)) = Len(fw.comps)
    /\ Dangling => past.stale
    /\ past.stale => past.failed

\* Not so without that exception.
ListedAlwaysLoaded == ~Dangling

\* The framework stays open while someone who opened it has not closed it, and
\* its count is that of its users and of the registrations that failed.
OpenWhileUsed ==
    /\ users > 0 /\ ~mca.down => fw.open /\ fw.registered
    /\ ~mca.down => fw.refcnt = users + past.lost

\* The text the first of some places gives for a name.
First(places, name) ==
    LET said == SelectSeq(places, LAMBDA p : p[name] # Absent)
    IN  IF said = <<>> THEN Absent ELSE said[1][name]

Given(name) == First(<<env.override, env.environ, env.envfile, env.files>>, name)

\* For a synonym the override file comes last: its original is only marked as
\* set from a file, and the other places are looked at with the original.
GivenAsSynonym(name) == First(<<env.environ, env.envfile, env.files, env.override>>, name)

\* The text that decides: of the synonyms given one, the last, unless the
\* override file names the variable itself.
Deciding(v) ==
    LET told == SelectSeq(v.synonyms, LAMBDA s :
                    mca.vars[s].valid /\ GivenAsSynonym(mca.vars[s].name) # Absent)
    IN  IF told = <<>> \/ env.override[v.name] # Absent THEN Given(v.name)
        ELSE GivenAsSynonym(mca.vars[told[Len(told)]].name)

\* A valid variable holds what the first place that names it gives: the
\* override file, the environment, the environment file, the parameter files
\* (what is said of a synonym goes before, see Deciding), unless the program
\* has set it or the text could not be read.  Named nowhere, it holds its
\* default, if its storage was not registered before: memory that stays loaded
\* keeps what was there, and for a string nothing.
ValueByPriority ==
    \A i \in DOMAIN mca.vars : \A d \in Decls :
        LET v == mca.vars[i]
            text == Deciding(v)
            c == Converted(v.type, text)
        IN  v.valid /\ v.syn = 0 /\ v.source # "set" /\ d.name = v.name /\ ~mca.down =>
            IF text = Absent \/ "default only" \in v.flags
            THEN mca.bound[v.storage] < 2 => mca.mem[v.storage] = d.default
            ELSE c.rc = "OK" => mca.mem[v.storage] = c.val

\* Not so: a variable named nowhere has its default whenever it is registered.
DefaultComesBack ==
    \A i \in DOMAIN mca.vars : \A d \in Decls :
        LET v == mca.vars[i]
        IN  v.valid /\ v.syn = 0 /\ v.source = "default" /\ d.name = v.name => mca.mem[v.storage] = d.default

\* Not so: what the override file says of a name, a synonym's too, is the value.
OverrideWins ==
    \A i \in DOMAIN mca.vars :
        LET v == mca.vars[i]
            o == mca.vars[Original(mca, i)]
            c == Converted(v.type, env.override[v.name])
        IN  v.valid /\ o.valid /\ env.override[v.name] # Absent /\ c.rc = "OK" => mca.mem[o.storage] = c.val

\* What the override file set under a variable's own name stays: neither the
\* environment, nor another file, nor the program changes it while the variable
\* is registered.
OverrideKept ==
    [][\A i \in DOMAIN mca.vars :
          i \in DOMAIN mca'.vars /\ mca.vars[i].syn = 0 /\ mca.vars[i].source = "override"
          /\ mca.vars[i].valid /\ mca'.vars[i].valid =>
              mca'.mem[mca.vars[i].storage] = mca.mem[mca.vars[i].storage]]_vars

\* Groups and variables agree, however often components come back: each
\* variable is in one group's list once, each component's group in its
\* framework's once, and a variable that goes with its group is valid only
\* while the group is.
GroupsSound ==
    /\ \A i \in DOMAIN mca.vars :
          /\ \A g \in DOMAIN mca.groups :
                Cardinality({k \in DOMAIN mca.groups[g].vars : mca.groups[g].vars[k] = i})
                    = IF g = mca.vars[i].group THEN 1 ELSE 0
          /\ mca.vars[i].valid /\ "dwg" \in mca.vars[i].flags => mca.groups[mca.vars[i].group].valid
    /\ \A g \in DOMAIN mca.groups :
          Cardinality(Members(mca.groups[g].subgroups)) = Len(mca.groups[g].subgroups)

=============================================================================
