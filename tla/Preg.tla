-------------------------------- MODULE Preg --------------------------------
(***************************************************************************)
(* The maps of a job: the host names the nodes and the ranks on each, the    *)
(* preg framework compresses both lists into regular expressions, the server *)
(* parses them back into its table when the namespace is registered, and a   *)
(* process resolves nodes and peers from the table it was given.             *)
(*                                                                           *)
(* A node name is its leading letters, the number that follows (written with *)
(* `digits` digits, none for a name that cannot be compressed) and the rest. *)
(* The ranks of a node are the comma-separated elements the host wrote, each *)
(* the range lo-hi (a single rank when lo = hi).                             *)
(***************************************************************************)
EXTENDS Integers, Sequences, FiniteSets

CONSTANTS Jobs,     \* the jobs a host may describe: [names, ranks] of equal length
          IntBits   \* the width of an int

VARIABLES job,      \* the job described
          up,       \* init_cntr > 0
          regex,    \* the node map: a sequence of pmix_regex_value_t
          ppn,      \* the process map: for each node a sequence of ranges
          table,    \* the server's tracker of the namespace
          known,    \* the process holds a copy of that tracker
          answer    \* of the last call
vars == <<job, up, regex, ppn, table, known, answer>>

\* Op of the value of x, which TLC then computes once.
With(x, Op(_)) == CHOOSE r \in {Op(v) : v \in {x}} : TRUE

Fold(s, base, Op(_, _)) ==
  LET f[i \in 0..Len(s)] == IF i = 0 THEN base ELSE LET Step(acc) == Op(acc, s[i]) IN With(f[i - 1], Step) IN f[Len(s)]
Concat(ss) == Fold(ss, <<>>, \o)
Map(s, Op(_)) == [i \in DOMAIN s |-> Op(s[i])]
Absolute(n) == IF n < 0 THEN -n ELSE n

\* ---- generation ---------------------------------------------------------------------

\* strtol into an int.
vnum(n) == ((n + 2^(IntBits - 1)) % 2^IntBits) - 2^(IntBits - 1)

range_t(start, cnt) == [start |-> start, cnt |-> cnt]

\* One more number for the ranges of a name.
extend(ranges, n) ==
  LET last == ranges[Len(ranges)]
  IN  IF n # last.start + last.cnt THEN Append(ranges, range_t(n, 1))
      ELSE [ranges EXCEPT ![Len(ranges)].cnt = @ + 1]

Matches(value, name) ==
  value.prefix = name.prefix /\ value.suffix = name.suffix /\ value.digits = name.digits

\* One name of the input; a name that cannot be compressed is a value without ranges.
AddName(values, name) ==
  LET same == {i \in DOMAIN values : Matches(values[i], name)}
      value(rs) == [prefix |-> name.prefix, digits |-> name.digits, suffix |-> name.suffix, ranges |-> rs]
  IN  CASE name.digits = 0 -> Append(values, value(<<>>))
        [] name.digits > 0 /\ same = {} -> Append(values, value(<<range_t(vnum(name.num), 1)>>))
        [] OTHER -> LET i == CHOOSE j \in same : \A k \in same : j <= k
                    IN  [values EXCEPT ![i].ranges = extend(@, vnum(name.num))]

generate_node_regex(names) == Fold(names, <<>>, AddName)

\* One element of a node's ranks: a range that continues the last one counts for one rank.
AddElement(ranges, e) ==
  IF ranges # <<>> /\ e.lo = ranges[Len(ranges)].start + ranges[Len(ranges)].cnt
  THEN [ranges EXCEPT ![Len(ranges)].cnt = @ + 1]
  ELSE Append(ranges, range_t(e.lo, e.hi - e.lo + 1))

Compress(elements) == Fold(elements, <<>>, AddElement)

\* Splitting at ';' drops a node without ranks; nothing is left of a list of such nodes.
generate_ppn(ranks) == LET Some(es) == es # <<>> IN Map(SelectSeq(ranks, Some), Compress)

\* ---- parsing ------------------------------------------------------------------------

Failed(rc) == [rc |-> rc, value |-> <<>>]
Done(v) == [rc |-> "SUCCESS", value |-> v]

Name(value, n) == [prefix |-> value.prefix, digits |-> value.digits, num |-> n, suffix |-> value.suffix]

\* The numbers of one range as they are written: the digits without a sign.
regex_parse_value_range(value, r) ==
  LET lo == Absolute(r.start)
      hi == Absolute(r.start + r.cnt - 1)
  IN  [n \in 1..(hi - lo + 1) |-> Name(value, lo + n - 1)]

regex_parse_value_ranges(value) ==
  LET OfRange(r) == regex_parse_value_range(value, r) IN Concat(Map(value.ranges, OfRange))

pmix_regex_extract_nodes(values) ==
  LET OfValue(v) == IF v.ranges = <<>> THEN <<Name(v, 0)>> ELSE regex_parse_value_ranges(v)
  IN  Concat(Map(values, OfValue))

Mut_extract_ppn(nodes) ==
  LET OfRange(r) == [n \in 1..(IF r.cnt > 1 THEN r.cnt - 1 ELSE 1) |-> r.start + n - 1]
      OfNode(rs) == Concat(Map(rs, OfRange))
  IN  Map(nodes, OfNode)
pmix_regex_extract_ppn(nodes) ==
  LET OfRange(r) == [n \in 1..r.cnt |-> r.start + n - 1]
      OfNode(rs) == Concat(Map(rs, OfRange))
  IN  Map(nodes, OfNode)

\* An empty list is written "pmix[]", which has nothing to parse.
parse_nodes(values) == IF values = <<>> THEN Failed("BAD_PARAM") ELSE Done(pmix_regex_extract_nodes(values))
parse_procs(nodes) == IF nodes = <<>> THEN Failed("BAD_PARAM") ELSE Done(pmix_regex_extract_ppn(nodes))

\* The framework's functions: the status of a module that fails is not handed on.
Stub(result) == IF result.rc = "SUCCESS" THEN result ELSE Failed("NOT_SUPPORTED")
pmix_preg_base_parse_nodes(values) == Stub(parse_nodes(values))
pmix_preg_base_parse_procs(nodes) == Stub(parse_procs(nodes))

\* ---- the server's table -------------------------------------------------------------

Empty == [x \in {} |-> <<>>]
Absent == [rc |-> "NOT_FOUND", map |-> <<>>, peers |-> Empty, host |-> Empty]

\* The peers of a node met again are written into a copy and lost; its ranks are placed there.
store_map(map, nodes, procs) ==
  LET First(x) == CHOOSE i \in DOMAIN nodes : nodes[i] = x /\ \A j \in DOMAIN nodes : nodes[j] = x => i <= j
      On(i) == {procs[i][k] : k \in DOMAIN procs[i]}
      Last(r) == CHOOSE i \in DOMAIN nodes : r \in On(i) /\ \A j \in DOMAIN nodes : r \in On(j) => j <= i
  IN  IF Len(nodes) # Len(procs) THEN [Absent EXCEPT !.rc = "BAD_PARAM", !.map = map]
      ELSE [rc |-> "SUCCESS", map |-> map,
            peers |-> [x \in {nodes[i] : i \in DOMAIN nodes} |-> procs[First(x)]],
            host |-> [r \in UNION {On(i) : i \in DOMAIN nodes} |-> nodes[Last(r)]]]

\* ---- resolution ---------------------------------------------------------------------

resolve_peers(node, held) ==
  CASE ~held -> Failed("INVALID_NAMESPACE")
    [] held /\ node \notin DOMAIN table.peers -> Failed("NOT_FOUND")
    [] OTHER -> Done(table.peers[node])

resolve_nodes(held) == IF held THEN Done(table.map) ELSE Failed("INVALID_NAMESPACE")

pmix_preg_base_resolve_peers(node, held) == Stub(resolve_peers(node, held))
pmix_preg_base_resolve_nodes(held) == Stub(resolve_nodes(held))

_resolve_peers(node, held) == pmix_preg_base_resolve_peers(node, held)
_resolve_nodes(held) ==
  LET map == pmix_preg_base_resolve_nodes(held)
  IN  IF map.rc # "SUCCESS" THEN map ELSE pmix_preg_base_parse_nodes(map.value)

\* ---- the calls ----------------------------------------------------------------------

None == [made |-> FALSE, value |-> <<>>]
Made(v) == [made |-> TRUE, value |-> v]
Told(call, node, result) == [call |-> call, node |-> node, rc |-> result.rc, value |-> result.value]

PMIx_generate_regex ==
  /\ ~regex.made
  /\ IF up THEN regex' = Made(generate_node_regex(job.names)) /\ UNCHANGED answer
     ELSE answer' = Told("generate", <<>>, Failed("INIT")) /\ UNCHANGED regex
  /\ UNCHANGED <<job, up, ppn, table, known>>

\* Splitting a list without a rank gives no array, and generate_ppn reads its first
\* element: the process dies.
PMIx_generate_ppn ==
  /\ ~ppn.made
  /\ IF ~up THEN answer' = Told("generate", <<>>, Failed("INIT")) /\ UNCHANGED ppn
     ELSE IF generate_ppn(job.ranks) = <<>> THEN answer' = Told("crash", <<>>, Done(<<>>)) /\ UNCHANGED ppn
     ELSE ppn' = Made(generate_ppn(job.ranks)) /\ UNCHANGED answer
  /\ UNCHANGED <<job, up, regex, table, known>>

\* The maps of a namespace being registered.
hash_cache_job_info ==
  /\ regex.made /\ ppn.made /\ table = Absent
  /\ \E nodes \in {pmix_preg_base_parse_nodes(regex.value)}, procs \in {pmix_preg_base_parse_procs(ppn.value)} :
         table' = IF nodes.rc # "SUCCESS" \/ procs.rc # "SUCCESS"
                  THEN [Absent EXCEPT !.rc = "NOT_SUPPORTED", !.map = regex.value]
                  ELSE store_map(regex.value, nodes.value, procs.value)
  /\ UNCHANGED <<job, up, regex, ppn, known, answer>>

\* The process is given the job data of the namespace: its own at PMIx_Init, another's by PMIx_Get.
Learn ==
  /\ table.rc = "SUCCESS" /\ ~known
  /\ known' = TRUE
  /\ UNCHANGED <<job, up, regex, ppn, table, answer>>

\* A namespace that is not held is asked of the server and the call repeated.
Resolve(call, node, Op(_)) ==
  LET asked == Op(known).rc = "INVALID_NAMESPACE"
      got == table.rc = "SUCCESS"
  IN  /\ known' = (known \/ (up /\ asked /\ got))
      /\ answer' = Told(call, node, CASE ~up -> Failed("INIT")
                                      [] up /\ asked /\ ~got -> Failed("NOT_FOUND")
                                      [] OTHER -> Op(known'))
      /\ UNCHANGED <<job, up, regex, ppn, table>>

PMIx_Resolve_peers(node) == LET Op(held) == _resolve_peers(node, held) IN Resolve("peers", node, Op)
PMIx_Resolve_nodes == Resolve("nodes", <<>>, _resolve_nodes)

Init ==
  /\ job \in Jobs
  /\ up \in BOOLEAN
  /\ regex = None /\ ppn = None
  /\ table = Absent
  /\ known = FALSE
  /\ answer = Told("none", <<>>, Done(<<>>))

Names == {job.names[i] : i \in DOMAIN job.names}

Next ==
  /\ answer.call # "crash"
  /\ \/ PMIx_generate_regex
     \/ PMIx_generate_ppn
     \/ hash_cache_job_info
     \/ Learn
     \/ \E node \in Names : PMIx_Resolve_peers(node)
     \/ PMIx_Resolve_nodes

Spec == Init /\ [][Next]_vars

\* ---- the properties -----------------------------------------------------------------

Class(name) == IF name.digits = 0 THEN <<name.prefix>> ELSE <<name.prefix, name.suffix, name.digits>>
Of(class, names) == LET In(x) == Class(x) = class IN SelectSeq(names, In)
Fits == \A x \in Names : x.num < 2^(IntBits - 1)

\* The names a job's node map gives back are the names the host wrote, zeros and all, each as
\* often as it was written, and the names that were compressed together come in the order
\* written (generate_node_regex against pmix_regex_extract_nodes).
NodesKept ==
  regex.made /\ Fits /\ job.names # <<>> =>
    \A parsed \in {pmix_preg_base_parse_nodes(regex.value)} :
        /\ parsed.rc = "SUCCESS"
        /\ \A class \in {Class(x) : x \in Names \cup {parsed.value[i] : i \in DOMAIN parsed.value}} :
             Of(class, parsed.value) = Of(class, job.names)

Together(names) ==
  \A i, j, k \in DOMAIN names : i < j /\ j < k /\ Class(names[i]) = Class(names[k]) => Class(names[j]) = Class(names[i])
Detached(es) == \A i \in 1..(Len(es) - 1) : es[i + 1].lo = es[i].hi + 1 => es[i + 1].hi = es[i + 1].lo
Orderly == Fits /\ Together(job.names) /\ \A i \in DOMAIN job.ranks : job.ranks[i] # <<>> /\ Detached(job.ranks[i])
Written(es) == LET OfElement(e) == [n \in 1..(e.hi - e.lo + 1) |-> e.lo + n - 1] IN Concat(Map(es, OfElement))

Times(node) == Cardinality({i \in DOMAIN job.names : job.names[i] = node})

\* A process that holds the job data of a namespace resolves a node to exactly the ranks the host
\* placed there, after both maps were compressed, parsed and stored, and of a node that was named
\* several times to the ranks it was first named with; this holds of jobs whose like-named nodes
\* are written together and whose ranges are not split where they touch.
PeersAsPlaced ==
  [][answer' # answer /\ answer'.call = "peers" /\ up /\ known /\ Orderly =>
       /\ answer'.rc = "SUCCESS"
       /\ \A i \in DOMAIN job.names :
            job.names[i] = answer'.node /\ (\A j \in 1..(i - 1) : job.names[j] # answer'.node)
              => answer'.value = Written(job.ranks[i])]_vars

PeersOf(node) == {table.peers[node][k] : k \in DOMAIN table.peers[node]}
PlacedOn(node) == {r \in DOMAIN table.host : table.host[r] = node}
\* The two halves of what store_map records agree: the peers of a node are the ranks whose node
\* it is, whatever became of the two maps on the way.  A node that was named several times has
\* lost the peers of all mentions but the first; only that first list is among its ranks.
HostsAgree ==
  table.rc = "SUCCESS" /\ Fits =>
    \A node \in DOMAIN table.peers :
      IF Times(node) > 1 THEN PeersOf(node) \subseteq PlacedOn(node) ELSE PeersOf(node) = PlacedOn(node)

\* The peers of a node are all the ranks placed there: a node met again is updated ("we will
\* update this entry").  It does not hold: store_map updates the copy pmix_hash_fetch made.
AllPeersKept ==
  table.rc = "SUCCESS" /\ Fits => \A node \in DOMAIN table.peers : PeersOf(node) = PlacedOn(node)

\* The map of a job without processes is made or refused.  It does not hold: the call crashes.
NoCrash == answer.call # "crash"

\* A node map is parsed into the list the host wrote ("we do this to preserve order"), so that
\* the i-th node has the i-th node's ranks.
NodesInOrder == regex.made /\ Fits /\ job.names # <<>> => pmix_preg_base_parse_nodes(regex.value).value = job.names

\* A namespace the process does not hold is asked of the server before its peers are resolved.
ServerIsAsked ==
  [][answer' # answer /\ answer'.call = "peers" /\ up /\ Orderly /\ table.rc = "SUCCESS" => answer'.rc = "SUCCESS"]_vars
=============================================================================
