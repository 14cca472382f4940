------------------------------- MODULE MCData -------------------------------
(***************************************************************************)
(* The data layer: messages packed and unpacked by the bfrops components,    *)
(* data copied by them, and the buffers below.  One part runs at a time.     *)
(***************************************************************************)
EXTENDS Buffers, TLC

CONSTANTS Parts, BfropsComponents

VARIABLES part, msg, pbuf, sent, cut, got, call, copy, freed, seen,
          job, up, regex, ppn, table, known, answer
packing == <<msg, pbuf, sent, cut, got>>
copying == <<call, copy, freed, seen>>
maps == <<job, up, regex, ppn, table, known, answer>>

MCPayloads == {<<>>, <<"x">>, <<"y", "x">>}

\* ---- messages -----------------------------------------------------------------

Scalar == [t \in {"BOOL", "BYTE", "SIZE", "PID", "INT", "INT8", "INT16", "INT32", "INT64", "UINT",
                  "UINT8", "UINT16", "UINT32", "UINT64", "TIME", "STATUS", "PERSIST", "POINTER",
                  "SCOPE", "DATA_RANGE", "COMMAND", "INFO_DIRECTIVES", "DATA_TYPE", "PROC_STATE",
                  "PROC_RANK", "ALLOC_DIRECTIVE", "IOF_CHANNEL"} |-> 1]
V == [type |-> "INT", data |-> 7]
I == [key |-> 3, flags |-> 1, type |-> "STRING", data |-> 4]
Blob == [size |-> 2, bytes |-> <<1, 2>>]
P == [nspace |-> 3, rank |-> 1]
Compound ==
  [STRING |-> 3, FLOAT |-> 1234567, DOUBLE |-> 20, TIMEVAL |-> [sec |-> 5, usec |-> 6],
   VALUE |-> V, PROC |-> P, INFO |-> I, BYTE_OBJECT |-> Blob, COMPRESSED_STRING |-> Blob,
   BUFFER |-> [type |-> 1, used |-> 2, bytes |-> <<1, 2>>],
   MODEX |-> [size |-> 2, blob |-> <<1, 2>>],
   APP |-> [cmd |-> 2, argc |-> 2, argv |-> <<2, 3>>, envc |-> 1, env |-> <<4>>, cwd |-> 0,
            maxprocs |-> 2, ninfo |-> 1, info |-> <<I>>],
   PDATA |-> [proc |-> P, key |-> 2, type |-> "PROC", data |-> P],
   KVAL |-> [key |-> 2, value |-> V],
   PROC_INFO |-> [proc |-> P, hostname |-> 2, executable_name |-> 0, pid |-> 9, exit_code |-> 3,
                  state |-> 1],
   DATA_ARRAY |-> [type |-> "INT", size |-> 2, array |-> <<1, 2>>],
   QUERY |-> [nkeys |-> 2, keys |-> <<2, 3>>, nqual |-> 1, qualifiers |-> <<I>>],
   INFO_ARRAY |-> [size |-> 1, array |-> <<I>>],
   ENVAR |-> [envar |-> 2, value |-> 3, separator |-> 58]]
MCSample == Scalar @@ Compound

MCMessages ==
  {m \in [component : BfropsComponents, type : DOMAIN MCSample,
          form : {"one", "two", "value", "array", "wide", "wide value"}, desc : BOOLEAN,
          sender : {"lp64", "ilp32"}, receiver : {"lp64", "ilp32"}, room : 1..2, junk : 0..1] :
     /\ m.junk = IF m.sender = m.receiver THEN 0 ELSE 1
     /\ m.form \in {"wide", "wide value"} => m.type = "SIZE" /\ m.sender = "lp64"}

Pk == INSTANCE Packing WITH Sample <- MCSample, Messages <- MCMessages, buf <- pbuf

\* ---- copies -------------------------------------------------------------------

C == INSTANCE Copying WITH Calls <- {}
PlainTypes == C!Fixed \cup C!Marks \cup {"DOUBLE", "DATA_TYPE"}
InData(t, n) == C!Datum(t, [data |-> C!Here(n)], <<>>)
Pointed(t) == C!Datum(t, [data |-> C!InBlock(7)], <<>>)
BlockTypes == {"STRING", "BYTE_OBJECT", "COMPRESSED_STRING"}
Value(p) == C!Datum("VALUE", [type |-> C!Here(1)], <<p>>)
Info(p) == C!Datum("INFO", [key |-> C!Here(2), flags |-> C!Here(3)], <<Value(p)>>)
Pinfo(b, h, e) ==
  C!Datum("PROC_INFO", [block |-> b, proc |-> C!Here(2), hostname |-> h, executable_name |-> e,
                      pid |-> C!Here(3), exit_code |-> C!Here(4), state |-> C!Here(5)], <<>>)
Pdata(p) == C!Datum("PDATA", [nspace |-> C!Here(1), rank |-> C!Here(2), key |-> C!Here(3)], <<Value(p)>>)
App(c, is) == C!Datum("APP", [cmd |-> C!InBlock(1), argv |-> C!InBlock(2), env |-> C!InBlock(3), cwd |-> c,
                            maxprocs |-> C!Here(4)], is)
Query(k, is) == C!Datum("QUERY", [keys |-> k], is)
Kval(p) == C!Datum("KVAL", [key |-> C!InBlock(2)], <<Value(p)>>)
Envar(v) == C!Datum("ENVAR", [envar |-> C!InBlock(2), value |-> v, separator |-> C!Here(3)], <<>>)
DataArray(es) == C!Datum("DATA_ARRAY", [block |-> C!InBlock(1)], es)
MayBeNull == {C!Null, C!InBlock(6)}

\* What a value can hold.
Held ==
  {InData(t, n) : t \in PlainTypes, n \in {4, 200}} \cup {Pointed(t) : t \in BlockTypes \cup {"PROC"}}
    \cup {C!Datum("STRING", [data |-> C!Null], <<>>)}
    \cup {Pinfo(C!InBlock(1), h, e) : h \in MayBeNull, e \in MayBeNull} \cup {Envar(v) : v \in MayBeNull}
ArrayElements ==
  {InData(t, 4) : t \in PlainTypes} \cup {Pointed(t) : t \in BlockTypes \cup {"MODEX"}} \cup {InData("PROC", 2)}
    \cup {Value(p) : p \in {InData("INT", 1), Pointed("STRING")}}
    \cup {Info(p) : p \in {InData("INT", 1), InData("POINTER", 3), Pointed("STRING"), Pointed("BYTE_OBJECT"), Pointed("PROC")}}
    \cup {Pdata(Pointed("STRING")), Kval(Pointed("STRING"))} \cup {Pinfo(C!Here(0), h, C!InBlock(3)) : h \in MayBeNull}
    \cup {App(c, <<Info(Pointed("STRING"))>>) : c \in MayBeNull}
    \cup {Query(k, <<Info(InData("INT", 1)), Info(Pointed("STRING"))>>) : k \in MayBeNull}
    \cup {Envar(v) : v \in MayBeNull} \cup {C!Datum("BUFFER", [payload |-> C!InBlock(5)], <<>>)}
DataArrays == {DataArray(<<e, e>>) : e \in ArrayElements} \cup {DataArray(<<>>), DataArray(<<DataArray(<<>>)>>)}
Sources ==
  ArrayElements \cup DataArrays \cup {Value(p) : p \in Held \cup DataArrays} \cup {Info(p) : p \in Held}
    \cup {Pdata(p) : p \in Held} \cup {App(c, <<>>) : c \in MayBeNull}
    \cup {Query(k, q) : k \in MayBeNull, q \in {<<>>, <<Info(Pointed("STRING"))>>}}
    \cup {C!Datum("INFO_ARRAY", [block |-> C!InBlock(1)], <<i>>) : i \in {Info(InData("INT", 1)), Info(Pointed("STRING"))}}
MCCalls ==
  {[component |-> c, path |-> "copy", source |-> d] : c \in BfropsComponents, d \in Sources}
    \cup {[component |-> c, path |-> w, source |-> Value(p)] :
            c \in BfropsComponents, w \in {"own_xfer", "load", "unload"}, p \in Held \cup DataArrays}

D == INSTANCE Copying WITH Calls <- MCCalls

\* ---- the maps of a job ---------------------------------------------------------

NodeName(p, d, n, x) == [prefix |-> p, digits |-> d, num |-> n, suffix |-> x]
NodeNames ==
  {NodeName("n", 1, k, "") : k \in {0, 1, 2, 5}} \cup {NodeName("n", 2, 1, ""), NodeName("n", 1, 1, "b"),
   NodeName("", 1, 1, ""), NodeName("login", 0, 0, "")}
Element(lo, hi) == [lo |-> lo, hi |-> hi]
Ranks ==
  {<<>>, <<<<Element(0, 0), Element(1, 1), Element(3, 3)>>>>, <<<<Element(0, 1), Element(2, 3)>>>>,
   <<<<Element(0, 1)>>, <<Element(2, 2), Element(4, 4)>>>>, <<<<Element(1, 1), Element(0, 0)>>, <<>>>>,
   <<<<Element(0, 0)>>, <<Element(1, 2), Element(3, 3)>>, <<Element(5, 5)>>>>}
MCJobs ==
  {[names |-> ns, ranks |-> rs] : ns \in UNION {[1..k -> NodeNames] : k \in 0..3}, rs \in Ranks}
Matched(j) == Len(j.names) = Len(j.ranks)

M == INSTANCE Preg WITH Jobs <- {j \in MCJobs : Matched(j)}, IntBits <- 3

\* ---- the parts ----------------------------------------------------------------

MCInit ==
  /\ part \in Parts
  /\ BufferInit
  /\ IF part = "packing" THEN Pk!Init
     ELSE msg = <<>> /\ pbuf = <<>> /\ sent = <<>> /\ cut = 0 /\ got = <<>>
  /\ IF part = "maps" THEN M!Init
     ELSE /\ job = <<>> /\ up = FALSE /\ regex = M!None /\ ppn = M!None
          /\ table = M!Absent /\ known = FALSE /\ answer = [call |-> "none"]
  /\ IF part = "copying" THEN D!Init
     ELSE call = <<>> /\ copy = [rc |-> "pending"] /\ freed = <<>> /\ seen = "unread"

MCNext ==
  \/ part = "buffers" /\ BufferNext /\ UNCHANGED <<part, packing, copying, maps>>
  \/ part = "packing" /\ Pk!Next /\ UNCHANGED <<part, buffervars, copying, maps>>
  \/ part = "copying" /\ D!Next /\ UNCHANGED <<part, buffervars, packing, maps>>
  \/ part = "maps" /\ M!Next /\ UNCHANGED <<part, buffervars, packing, copying>>

MCSpec == MCInit /\ [][MCNext]_<<part, buffervars, packing, copying, maps>> /\ WF_buffervars(Double \/ Grow)

\* ---- the properties of the parts --------------------------------------------------

\* See Packing.
PackingSound == part = "packing" => Pk!PackingSound

\* See Packing.
NativesAreRead == part = "packing" => Pk!NativesAreRead

\* See Packing.
WideIsRefused == part = "packing" => Pk!WideIsRefused

\* See Copying.
CopiesSound == part = "copying" => D!CopiesSound

\* Every call that must grow a buffer returns (see Buffers), and the maps of a job
\* arrive as the host wrote them (see Preg).
DataArrives == GrowthEnds /\ [](part = "maps" => M!NodesKept /\ M!HostsAgree) /\ M!PeersAsPlaced

\* See Preg.
ServerIsAsked == M!ServerIsAsked

\* See Preg.
AllPeersKept == part = "maps" => M!AllPeersKept

\* See Preg.
NoCrash == part = "maps" => M!NoCrash

\* See Preg.
NodesInOrder == part = "maps" => M!NodesInOrder
=============================================================================
