------------------------------ MODULE Packing -------------------------------
(***************************************************************************)
(* A message between two processes that use the same bfrops component: the   *)
(* sender packs typed items one after the other, the message may be cut      *)
(* short, and the receiver unpacks the items in the same order, into the     *)
(* room it has for them.  The two may run on machines of different word       *)
(* size, and the buffer may be fully described or not.                      *)
(***************************************************************************)
EXTENDS Bfrops, FiniteSets

CONSTANTS
  Sample,       \* a datum of each type
  Messages      \* the messages that are sent: records of
                \*   component  the bfrops component both sides use
                \*   type, form a datum of the type, two of them, a pmix_value_t that
                \*              holds one or a pmix_data_array_t of them, or a size that
                \*              4 bytes do not hold, by itself or in a pmix_value_t
                \*   desc       is the buffer fully described
                \*   sender, receiver   their machines
                \*   room       for how many values there is room
                \*   junk       what lies behind a datum packed as a wider type

Base == INSTANCE BfropsBase
V20 == INSTANCE BfropsV20
V12 == INSTANCE BfropsV12

VARIABLES
  msg,        \* the message, one of Messages
  buf,        \* the buffer
  sent,       \* results of the calls to pack
  cut,        \* cells that were lost from the end of the message
  got         \* results of the calls to unpack: rc and values

vars == <<msg, buf, sent, cut, got>>

Component(v) == CASE v = "v12" -> V12!v12 [] v = "v20" -> V20!v20
                  [] v = "v21" -> Base!v21 [] v = "v3" -> Base!v3

\* The types of int, size_t and pid_t (BFROP_TYPE_INT, ...).
NativeTypes(machine) ==
  IF machine = "lp64" THEN [int |-> "INT32", size |-> "UINT64", pid |-> "UINT32"]
  ELSE [int |-> "INT32", size |-> "UINT32", pid |-> "UINT32"]

Codec(machine) ==
  Component(msg.component) @@ [desc |-> msg.desc, native |-> NativeTypes(machine), junk |-> msg.junk]

\* The items of the message: what it is about, and a string after it.
First ==
  LET d == Sample[msg.type] IN
  CASE msg.form = "one" -> [type |-> msg.type, ds |-> <<d>>]
    [] msg.form = "two" -> [type |-> msg.type, ds |-> <<d, d>>]
    [] msg.form = "value" -> [type |-> "VALUE", ds |-> <<[type |-> msg.type, data |-> d]>>]
    [] msg.form = "wide" -> [type |-> "SIZE", ds |-> <<Wrap + 1>>]
    [] msg.form = "wide value" -> [type |-> "VALUE", ds |-> <<[type |-> "SIZE", data |-> Wrap + 1]>>]
    [] msg.form = "array" -> [type |-> "DATA_ARRAY",
                              ds |-> <<[type |-> msg.type, size |-> 2, array |-> <<d, d>>]>>]
Items == <<First, [type |-> "STRING", ds |-> <<2>>]>>

Init ==
  /\ msg \in Messages
  /\ buf = <<>> /\ sent = <<>> /\ cut = 0 /\ got = <<>>

Done(rs) == rs # <<>> /\ rs[Len(rs)] # OK

\* PMIX_BFROPS_PACK of the next item; callers stop at the first error.
PackNext ==
  /\ Len(sent) < Len(Items) /\ ~Done(sent) /\ cut = 0 /\ got = <<>>
  /\ LET item == Items[Len(sent) + 1]
         r == Pack(Codec(msg.sender), item.type, item.ds)
     IN /\ sent' = Append(sent, r.rc)
        /\ buf' = buf \o r.out
  /\ UNCHANGED <<msg, cut, got>>

Sent == Len(sent) = Len(Items) /\ ~Done(sent)

\* The end of the message does not arrive.
CutShort ==
  /\ Sent /\ cut = 0 /\ got = <<>>
  /\ \E k \in 1..Len(buf) : cut' = k /\ buf' = SubSeq(buf, 1, Len(buf) - k)
  /\ UNCHANGED <<msg, sent, got>>

\* PMIX_BFROPS_UNPACK of the next item; callers stop at the first error.
UnpackNext ==
  /\ Sent /\ Len(got) < Len(Items)
  /\ got # <<>> => got[Len(got)].rc = OK
  /\ LET item == Items[Len(got) + 1]
         r == Unpack(Codec(msg.receiver), item.type, buf, msg.room)
     IN /\ got' = Append(got, [rc |-> r.rc, ds |-> r.ds])
        /\ buf' = r.rest
  /\ UNCHANGED <<msg, sent, cut>>

Next == PackNext \/ CutShort \/ UnpackNext

Spec == Init /\ [][Next]_vars

-----------------------------------------------------------------------------
\* What the receiver of a component of this version can know of a datum.

Old == msg.component \in {"v12", "v20"}
RECURSIVE Kept(_, _)
KeptField(x, t, v) ==
  CASE x = "data" -> Kept(t, v)
    [] x = "array" -> [i \in DOMAIN v |-> Kept(IF t = "" THEN "INFO" ELSE t, v[i])]
    [] x \in {"info", "qualifiers"} -> [i \in DOMAIN v |-> Kept("INFO", v[i])]
    [] x = "value" /\ t = "KVAL" -> Kept("VALUE", v)
    [] OTHER -> v

\* The exit code of a process, a pointer and the digits "%f" drops never
\* travel; a v1.2 peer gets neither the directives of an info nor the
\* directory of an app.
Kept(type, d) ==
  CASE type = "POINTER" -> 0
    [] type \in {"FLOAT", "DOUBLE"} -> Rounded(d)
    [] type \in {"PROC_INFO", "VALUE", "INFO", "PDATA", "APP", "KVAL", "DATA_ARRAY", "QUERY",
                 "INFO_ARRAY"} ->
         LET t == IF "type" \in DOMAIN d THEN d.type ELSE IF type = "KVAL" THEN type ELSE ""
             lost == {"exit_code"} \cup (IF msg.component = "v12" THEN {"flags", "cwd"} ELSE {})
         IN [x \in DOMAIN d \ lost |-> KeptField(x, t, d[x])]
    [] type = "BUFFER" -> IF Old THEN [x \in DOMAIN d \ {"type"} |-> d[x]] ELSE d
    [] OTHER -> d

\* A rank inside a value is an int for a v1.2 peer.
Received(type, d) ==
  IF msg.component = "v12" /\ type = "VALUE" /\ d.type = "PROC_RANK"
  THEN [type |-> "INT", data |-> d.data] ELSE Kept(type, d)

\* Native integers of another size, described twice by the components v12 and v20.
Foreign ==
  /\ msg.desc /\ Old
  /\ Pack(Codec(msg.sender), First.type, First.ds) # Pack(Codec(msg.receiver), First.type, First.ds)

\* A size the reader's size_t does not hold loses its upper bytes.
Held(d) ==
  IF msg.receiver = "lp64" \/ msg.form \notin {"wide", "wide value"} THEN d
  ELSE IF msg.form = "wide" THEN d % Wrap ELSE [d EXCEPT !.data = @ % Wrap]

\* What is packed but has no matching unpack: the elements of an info array,
\* and in v20 a value of type PERSIST, are read as something else.
Misread == \/ msg.type = "INFO_ARRAY" /\ msg.form \in {"one", "two"}
           \/ msg.type = "PERSIST" /\ msg.form = "value" /\ msg.component = "v20"

\* What a component packs and then refuses to read: arrays of a type only the
\* packing side knows, and for v1.2 the types it packs as nothing or under
\* another type's number.
Unreadable ==
  \/ Misread
  \/ msg.form = "array" /\ msg.type \notin DOMAIN Component(msg.component).unelems
  \/ msg.component = "v12" /\ msg.form \in {"one", "two"}
       /\ (msg.type \in {"INFO_DIRECTIVES", "POINTER", "PROC_STATE"} \/ (msg.type = "PROC" /\ msg.desc))

\* Data are not silently changed, but for sizes of 4 GB and more that a 32-bit process
\* reads: an item that is unpacked without an error has the value that was packed, in
\* every component, fully described or not, and between machines of different word
\* size; bytes are never taken for a datum they are not (bfrop_base_unpack.c,
\* v20/unpack.c, v12/unpack.c).
NoSilentChange ==
  \A i \in DOMAIN got : ~Foreign =>
    /\ got[i].rc = Garbage => Misread
    /\ got[i].rc = OK =>
         /\ Len(got[i].ds) = Len(Items[i].ds)
         /\ \A k \in DOMAIN got[i].ds : got[i].ds[k] = Received(Items[i].type, IF i = 1 THEN Held(Items[i].ds[k]) ELSE Items[i].ds[k])

\* Each component can read all it packs, apart from what Unreadable lists: no
\* error, and nothing is left over that the next item would be read from.
SentIsRead ==
  (cut = 0 /\ ~Foreign /\ ~Unreadable /\ msg.room = 2) =>
    /\ \A i \in DOMAIN got : got[i].rc = OK
    /\ Len(got) = Len(Items) => buf = <<>>

\* A message whose end was lost is never read as complete
\* (pmix_bfrop_too_small).
CutIsNoticed ==
  (cut > 0 /\ ~Foreign /\ Len(got) = Len(Items)) => \E i \in DOMAIN got : got[i].rc # OK

\* With room for one value, two values are cut to one and the caller is told
\* (the num_vals check of the unpack functions).
RoomIsRespected ==
  \A i \in DOMAIN got :
    /\ Len(got[i].ds) <= msg.room
    /\ (cut = 0 /\ ~Foreign /\ ~Unreadable /\ Len(Items[i].ds) > msg.room) =>
         /\ got[i].rc = "UNPACK_INADEQUATE_SPACE"
         /\ got[i].ds = <<Received(Items[i].type, Items[i].ds[1])>>

\* What is read is what was sent, whatever the component, the machine and the
\* room for it, and what cannot be read is not taken for something else.
PackingSound == NoSilentChange /\ SentIsRead /\ CutIsNoticed /\ RoomIsRespected

\* A native integer is read on whatever machine it was packed: "System types
\* need to always be described so we can properly unpack them" (v12/pack.c,
\* pack_int).  It does not hold for the components v12 and v20: in a fully
\* described buffer the size of a foreign integer is followed by a second
\* description, which unpack_gentype reads as the integer.
NativesAreRead ==
  (cut = 0 /\ msg.type \in {"INT", "SIZE", "PID"} /\ msg.form = "one" /\ msg.room = 2) =>
     \A i \in DOMAIN got : got[i].rc = OK /\ got[i].ds = Items[i].ds

\* A size that does not fit is refused, in the components that read foreign sizes.  It
\* does not hold: the cast of UNPACK_SIZE_MISMATCH_FOUND looks at no value.
WideIsRefused ==
  msg.form \in {"wide", "wide value"} /\ ~Foreign =>
    \A i \in DOMAIN got : got[i].rc = OK => got[i].ds = Items[i].ds
=============================================================================
