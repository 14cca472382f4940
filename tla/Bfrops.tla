------------------------------- MODULE Bfrops -------------------------------
(***************************************************************************)
(* The buffer operations (the bfrops framework): how typed data are packed  *)
(* into a message buffer and read back.  A buffer is a sequence of cells, a  *)
(* cell being what one copy into the buffer adds: its width in bytes and its *)
(* value.  The modules BfropsBase, BfropsV20 and BfropsV12 give, for every   *)
(* pack and unpack function of a bfrops component, its layout: the calls it  *)
(* makes, in their order, and the field each call is about.  This module is  *)
(* what those layouts mean.                                                 *)
(*                                                                         *)
(* A codec c is a record:                                                  *)
(*   pack, unpack   layouts by function name                               *)
(*   types          the function a registered type is packed with          *)
(*   remap          types that pack_buffer and unpack_buffer replace        *)
(*   val, unval     what a pmix_value_t of a type is packed/unpacked with   *)
(*   elems, unelems the same for the elements of a pmix_data_array_t        *)
(*   tagw           the width of a stored data type                        *)
(*   store, get     the number stored for a type and the type read for it   *)
(*   missing        the error for a type without a function                *)
(*   unmap, undef   how the type read for a number is corrected, unknown ones *)
(*   narrow         types packed as a wider one, with junk behind the datum   *)
(*   gentype        is a system type described when the buffer is not         *)
(* and, of the two processes that talk, desc (is the buffer fully            *)
(* described), native (the types of int, size_t and pid_t on the machine)    *)
(* and junk (what lies behind a datum that is packed as a wider type).       *)
(***************************************************************************)
EXTENDS Integers, Sequences, TLC

OK == "SUCCESS"
PastEnd == "UNPACK_READ_PAST_END"
Garbage == "GARBAGE"    \* bytes of one datum read as another: no error is seen

Cell(w, v) == [w |-> w, v |-> v]
Packed(rc, out) == [rc |-> rc, out |-> out]
Read(rc, ds, rest) == [rc |-> rc, ds |-> ds, rest |-> rest]

\* ---- the layouts of functions -------------------------------------------

Cells(w) == [kind |-> "cells", w |-> w]               \* num_vals copies
Native(t) == [kind |-> "native", t |-> t]             \* described, then packed
Text == [kind |-> "text"]                             \* length, then characters
Formatted == [kind |-> "formatted"]                   \* printed with "%f"
As(f) == [kind |-> "as", f |-> f]                     \* another function
Mark == [kind |-> "mark"]                             \* one byte, whatever num_vals
Nothing == [kind |-> "nothing"]
Refused(rc) == [kind |-> "refused", rc |-> rc]
Struct(steps) == [kind |-> "struct", steps |-> steps]

\* ---- the steps of a structure -------------------------------------------

One(f, x) == [op |-> "one", f |-> f, x |-> x]         \* field x with f
Key(f, x) == [op |-> "key", f |-> f, x |-> x]         \* ... which may not be NULL
Rank(f, x) == [op |-> "rank", f |-> f, x |-> x]       \* ... a rank, sent as an int
Many(f, x, n) == [op |-> "many", f |-> f, x |-> x, n |-> n]   \* n elements of x
Keys(f, x, n) == [op |-> "keys", f |-> f, x |-> x, n |-> n]
Tag(x) == [op |-> "tag", x |-> x]                     \* store_data_type of field x
IntTag(x) == [op |-> "inttag", x |-> x]               \* the type as an int
Val(x, t) == [op |-> "val", x |-> x, t |-> t]         \* field x by the type in t
Elems(x, t, n) == [op |-> "elems", x |-> x, t |-> t, n |-> n]

\* The numbers of the data types (pmix_common.h), from 0.
TypeNames ==
  << "UNDEF", "BOOL", "BYTE", "STRING", "SIZE", "PID", "INT", "INT8", "INT16", "INT32",
     "INT64", "UINT", "UINT8", "UINT16", "UINT32", "UINT64", "FLOAT", "DOUBLE", "TIMEVAL",
     "TIME", "STATUS", "VALUE", "PROC", "APP", "INFO", "PDATA", "BUFFER", "BYTE_OBJECT",
     "KVAL", "MODEX", "PERSIST", "POINTER", "SCOPE", "DATA_RANGE", "COMMAND",
     "INFO_DIRECTIVES", "DATA_TYPE", "PROC_STATE", "PROC_INFO", "DATA_ARRAY", "PROC_RANK",
     "QUERY", "COMPRESSED_STRING", "ALLOC_DIRECTIVE", "INFO_ARRAY", "IOF_CHANNEL", "ENVAR" >>
Number == [t \in {TypeNames[i] : i \in DOMAIN TypeNames} |->
             (CHOOSE i \in DOMAIN TypeNames : TypeNames[i] = t) - 1]
TypeOf(n) == IF n + 1 \in DOMAIN TypeNames THEN TypeNames[n + 1] ELSE "UNDEF"

Width(t) == CASE t \in {"INT8", "UINT8"} -> 1 [] t \in {"INT16", "UINT16"} -> 2
              [] t \in {"INT32", "UINT32"} -> 4 [] t \in {"INT64", "UINT64"} -> 8
\* What a 4-byte integer counts to.  It stands for 2^32, which TLC's integers do not
\* reach; only a size that is meant to be too large for 4 bytes exceeds it.
Wrap == 65536
\* The cast of UNPACK_SIZE_MISMATCH_FOUND, from the sender's type to the reader's.
Cast(v, from, to) == IF Width(to) < Width(from) THEN v % Wrap ELSE v
Sized == {"INT8", "UINT8", "INT16", "UINT16", "INT32", "UINT32", "INT64", "UINT64"}

RECURSIVE ByteCount(_)
ByteCount(b) == IF b = <<>> THEN 0 ELSE Head(b).w + ByteCount(Tail(b))

\* A string of k characters is the number k + 1 and NULL is 0: what is packed
\* is the length with the terminating zero, and then the characters.
TextCells(s) == IF s = 0 THEN <<Cell(4, 0)>> ELSE <<Cell(4, s), Cell(s, s)>>

\* A float counts in units of 10^-7, of which "%f" keeps the sixth decimal.
Rounded(v) == ((v + 5) \div 10) * 10

\* ---- packing ---------------------------------------------------------------

RECURSIVE Chained(_)
Chained(rs) ==
  IF rs = <<>> THEN Packed(OK, <<>>)
  ELSE IF Head(rs).rc # OK THEN Head(rs)
  ELSE LET tail == Chained(Tail(rs)) IN Packed(tail.rc, Head(rs).out \o tail.out)

StoredTag(c, t) == <<Cell(c.tagw, c.store[t])>>

RECURSIVE PackFn(_, _, _), PackBuffer(_, _, _), PackStep(_, _, _)

PackCall(c, f, ds) ==
  IF f \in DOMAIN c.pack THEN PackFn(c, f, ds) ELSE PackBuffer(c, f, ds)

\* pack_buffer: describe the type if the buffer is fully described, then call
\* the function registered for it.
PackBuffer(c, type, ds) ==
  LET to == IF type \in DOMAIN c.remap THEN c.remap[type] ELSE type
      as == IF type \in c.narrow
            THEN [i \in DOMAIN ds |-> ds[i] + 256 * c.junk] ELSE ds
  IN Chained(<< Packed(OK, IF c.desc THEN StoredTag(c, to) ELSE <<>>),
                IF to \notin DOMAIN c.types THEN Packed(c.missing, <<>>)
                ELSE PackFn(c, c.types[to], as) >>)

PackFn(c, f, ds) ==
  LET l == c.pack[f] IN
  CASE l.kind = "cells" -> Packed(OK, [i \in DOMAIN ds |-> Cell(l.w, ds[i])])
    [] l.kind = "native" ->
         Chained(<< Packed(OK, StoredTag(c, c.native[l.t])),
                    IF c.gentype THEN PackFn(c, c.types[c.native[l.t]], ds)
                    ELSE PackBuffer(c, c.native[l.t], ds) >>)
    [] l.kind = "text" -> Chained([i \in DOMAIN ds |-> Packed(OK, TextCells(ds[i]))])
    [] l.kind = "formatted" ->
         Chained([i \in DOMAIN ds |-> Packed(OK, TextCells(Rounded(ds[i]) + 9))])
    [] l.kind = "as" -> PackFn(c, l.f, ds)
    [] l.kind = "mark" -> Packed(OK, <<Cell(1, 1)>>)
    [] l.kind = "nothing" -> Packed(OK, <<>>)
    [] l.kind = "refused" -> Packed(l.rc, <<>>)
    [] l.kind = "struct" ->
         Chained([i \in DOMAIN ds |->
                    Chained([k \in DOMAIN l.steps |-> PackStep(c, l.steps[k], ds[i])])])

PackStep(c, s, d) ==
  CASE s.op \in {"one", "key", "rank"} -> PackCall(c, s.f, <<d[s.x]>>)
    [] s.op \in {"many", "keys"} -> IF d[s.n] = 0 THEN Packed(OK, <<>>)
                                    ELSE PackCall(c, s.f, d[s.x])
    [] s.op = "tag" -> Packed(OK, StoredTag(c, d[s.x]))
    [] s.op = "inttag" -> PackCall(c, "int", <<c.store[d[s.x]]>>)
    [] s.op = "val" -> IF d[s.t] = "UNDEF" /\ c.undef THEN Packed(OK, <<>>)
                       ELSE IF d[s.t] \notin DOMAIN c.val THEN Packed("ERROR", <<>>)
                       ELSE IF c.val[d[s.t]] = "INFO_ARRAY" /\ d[s.x].type # "INFO"
                            THEN Packed("NOT_SUPPORTED", <<>>)
                       ELSE PackCall(c, c.val[d[s.t]], <<d[s.x]>>)
    [] s.op = "elems" -> IF d[s.n] = 0 \/ d[s.t] = "UNDEF" THEN Packed(OK, <<>>)
                         ELSE IF d[s.t] \notin DOMAIN c.elems THEN Packed("ERROR", <<>>)
                         ELSE PackCall(c, c.elems[d[s.t]], d[s.x])

\* pack: the number of values, then the values.
Pack(c, type, ds) ==
  Chained(<< Packed(OK, IF c.desc THEN StoredTag(c, "INT32") ELSE <<>>),
             PackFn(c, "int32", <<Len(ds)>>),
             PackBuffer(c, type, ds) >>)

\* ---- unpacking -------------------------------------------------------------

Failed(rc, b) == Read(rc, <<>>, b)

\* A failed read r is the result; after another one comes Op(r).
Then(r, Op(_)) == CHOOSE x \in {IF v.rc # OK THEN v ELSE Op(v) : v \in {r}} : TRUE

ReadCells(b, w, n) ==
  IF ByteCount(b) < n * w THEN Failed(PastEnd, b)
  ELSE IF n > Len(b) \/ \E i \in 1..n : b[i].w # w THEN Failed(Garbage, b)
  ELSE Read(OK, [i \in 1..n |-> b[i].v], SubSeq(b, n + 1, Len(b)))

ReadTag(c, b) ==
  Then(ReadCells(b, c.tagw, 1), LAMBDA r : Read(OK, <<c.get[r.ds[1]]>>, r.rest))

RECURSIVE ReadTexts(_, _)
ReadTexts(b, n) ==
  IF n = 0 THEN Read(OK, <<>>, b)
  ELSE LET Characters(len) == IF len.ds[1] = 0 THEN len ELSE ReadCells(len.rest, len.ds[1], 1)
           Others(txt) == Then(ReadTexts(txt.rest, n - 1), LAMBDA more : Read(OK, txt.ds \o more.ds, more.rest))
       IN Then(Then(ReadCells(b, 4, 1), Characters), Others)

RECURSIVE UnpackFn(_, _, _, _), UnpackBuffer(_, _, _, _), UnpackSteps(_, _, _, _), Structs(_, _, _, _)

UnpackCall(c, f, b, n) ==
  IF f \in DOMAIN c.unpack THEN UnpackFn(c, f, b, n) ELSE UnpackBuffer(c, f, b, n)

\* unpack_buffer: a fully described buffer must hold the type that is asked for.
UnpackBuffer(c, type, b, n) ==
  LET to == IF type \in DOMAIN c.unmap THEN c.unmap[type] ELSE type
      tag == IF c.desc THEN ReadTag(c, b) ELSE Read(OK, <<to>>, b)
      Narrowed(r) == IF type \in c.narrow THEN [r EXCEPT !.ds = [i \in DOMAIN r.ds |-> r.ds[i] % 256]] ELSE r
      Values(t) ==
        IF t.ds[1] # to THEN Failed("PACK_MISMATCH", t.rest)
        ELSE IF to \notin DOMAIN c.types THEN Failed("UNPACK_FAILURE", t.rest)
        ELSE Then(UnpackFn(c, c.types[to], t.rest, n), Narrowed)
  IN Then(tag, Values)

\* A native integer is read as the type the sender says it has
\* (UNPACK_SIZE_MISMATCH when it is not the reader's own) and cast to the reader's.
UnpackNative(c, t, b, n) ==
  LET OfSize(tag) ==
        IF tag.ds[1] = c.native[t] /\ ~c.gentype THEN UnpackBuffer(c, c.native[t], tag.rest, n)
        ELSE IF tag.ds[1] \notin Sized THEN Failed("NOT_FOUND", tag.rest)
        ELSE Then(ReadCells(tag.rest, Width(tag.ds[1]), n),
                  LAMBDA r : [r EXCEPT !.ds = [i \in DOMAIN r.ds |-> Cast(r.ds[i], tag.ds[1], c.native[t])]])
  IN Then(ReadTag(c, b), OfSize)

UnpackFn(c, f, b, n) ==
  LET l == c.unpack[f] IN
  CASE l.kind = "cells" -> ReadCells(b, l.w, n)
    [] l.kind = "native" -> UnpackNative(c, l.t, b, n)
    [] l.kind = "text" -> ReadTexts(b, n)
    [] l.kind = "formatted" ->
         Then(ReadTexts(b, n), LAMBDA r : Read(OK, [i \in 1..n |-> r.ds[i] - 9], r.rest))
    [] l.kind = "as" -> UnpackFn(c, l.f, b, n)
    [] l.kind = "mark" -> Then(ReadCells(b, 1, 1), LAMBDA r : Read(OK, [i \in 1..n |-> 0], r.rest))
    [] l.kind = "nothing" -> Read(OK, [i \in 1..n |-> 0], b)
    [] l.kind = "refused" -> Failed(l.rc, b)
    [] l.kind = "struct" -> Structs(c, l.steps, b, n)

Structs(c, steps, b, n) ==
  IF n = 0 THEN Read(OK, <<>>, b)
  ELSE LET Others(one) ==
             Then(Structs(c, steps, one.rest, n - 1), LAMBDA more : Read(OK, one.ds \o more.ds, more.rest))
       IN Then(UnpackSteps(c, steps, Read(OK, <<<<>>>>, b), 1), Others)

\* PMIX_RANK_UNDEF and PMIX_RANK_WILDCARD, -1 and -2 as 32-bit integers, were
\* INT32_MAX and INT32_MAX - 1 when a rank was an int.
RankOf(v) == IF v = 2147483647 THEN -1 ELSE IF v = 2147483646 THEN -2 ELSE v

\* What step s reads from b when the structure read so far is d.
UnpackStep(c, s, d, b) ==
  CASE s.op \in {"one", "key"} -> UnpackCall(c, s.f, b, 1)
    [] s.op = "rank" -> Then(UnpackCall(c, s.f, b, 1), LAMBDA r : Read(OK, <<RankOf(r.ds[1])>>, r.rest))
    [] s.op \in {"many", "keys"} -> IF d[s.n] = 0 THEN Read(OK, <<>>, b)
                                    ELSE UnpackCall(c, s.f, b, d[s.n])
    [] s.op = "tag" -> ReadTag(c, b)
    [] s.op = "inttag" -> Then(UnpackCall(c, "int", b, 1), LAMBDA r : Read(OK, <<c.get[r.ds[1]]>>, r.rest))
    [] s.op = "val" -> IF d[s.t] = "UNDEF" /\ c.undef THEN Read(OK, <<0>>, b)
                       ELSE IF d[s.t] \notin DOMAIN c.unval THEN Failed("ERROR", b)
                       ELSE UnpackCall(c, c.unval[d[s.t]], b, 1)
    [] s.op = "elems" -> IF d[s.n] = 0 \/ d[s.t] = "UNDEF" THEN Read(OK, <<>>, b)
                         ELSE IF d[s.t] \notin DOMAIN c.unelems THEN Failed("NOT_SUPPORTED", b)
                         ELSE UnpackCall(c, c.unelems[d[s.t]], b, d[s.n])

\* The steps from k on; at.ds[1] is the structure read so far.
UnpackSteps(c, steps, at, k) ==
  IF k > Len(steps) THEN at
  ELSE LET s == steps[k]
           Field(r) ==
             IF s.op \in {"key", "keys"} /\ \E i \in DOMAIN r.ds : r.ds[i] = 0 THEN Failed("ERROR", r.rest)
             ELSE LET v == IF s.op \in {"many", "keys", "elems"} THEN r.ds ELSE r.ds[1]
                  IN Read(OK, <<at.ds[1] @@ (s.x :> v)>>, r.rest)
       IN Then(Then(UnpackStep(c, s, at.ds[1], at.rest), Field), LAMBDA to : UnpackSteps(c, steps, to, k + 1))

\* The number of values at the head of the message.
Count(c, b) ==
  LET Told(tag) ==
        IF tag.ds[1] # "INT32" THEN Failed("UNPACK_FAILURE", tag.rest) ELSE ReadCells(tag.rest, 4, 1)
  IN Then(IF c.desc THEN ReadTag(c, b) ELSE Read(OK, <<"INT32">>, b), Told)

\* unpack into room for max values: the count first, and no more values than
\* there is room for.
Unpack(c, type, b, max) ==
  LET Values(num) ==
        IF num.ds[1] <= max THEN UnpackBuffer(c, type, num.rest, num.ds[1])
        ELSE Then(UnpackBuffer(c, type, num.rest, max), LAMBDA r : [r EXCEPT !.rc = "UNPACK_INADEQUATE_SPACE"])
  IN IF max = 0 THEN Failed("UNPACK_INADEQUATE_SPACE", b) ELSE Then(Count(c, b), Values)

\* ---- layouts of the copy functions (see Copying) ---------------------------------

\* What is done with each field and how the parts are copied, or an error.
CopyOf(f, parts) == [rc |-> OK, f |-> f, parts |-> parts]
NoCopy(rc) == [rc |-> rc]
InPlace == CopyOf([data |-> "same"], "none")
OwnBlock == CopyOf([data |-> "dup"], "none")

\* Types whose data lie in the datum itself.
Fixed == {"BOOL", "BYTE", "SIZE", "PID", "INT", "INT8", "INT16", "INT32", "INT64", "UINT",
          "UINT8", "UINT16", "UINT32", "UINT64", "FLOAT", "TIMEVAL", "TIME"}
Marks == {"STATUS", "PROC_RANK", "PERSIST", "POINTER", "SCOPE", "DATA_RANGE", "COMMAND",
          "INFO_DIRECTIVES", "PROC_STATE", "ALLOC_DIRECTIVE"}
\* ... and which of them a pmix_value_t has a field for.
Valued == (Fixed \cup Marks \cup {"DOUBLE"})
            \ {"COMMAND", "INFO_DIRECTIVES", "ALLOC_DIRECTIVE"}
=============================================================================
