------------------------------ MODULE Copying -------------------------------
(***************************************************************************)
(* Copying, loading and unloading of data by the bfrops components.  A datum *)
(* is a tree: fields that hold something in place or in a block of their     *)
(* own, and parts below it (the value of an info, the elements of an array). *)
(* What matters is whether the copy holds what the source held and whether   *)
(* it can still be read, and freed, when the source is gone.                *)
(***************************************************************************)
EXTENDS Bfrops, FiniteSets

CONSTANTS
  Calls     \* records of component, path ("copy", "own_xfer", "load" or "unload") and source

Base == INSTANCE BfropsBase
V20 == INSTANCE BfropsV20
V12 == INSTANCE BfropsV12

VARIABLES
  call,     \* the call, one of Calls
  copy,     \* its result: rc and, when that is SUCCESS, the copy
  freed,    \* which of "src" and "dst" were destructed, in order
  seen      \* what a reader of the copy found, or "unread"

vars == <<call, copy, freed, seen>>

\* Fields: where the datum lies and what it is.
Here(n) == [at |-> "here", n |-> n]
InBlock(n) == [at |-> "src", n |-> n]     \* a block the source owns
Null == [at |-> "null", n |-> 0]
Junk == [at |-> "junk", n |-> 0]          \* uninitialised
Datum(type, f, parts) == [type |-> type, f |-> f, parts |-> parts]

\* What a copy function does with a field.
Put(how, x) ==
  CASE how = "same" -> x                                      \* assignment, memcpy
    [] how = "dup" -> IF x.at = "src" THEN [x EXCEPT !.at = "dst"] ELSE x
    [] how = "dup_if" -> IF x.at = "null" THEN Junk ELSE [x EXCEPT !.at = "dst"]
    [] how = "zero" -> IF x.at = "here" THEN Here(0) ELSE Null
    [] how = "address" -> [at |-> "slot", n |-> x.n]          \* points into the source
    [] how = "junk" -> Junk

\* pmix_value_load from the address of the data of another value: right for
\* what a value holds in place, and the pointer itself for what it points to.
LoadAddress(t) ==
  CASE t \in Valued \ {"POINTER"} -> InPlace
    [] t = "POINTER" -> CopyOf([data |-> "address"], "none")
    [] t = "BYTE_OBJECT" -> OwnBlock
    [] t \in {"STRING", "PROC"} -> CopyOf([data |-> "junk"], "none")
    [] OTHER -> NoCopy("SILENT")

\* What component c does for a datum of type t that is copied as a whole, as an
\* element of an array, as (the data of) a value, ...
Function(c, way, t) ==
  CASE way = "copy" -> CASE c = "v12" -> V12!copy(t) [] c = "v20" -> V20!copy(t)
                         [] c = "v21" /\ t \in {"ENVAR", "IOF_CHANNEL"} -> NoCopy("UNKNOWN_DATA_TYPE")
                         [] OTHER -> Base!copy(t)
    [] t = "VALUE" -> [Base!copy_value EXCEPT !.parts = IF way = "element" THEN "xfer" ELSE way]
    [] way = "xfer" -> IF t = "INFO" THEN Base!copy_info      \* PMIX_INFO_XFER
                       ELSE IF c = "v20" THEN V20!value_xfer(t) ELSE Base!value_xfer(t)
    [] way = "own_xfer" -> CASE c = "v12" -> V12!value_xfer(t) [] c = "v20" -> V20!value_xfer(t)
                             [] OTHER -> Base!value_xfer(t)
    [] way = "key_value" -> CopyOf([key |-> "same", flags |-> "junk"], "xfer")
    [] way = "element" -> IF c = "v20" THEN V20!copy_element(t) ELSE Base!copy_element(t)
    [] way = "xfer_element" -> V20!xfer_element(t)
    [] way = "load" -> CASE c = "v12" -> V12!value_load(t) [] c = "v20" -> V20!value_load(t)
                         [] OTHER -> Base!value_load(t)
    [] way = "load_address" -> LoadAddress(t)
    [] way = "unload" -> CASE c = "v12" -> V12!value_unload(t) [] c = "v20" -> V20!value_unload(t)
                           [] OTHER -> Base!value_unload(t)

\* The copy of datum d, with the first error of a part if there is one.
RECURSIVE Copied(_, _, _)
Copied(c, way, d) ==
  IF way = "share" THEN [rc |-> OK, d |-> d]
  ELSE
  LET fn == Function(c, way, d.type) IN
  IF fn.rc # OK     \* "SILENT": the value keeps whatever it held
  THEN [rc |-> fn.rc, d |-> Datum(d.type, [x \in DOMAIN d.f |-> Junk], <<>>)]
  ELSE
  LET below == IF fn.parts = "first" THEN "copy" ELSE fn.parts
      last == IF fn.parts = "first" /\ Len(d.parts) > 1 THEN 1 ELSE Len(d.parts)
      parts == [i \in 1..last |-> Copied(c, below, d.parts[i])]
      bad == {i \in 1..last : parts[i].rc \notin {OK, "SILENT"}}
  IN [rc |-> IF bad = {} THEN OK ELSE parts[CHOOSE i \in bad : \A j \in bad : i <= j].rc,
      d |-> Datum(d.type, [x \in DOMAIN d.f |-> Put(fn.f[x], d.f[x])],
                  [i \in 1..last |-> parts[i].d])]

\* ---- the life of a copy ---------------------------------------------------------

Init ==
  /\ call \in Calls
  /\ copy = [rc |-> "pending"] /\ freed = <<>> /\ seen = "unread"

DoCopy ==
  /\ copy.rc = "pending"
  /\ copy' = Copied(call.component, call.path, call.source)
  /\ UNCHANGED <<call, freed, seen>>

\* All fields of a datum, each with the type it belongs to.
RECURSIVE Fields(_)
Fields(d) == {[of |-> d.type, x |-> x, at |-> d.f[x].at, n |-> d.f[x].n] : x \in DOMAIN d.f}
              \cup UNION {Fields(d.parts[i]) : i \in DOMAIN d.parts}

Freed(w) == \E i \in DOMAIN freed : freed[i] = w
\* A field whose content is gone or was never there.
Wild(k) == k.at = "junk" \/ (k.at \in {"src", "slot"} /\ Freed("src"))

ReadCopy ==
  /\ copy.rc = OK /\ seen = "unread" /\ ~Freed("dst")
  /\ seen' = IF \E k \in Fields(copy.d) : Wild(k) THEN "wild"
             ELSE IF {[k EXCEPT !.at = "any"] : k \in Fields(copy.d)}
                     = {[k EXCEPT !.at = "any"] : k \in Fields(call.source)} THEN "same"
             ELSE "other"
  /\ UNCHANGED <<call, copy, freed>>

Destruct(w) ==
  /\ copy.rc = OK /\ ~Freed(w)
  /\ freed' = Append(freed, w)
  /\ UNCHANGED <<call, copy, seen>>

Next == DoCopy \/ ReadCopy \/ (\E w \in {"src", "dst"} : Destruct(w))

Spec == Init /\ [][Next]_vars

\* ---- properties -----------------------------------------------------------------

\* The known defects: in which components, and in which data.
Top == call.source.type
Held == IF Top \in {"VALUE", "INFO", "PDATA"} THEN call.source.parts[1] ELSE call.source
Data == IF Held.type = "VALUE" THEN Held.parts[1] ELSE Held
Elements(types) == Data.type = "DATA_ARRAY" /\ \E i \in DOMAIN Data.parts : Data.parts[i].type \in types
Without(x) == \E k \in Fields(call.source) : k.x = x /\ k.at = "null"
\* Fields that are left out or not initialised.
KnownLoss ==
  \/ Top = "APP" /\ (call.source.parts # <<>> \/ Without("cwd") \/ call.component = "v12")
  \/ Top = "QUERY" /\ (Without("keys") \/ Len(call.source.parts) > 1)
  \/ Top \in {"INFO", "QUERY"} /\ call.component = "v12"
  \/ Elements({"PROC_RANK"})
  \/ /\ call.component = "v20"
     /\ \/ Top = "PROC_INFO" /\ (Without("hostname") \/ Without("executable_name"))
        \/ Top # "PROC_INFO" /\ Data.type = "PROC_INFO" /\ call.path \in {"copy", "own_xfer"}
        \/ Elements({"INFO", "PDATA"})
  \/ call.path = "load" /\ Function(call.component, "load", Data.type).rc # OK
\* Blocks that source and copy share.
KnownShare ==
  \/ Top = "INFO_ARRAY"
  \/ Top # "PROC" /\ Data.type = "PROC" /\ call.component = "v20" /\ call.path \in {"copy", "own_xfer"}
  \/ Data.type = "BYTE_OBJECT" /\ call.path = "unload"
  \/ Data.type = "BYTE_OBJECT" /\ call.path = "load" /\ call.component \in {"v12", "v20"}

\* A copy, a loaded value or an unloaded datum holds in every field what its
\* source held, whichever of the two is destructed first (the copy functions,
\* value_xfer, value_load and value_unload of all components); the defects
\* above are the only exceptions.
CopyIsWhole == seen # "unread" /\ ~KnownLoss /\ ~KnownShare => seen = "same"

\* No block is freed twice and no uninitialised pointer is freed when source
\* and copy are destructed, in either order.
FreedOnce ==
  Freed("src") /\ Freed("dst") /\ ~KnownLoss /\ ~KnownShare =>
    \A k \in Fields(copy.d) : k.at \notin {"src", "junk"}

\* What a component registers a copy function for is copied or refused: no copy
\* function runs into a NULL pointer, but for that of PMIX_KVAL, whose new
\* object has no value to copy into.
CopyReturns == copy.rc = "FAULT" => Top = "KVAL"

\* A value compares as equal with a whole copy of itself (value_cmp after
\* value_xfer or value_load), for the types that value_cmp supports.  The
\* exceptions: a UINT8 of 128 or more, and in v12 and v20 all strings.
Compare(t, m, n) ==
  CASE call.component = "v12" -> V12!value_cmp(t, m, n)
    [] call.component = "v20" -> V20!value_cmp(t, m, n)
    [] OTHER -> Base!value_cmp(t, m, n)
Supported(t) ==
  \/ t \in Fixed \ {"PID", "FLOAT", "TIMEVAL", "TIME"}
  \/ t \in {"STRING", "STATUS"} /\ call.component \in {"v21", "v3"}
CopyIsEqual ==
  seen = "same" /\ Top = "VALUE" /\ Supported(Data.type) =>
    LET n == Data.f.data.n
        m == copy.d.parts[1].f.data.n
    IN Compare(Data.type, n, m) = "EQUAL" \/ (Data.type = "UINT8" /\ n >= 128)

\* A copy is the datum again, in memory of its own.
CopiesSound == CopyReturns /\ CopyIsWhole /\ CopyIsEqual /\ FreedOnce
=============================================================================
