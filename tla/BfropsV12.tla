----------------------------- MODULE BfropsV12 ------------------------------
(***************************************************************************)
(* The component bfrops/v12, for peers of PMIx v1.2, which numbered the data *)
(* types differently and did not know many of them: a stored type is          *)
(* translated to the peer's number and back, and several types travel as an   *)
(* int.                                                                    *)
(***************************************************************************)
EXTENDS Bfrops

\* ---- v12/pack.c ---------------------------------------------------------------

pack_bool == Cells(1)
pack_byte == Cells(1)
pack_int16 == Cells(2)
pack_int32 == Cells(4)
pack_int64 == Cells(8)
pack_int == Native("int")
pack_sizet == Native("size")
pack_pid == Native("pid")
pack_datatype == As("int32")
pack_string == Text
pack_float == Formatted
pack_double == Formatted
pack_timeval == Struct(<<One("int64", "sec"), One("int64", "usec")>>)
pack_time == As("int64")
pack_value == Struct(<<IntTag("type"), Val("data", "type")>>)
pack_info == Struct(<<One("string", "key"), IntTag("type"), Val("data", "type")>>)
pack_pdata == Struct(<<One("proc", "proc"), One("string", "key"),
                       IntTag("type"), Val("data", "type")>>)
pack_buf == Struct(<<One("sizet", "used"), Many("byte", "bytes", "used")>>)
pack_proc == Struct(<<One("string", "nspace"), One("int", "rank")>>)
pack_app == Struct(<<One("string", "cmd"), One("int", "argc"), Many("string", "argv", "argc"),
                     One("int32", "envc"), Many("string", "env", "envc"),
                     One("int", "maxprocs"), One("sizet", "ninfo"), Many("info", "info", "ninfo")>>)
pack_kval == Struct(<<One("string", "key"), One("value", "value")>>)
pack_array == Struct(<<One("sizet", "size"), Many("info", "array", "size")>>)
pack_modex == Struct(<<One("sizet", "size"), Many("byte", "blob", "size")>>)
pack_persist == As("int")
pack_bo == Struct(<<One("sizet", "size"), Many("byte", "bytes", "size")>>)
pack_ptr == Nothing
pack_scope == As("int")
pack_status == As("int")
pack_range == As("int")
pack_cmd == As("int")
pack_info_directives == Nothing
pack_proc_state == Nothing
pack_darray == Refused("NOT_SUPPORTED")
pack_proc_info == Refused("NOT_SUPPORTED")
pack_query == Refused("NOT_SUPPORTED")
pack_rank == As("int")

\* pack_val: a data array goes as an info array (of pmix_info_t only) and a
\* rank as an int.
Through(types) == [t \in types |-> t]
Plain == {"BOOL", "BYTE", "STRING", "SIZE", "PID", "INT", "INT8", "INT16", "INT32", "INT64",
          "UINT", "UINT8", "UINT16", "UINT32", "UINT64", "FLOAT", "DOUBLE", "TIMEVAL",
          "BYTE_OBJECT"}
pack_val == Through(Plain) @@ [PROC_RANK |-> "INT", DATA_ARRAY |-> "INFO_ARRAY"]

\* ---- v12/unpack.c -------------------------------------------------------------

unpack_bool == Cells(1)
unpack_byte == Cells(1)
unpack_int16 == Cells(2)
unpack_int32 == Cells(4)
unpack_int64 == Cells(8)
unpack_int == Native("int")
unpack_sizet == Native("size")
unpack_pid == Native("pid")
unpack_datatype == As("int32")
unpack_string == Text
unpack_float == Formatted
unpack_double == Formatted
unpack_timeval == Struct(<<One("int64", "sec"), One("int64", "usec")>>)
unpack_time == As("int64")
unpack_value == Struct(<<IntTag("type"), Val("data", "type")>>)
unpack_info == Struct(<<Key("string", "key"), IntTag("type"), Val("data", "type")>>)
unpack_pdata == Struct(<<One("proc", "proc"), Key("string", "key"),
                         IntTag("type"), Val("data", "type")>>)
unpack_buf == Struct(<<One("sizet", "used"), Many("byte", "bytes", "used")>>)
unpack_proc == Struct(<<Key("string", "nspace"), Rank("int", "rank")>>)
unpack_app == Struct(<<One("string", "cmd"), One("int", "argc"), Keys("string", "argv", "argc"),
                       One("int32", "envc"), Keys("string", "env", "envc"),
                       One("int", "maxprocs"), One("sizet", "ninfo"), Many("info", "info", "ninfo")>>)
unpack_kval == Struct(<<One("string", "key"), One("value", "value")>>)
unpack_array == Struct(<<One("sizet", "size"), Many("value", "array", "size")>>)
unpack_modex == Struct(<<One("sizet", "size"), Many("byte", "blob", "size")>>)
unpack_persist == As("int")
unpack_bo == Struct(<<One("sizet", "size"), Many("byte", "bytes", "size")>>)
unpack_ptr == Refused("NOT_SUPPORTED")
unpack_scope == Refused("NOT_SUPPORTED")
unpack_status == Refused("NOT_SUPPORTED")
unpack_range == Refused("NOT_SUPPORTED")
unpack_cmd == Refused("NOT_SUPPORTED")
unpack_info_directives == Refused("NOT_SUPPORTED")
unpack_proc_state == Refused("NOT_SUPPORTED")
unpack_darray == Refused("NOT_SUPPORTED")
unpack_proc_info == Refused("NOT_SUPPORTED")
unpack_query == Refused("NOT_SUPPORTED")
unpack_rank == Refused("NOT_SUPPORTED")

unpack_val == Through(Plain \cup {"INFO_ARRAY"})

\* ---- bfrop_v12.c --------------------------------------------------------------

Packers ==
  [bool |-> pack_bool, byte |-> pack_byte, int16 |-> pack_int16, int32 |-> pack_int32,
   int64 |-> pack_int64, int |-> pack_int, sizet |-> pack_sizet, pid |-> pack_pid,
   datatype |-> pack_datatype, string |-> pack_string, float |-> pack_float,
   double |-> pack_double, timeval |-> pack_timeval, time |-> pack_time,
   value |-> pack_value, info |-> pack_info, pdata |-> pack_pdata, buf |-> pack_buf,
   proc |-> pack_proc, app |-> pack_app, kval |-> pack_kval, array |-> pack_array,
   modex |-> pack_modex, persist |-> pack_persist, bo |-> pack_bo, ptr |-> pack_ptr,
   scope |-> pack_scope, status |-> pack_status, range |-> pack_range, cmd |-> pack_cmd,
   info_directives |-> pack_info_directives, proc_state |-> pack_proc_state,
   darray |-> pack_darray, proc_info |-> pack_proc_info, query |-> pack_query,
   rank |-> pack_rank]
Unpackers ==
  [bool |-> unpack_bool, byte |-> unpack_byte, int16 |-> unpack_int16,
   int32 |-> unpack_int32, int64 |-> unpack_int64, int |-> unpack_int,
   sizet |-> unpack_sizet, pid |-> unpack_pid, datatype |-> unpack_datatype,
   string |-> unpack_string, float |-> unpack_float, double |-> unpack_double,
   timeval |-> unpack_timeval, time |-> unpack_time, value |-> unpack_value,
   info |-> unpack_info, pdata |-> unpack_pdata, buf |-> unpack_buf, proc |-> unpack_proc,
   app |-> unpack_app, kval |-> unpack_kval, array |-> unpack_array,
   modex |-> unpack_modex, persist |-> unpack_persist, bo |-> unpack_bo,
   ptr |-> unpack_ptr, scope |-> unpack_scope, status |-> unpack_status,
   range |-> unpack_range, cmd |-> unpack_cmd, info_directives |-> unpack_info_directives,
   proc_state |-> unpack_proc_state, darray |-> unpack_darray,
   proc_info |-> unpack_proc_info, query |-> unpack_query, rank |-> unpack_rank]

SystemTypes ==
  [BOOL |-> "bool", BYTE |-> "byte", STRING |-> "string", SIZE |-> "sizet", PID |-> "pid",
   INT |-> "int", INT8 |-> "byte", INT16 |-> "int16", INT32 |-> "int32", INT64 |-> "int64",
   UINT |-> "int", UINT8 |-> "byte", UINT16 |-> "int16", UINT32 |-> "int32", UINT64 |-> "int64",
   FLOAT |-> "float", DOUBLE |-> "double", TIMEVAL |-> "timeval", TIME |-> "time",
   STATUS |-> "status"]
PmixTypes ==
  [VALUE |-> "value", PROC |-> "proc", APP |-> "app", INFO |-> "info", PDATA |-> "pdata",
   BUFFER |-> "buf", BYTE_OBJECT |-> "bo", KVAL |-> "kval", MODEX |-> "modex",
   PERSIST |-> "persist", POINTER |-> "ptr", SCOPE |-> "scope", DATA_RANGE |-> "range",
   COMMAND |-> "cmd", INFO_DIRECTIVES |-> "info_directives", DATA_TYPE |-> "datatype",
   PROC_STATE |-> "proc_state", PROC_INFO |-> "proc_info", DATA_ARRAY |-> "darray",
   PROC_RANK |-> "rank", QUERY |-> "query", INFO_ARRAY |-> "array"]
init == SystemTypes @@ PmixTypes

\* The number of a type for a v1.2 peer, and the type of a number it sent.
v2_to_v1_datatype(n) ==
  CASE n \in {20, 40} -> 6          \* a status and a rank are ints
    [] n \in {44, 39} -> 22         \* an info array
    [] n \in 23..30 -> n + 1
    [] OTHER -> n
v1_to_v2_datatype(n) ==
  CASE n = 20 -> 0                   \* a topology, not supported
    [] n = 22 -> 44
    [] n \in 23..31 -> n - 1
    [] OTHER -> n
store_data_type == [t \in DOMAIN Number |-> v2_to_v1_datatype(Number[t])]
get_data_type == [n \in 0..(Len(TypeNames) - 1) |-> TypeOf(v1_to_v2_datatype(n))]

\* pack_buffer and unpack_buffer: some types were declared differently.
pack_buffer == [COMMAND |-> "UINT32", SCOPE |-> "UINT", DATA_RANGE |-> "UINT",
                PROC_RANK |-> "INT", PERSIST |-> "INT"]
unpack_buffer == pack_buffer @@ [STATUS |-> "INT"]

v12 == [pack |-> Packers, unpack |-> Unpackers, types |-> init, remap |-> pack_buffer,
        unmap |-> unpack_buffer, narrow |-> {"COMMAND", "SCOPE", "DATA_RANGE", "PERSIST"},
        val |-> pack_val, unval |-> unpack_val, undef |-> FALSE, elems |-> Through({}),
        unelems |-> Through({}), tagw |-> 4, store |-> store_data_type, get |-> get_data_type,
        gentype |-> FALSE, missing |-> "PACK_FAILURE"]

\* ---- copy functions -----------------------------------------------------------------

std_copy(t) == IF t \in Fixed THEN InPlace ELSE NoCopy("UNKNOWN_DATA_TYPE")
copy_string == OwnBlock
copy_value == CopyOf([type |-> "same"], "xfer")
copy_info == CopyOf([key |-> "same", flags |-> "junk"], "xfer")
copy_buf == CopyOf([payload |-> "dup"], "none")
copy_app == CopyOf([cmd |-> "dup", argv |-> "dup", env |-> "dup", cwd |-> "junk",
                    maxprocs |-> "same"], "key_value")
copy_kval == NoCopy("FAULT")     \* p->value of a new pmix_kval_t is NULL
copy_proc == InPlace
copy_modex == OwnBlock
copy_bo == OwnBlock
copy_pdata == CopyOf([nspace |-> "same", rank |-> "same", key |-> "same"], "xfer")
copy_array == CopyOf([block |-> "dup"], "share")     \* memcpy of the infos
copy_proc_info == NoCopy("NOT_SUPPORTED")
copy_darray == NoCopy("NOT_SUPPORTED")
copy_query == NoCopy("NOT_SUPPORTED")
\* The copy function that is registered for a type.
copy(t) ==
  CASE t \in {"COMPRESSED_STRING", "ALLOC_DIRECTIVE", "IOF_CHANNEL", "ENVAR"} -> NoCopy("UNKNOWN_DATA_TYPE")
    [] t = "STRING" -> copy_string
    [] t = "VALUE" -> copy_value
    [] t = "INFO" -> copy_info
    [] t = "BUFFER" -> copy_buf
    [] t = "APP" -> copy_app
    [] t = "KVAL" -> copy_kval
    [] t = "PROC" -> copy_proc
    [] t = "MODEX" -> copy_modex
    [] t \in {"BYTE_OBJECT", "COMPRESSED_STRING"} -> copy_bo
    [] t = "PDATA" -> copy_pdata
    [] t = "INFO_ARRAY" -> copy_array
    [] t = "PROC_INFO" -> copy_proc_info
    [] t = "DATA_ARRAY" -> copy_darray
    [] t = "QUERY" -> copy_query
    [] OTHER -> std_copy(t)

\* The component's own value_xfer, which its copy functions do not call: they
\* call pmix_value_xfer, that is, the one of the base.
value_xfer(t) ==
  CASE t \in (Fixed \cup {"DOUBLE"}) \ {"TIME"} -> InPlace
    [] t \in {"STRING", "BYTE_OBJECT"} -> OwnBlock
    [] t = "INFO_ARRAY" -> NoCopy("NOT_SUPPORTED")
    [] OTHER -> NoCopy("ERROR")
value_load(t) ==
  CASE t \in (Fixed \cup {"DOUBLE"}) \ {"TIME"} -> InPlace
    [] t = "STRING" -> OwnBlock
    [] t = "BYTE_OBJECT" -> InPlace
    [] OTHER -> NoCopy("SILENT")
value_unload(t) ==
  CASE t \in (Fixed \cup {"DOUBLE"}) \ {"TIME"} -> InPlace
    [] t = "STRING" -> OwnBlock
    [] t = "BYTE_OBJECT" -> InPlace
    [] OTHER -> NoCopy("ERROR")
\* strcmp is taken for a Boolean: strings that differ are equal.
value_cmp(t, m, n) ==
  CASE t \in {"BOOL", "BYTE", "SIZE", "INT", "INT8", "INT16", "INT32", "INT64", "UINT", "UINT16",
                   "UINT32", "UINT64"} -> IF m = n THEN "EQUAL" ELSE "VALUE1_GREATER"
    [] t = "UINT8" -> IF m = n /\ n < 128 THEN "EQUAL" ELSE "VALUE1_GREATER"
    [] t = "STRING" -> IF m # n THEN "EQUAL" ELSE "VALUE1_GREATER"
    [] OTHER -> "VALUE1_GREATER"
=============================================================================
