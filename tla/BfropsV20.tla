----------------------------- MODULE BfropsV20 ------------------------------
(***************************************************************************)
(* The component bfrops/v20, for peers of PMIx v2.0: its own pack and unpack *)
(* functions.  Unlike the base functions, the native integers, the values    *)
(* and the elements of arrays go through pack_buffer, so that they are        *)
(* described once more in a fully described buffer.                          *)
(***************************************************************************)
EXTENDS Bfrops

\* ---- v20/pack.c ---------------------------------------------------------------

pack_bool == Cells(1)
pack_byte == Cells(1)
pack_int16 == Cells(2)
pack_int32 == Cells(4)
pack_int64 == Cells(8)
pack_int == Native("int")
pack_sizet == Native("size")
pack_pid == Native("pid")
pack_datatype == As("int16")
pack_string == Text
pack_float == Formatted
pack_double == Formatted
pack_timeval == Struct(<<One("int64", "sec"), One("int64", "usec")>>)
pack_time == As("int64")
pack_status == As("int32")
pack_value == Struct(<<Tag("type"), Val("data", "type")>>)
pack_info == Struct(<<One("string", "key"), One("infodirs", "flags"),
                      IntTag("type"), Val("data", "type")>>)
pack_pdata == Struct(<<One("proc", "proc"), One("string", "key"),
                       IntTag("type"), Val("data", "type")>>)
pack_buf == Struct(<<One("sizet", "used"), Many("byte", "bytes", "used")>>)
pack_proc == Struct(<<One("string", "nspace"), One("rank", "rank")>>)
pack_app == Struct(<<One("string", "cmd"), One("int", "argc"), Many("string", "argv", "argc"),
                     One("int32", "envc"), Many("string", "env", "envc"), One("string", "cwd"),
                     One("int", "maxprocs"), One("sizet", "ninfo"), Many("info", "info", "ninfo")>>)
pack_kval == Struct(<<One("string", "key"), One("value", "value")>>)
pack_modex == Struct(<<One("sizet", "size"), Many("byte", "blob", "size")>>)
pack_persist == As("byte")
pack_scope == As("byte")
pack_range == As("byte")
pack_cmd == As("byte")
pack_infodirs == As("int32")
pack_bo == Struct(<<One("sizet", "size"), Many("byte", "bytes", "size")>>)
pack_ptr == Mark
pack_pstate == As("byte")
pack_pinfo == Struct(<<One("proc", "proc"), One("string", "hostname"),
                       One("string", "executable_name"), One("pid", "pid"), One("pstate", "state")>>)
pack_darray == Struct(<<Tag("type"), One("sizet", "size"), Elems("array", "type", "size")>>)
pack_rank == As("int32")
pack_query == Struct(<<One("int32", "nkeys"), Many("string", "keys", "nkeys"),
                       One("sizet", "nqual"), Many("info", "qualifiers", "nqual")>>)
pack_alloc_directive == As("byte")
pack_array == Struct(<<One("sizet", "size"), Many("info", "array", "size")>>)

\* pack_val passes each type on to pack_buffer.
Through(types) == [t \in types |-> t]
Plain == {"BOOL", "BYTE", "STRING", "SIZE", "PID", "INT", "INT8", "INT16", "INT32", "INT64",
          "UINT", "UINT8", "UINT16", "UINT32", "UINT64", "FLOAT", "DOUBLE", "TIMEVAL", "TIME",
          "STATUS", "PROC", "BYTE_OBJECT", "SCOPE", "DATA_RANGE", "PROC_STATE", "PROC_INFO"}
pack_val == Through(Plain \cup {"PROC_RANK", "PERSIST", "POINTER", "DATA_ARRAY", "QUERY"})
            @@ [COMPRESSED_STRING |-> "BYTE_OBJECT"]

\* ---- v20/unpack.c -------------------------------------------------------------

unpack_bool == Cells(1)
unpack_byte == Cells(1)
unpack_int16 == Cells(2)
unpack_int32 == Cells(4)
unpack_int64 == Cells(8)
unpack_int == Native("int")
unpack_sizet == Native("size")
unpack_pid == Native("pid")
unpack_datatype == As("int16")
unpack_string == Text
unpack_float == Formatted
unpack_double == Formatted
unpack_timeval == Struct(<<One("int64", "sec"), One("int64", "usec")>>)
unpack_time == As("int64")
unpack_status == As("int32")
unpack_value == Struct(<<Tag("type"), Val("data", "type")>>)
unpack_info == Struct(<<Key("string", "key"), One("infodirs", "flags"),
                        IntTag("type"), Val("data", "type")>>)
unpack_pdata == Struct(<<One("proc", "proc"), Key("string", "key"),
                         IntTag("type"), Val("data", "type")>>)
unpack_buf == Struct(<<One("sizet", "used"), Many("byte", "bytes", "used")>>)
unpack_proc == Struct(<<Key("string", "nspace"), One("rank", "rank")>>)
unpack_app == Struct(<<One("string", "cmd"), One("int", "argc"), Keys("string", "argv", "argc"),
                       One("int32", "envc"), Keys("string", "env", "envc"), One("string", "cwd"),
                       One("int", "maxprocs"), One("sizet", "ninfo"), Many("info", "info", "ninfo")>>)
unpack_kval == Struct(<<One("string", "key"), One("value", "value")>>)
unpack_modex == Struct(<<One("sizet", "size"), Many("byte", "blob", "size")>>)
unpack_persist == As("byte")
unpack_scope == As("byte")
unpack_range == As("byte")
unpack_cmd == As("byte")
unpack_infodirs == As("int32")
unpack_bo == Struct(<<One("sizet", "size"), Many("byte", "bytes", "size")>>)
unpack_ptr == Mark
unpack_pstate == As("byte")
unpack_pinfo == Struct(<<One("proc", "proc"), One("string", "hostname"),
                         One("string", "executable_name"), One("pid", "pid"), One("pstate", "state")>>)
unpack_darray == Struct(<<Tag("type"), One("sizet", "size"), Elems("array", "type", "size")>>)
unpack_rank == As("int32")
unpack_query == Struct(<<One("int32", "nkeys"), Many("string", "keys", "nkeys"),
                         One("sizet", "nqual"), Many("info", "qualifiers", "nqual")>>)
unpack_alloc_directive == As("byte")
unpack_array == Struct(<<One("sizet", "size"), Many("value", "array", "size")>>)

\* A value of type PERSIST is asked for as a PROC.
unpack_val == [(pack_val @@ [INFO_ARRAY |-> "INFO_ARRAY"]) EXCEPT !["PERSIST"] = "PROC"]
\* The element types that unpack_darray knows the size of.
unpack_elements == Through(Plain \cup {"PERSIST", "INFO"}) @@ [COMPRESSED_STRING |-> "COMPRESSED_STRING"]

\* ---- bfrop_pmix20.c -----------------------------------------------------------

Packers ==
  [bool |-> pack_bool, byte |-> pack_byte, int16 |-> pack_int16, int32 |-> pack_int32,
   int64 |-> pack_int64, int |-> pack_int, sizet |-> pack_sizet, pid |-> pack_pid,
   datatype |-> pack_datatype, string |-> pack_string, float |-> pack_float,
   double |-> pack_double, timeval |-> pack_timeval, time |-> pack_time,
   status |-> pack_status, value |-> pack_value, info |-> pack_info, pdata |-> pack_pdata,
   buf |-> pack_buf, proc |-> pack_proc, app |-> pack_app, kval |-> pack_kval,
   modex |-> pack_modex, persist |-> pack_persist, scope |-> pack_scope,
   range |-> pack_range, cmd |-> pack_cmd, infodirs |-> pack_infodirs, bo |-> pack_bo,
   ptr |-> pack_ptr, pstate |-> pack_pstate, pinfo |-> pack_pinfo, darray |-> pack_darray,
   rank |-> pack_rank, query |-> pack_query, alloc_directive |-> pack_alloc_directive,
   array |-> pack_array]
Unpackers ==
  [bool |-> unpack_bool, byte |-> unpack_byte, int16 |-> unpack_int16,
   int32 |-> unpack_int32, int64 |-> unpack_int64, int |-> unpack_int,
   sizet |-> unpack_sizet, pid |-> unpack_pid, datatype |-> unpack_datatype,
   string |-> unpack_string, float |-> unpack_float, double |-> unpack_double,
   timeval |-> unpack_timeval, time |-> unpack_time, status |-> unpack_status,
   value |-> unpack_value, info |-> unpack_info, pdata |-> unpack_pdata,
   buf |-> unpack_buf, proc |-> unpack_proc, app |-> unpack_app, kval |-> unpack_kval,
   modex |-> unpack_modex, persist |-> unpack_persist, scope |-> unpack_scope,
   range |-> unpack_range, cmd |-> unpack_cmd, infodirs |-> unpack_infodirs,
   bo |-> unpack_bo, ptr |-> unpack_ptr, pstate |-> unpack_pstate, pinfo |-> unpack_pinfo,
   darray |-> unpack_darray, rank |-> unpack_rank, query |-> unpack_query,
   alloc_directive |-> unpack_alloc_directive, array |-> unpack_array]

SystemTypes ==
  [BOOL |-> "bool", BYTE |-> "byte", STRING |-> "string", SIZE |-> "sizet", PID |-> "pid",
   INT |-> "int", INT8 |-> "byte", INT16 |-> "int16", INT32 |-> "int32", INT64 |-> "int64",
   UINT |-> "int", UINT8 |-> "byte", UINT16 |-> "int16", UINT32 |-> "int32", UINT64 |-> "int64",
   FLOAT |-> "float", DOUBLE |-> "double", TIMEVAL |-> "timeval", TIME |-> "time",
   STATUS |-> "status"]
PmixTypes ==
  [VALUE |-> "value", PROC |-> "proc", APP |-> "app", INFO |-> "info", PDATA |-> "pdata",
   BUFFER |-> "buf", BYTE_OBJECT |-> "bo", KVAL |-> "kval", MODEX |-> "modex",
   PERSIST |-> "persist", POINTER |-> "ptr", SCOPE |-> "scope", DATA_RANGE |-> "range",
   COMMAND |-> "cmd", INFO_DIRECTIVES |-> "infodirs", DATA_TYPE |-> "datatype",
   PROC_STATE |-> "pstate", PROC_INFO |-> "pinfo", DATA_ARRAY |-> "darray",
   PROC_RANK |-> "rank", QUERY |-> "query", COMPRESSED_STRING |-> "bo",
   ALLOC_DIRECTIVE |-> "alloc_directive", INFO_ARRAY |-> "array"]
init == SystemTypes @@ PmixTypes

store_data_type == Number
get_data_type == [n \in 0..(Len(TypeNames) - 1) |-> TypeOf(n)]

\* pack_buffer and unpack_buffer: a command was four bytes wide in v2.0.
pack_buffer == [COMMAND |-> "UINT32"]
unpack_buffer == [COMMAND |-> "UINT32"]

v20 == [pack |-> Packers, unpack |-> Unpackers, types |-> init, remap |-> pack_buffer,
        unmap |-> unpack_buffer, narrow |-> {"COMMAND"}, val |-> pack_val, unval |-> unpack_val,
        undef |-> TRUE, elems |-> Through(DOMAIN init), unelems |-> unpack_elements, tagw |-> 2,
        store |-> store_data_type, get |-> get_data_type, gentype |-> FALSE,
        missing |-> "PACK_FAILURE"]

\* ---- copy functions -----------------------------------------------------------------

std_copy(t) ==
  IF t \in Fixed \cup Marks THEN InPlace ELSE NoCopy("UNKNOWN_DATA_TYPE")
copy_string == OwnBlock
copy_value == CopyOf([type |-> "same"], "xfer")
copy_info == CopyOf([key |-> "same", flags |-> "same"], "xfer")
copy_buf == CopyOf([payload |-> "dup"], "none")
copy_app == CopyOf([cmd |-> "dup", argv |-> "dup", env |-> "dup", cwd |-> "dup_if",
                    maxprocs |-> "same"], "key_value")
copy_kval == NoCopy("FAULT")     \* p->value of a new pmix_kval_t is NULL
copy_proc == InPlace
copy_modex == OwnBlock
copy_bo == OwnBlock
copy_pdata == CopyOf([nspace |-> "same", rank |-> "same", key |-> "same"], "xfer")
copy_array == CopyOf([block |-> "dup"], "share")     \* memcpy of the infos
copy_pinfo == CopyOf([block |-> "dup", proc |-> "same", hostname |-> "dup_if",
                      executable_name |-> "dup_if", pid |-> "same", exit_code |-> "same",
                      state |-> "same"], "none")
copy_query == CopyOf([keys |-> "dup_if"], "first")
\* The elements of an array, by their type.
darray_scalars(t) == InPlace
darray_blocks(t) ==
  CASE t \in {"STRING", "BYTE_OBJECT", "COMPRESSED_STRING"} -> OwnBlock
    [] t = "PROC_RANK" -> CopyOf([data |-> "junk"], "none")   \* copies sizeof(pmix_proc_t) each
    [] t = "BUFFER" -> copy_buf
darray_structs(t) ==
  CASE t = "VALUE" -> copy_value
    [] t = "APP" -> CopyOf([cmd |-> "dup", argv |-> "dup", env |-> "dup", cwd |-> "dup",
                    maxprocs |-> "same"], "xfer")
    [] t = "KVAL" -> CopyOf([key |-> "dup"], "xfer")
    [] t = "PROC_INFO" -> [copy_pinfo EXCEPT !.f.hostname = "dup", !.f.executable_name = "dup"]
    [] t = "QUERY" -> CopyOf([keys |-> "dup"], "xfer")
\* Infos and pdata are loaded from the address of the source's data.
copy_element(t) ==
  CASE t \in Fixed \cup {"DOUBLE", "STATUS", "PROC", "PERSIST", "POINTER", "SCOPE", "DATA_RANGE",
                     "COMMAND", "INFO_DIRECTIVES"} -> darray_scalars(t)
    [] t \in {"STRING", "BYTE_OBJECT", "COMPRESSED_STRING", "PROC_RANK", "BUFFER"} ->
         darray_blocks(t)
    [] t \in {"VALUE", "APP", "KVAL", "PROC_INFO", "QUERY"} -> darray_structs(t)
    [] t = "INFO" -> CopyOf([key |-> "same", flags |-> "zero"], "load_address")
    [] t = "PDATA" -> [copy_pdata EXCEPT !.parts = "load_address"]
    [] t = "MODEX" -> OwnBlock
    [] t = "DATA_ARRAY" -> NoCopy("NOT_SUPPORTED")
    [] OTHER -> NoCopy("UNKNOWN_DATA_TYPE")
copy_darray == CopyOf([block |-> "dup"], "element")
\* The copy function that is registered for a type.
copy(t) ==
  CASE t \in {"IOF_CHANNEL", "ENVAR"} -> NoCopy("UNKNOWN_DATA_TYPE")
    [] t = "STRING" -> copy_string
    [] t = "VALUE" -> copy_value
    [] t = "INFO" -> copy_info
    [] t = "BUFFER" -> copy_buf
    [] t = "APP" -> copy_app
    [] t = "KVAL" -> copy_kval
    [] t = "PROC" -> copy_proc
    [] t = "MODEX" -> copy_modex
    [] t \in {"BYTE_OBJECT", "COMPRESSED_STRING"} -> copy_bo
    [] t = "PDATA" -> copy_pdata
    [] t = "INFO_ARRAY" -> copy_array
    [] t = "PROC_INFO" -> copy_pinfo
    [] t = "DATA_ARRAY" -> copy_darray
    [] t = "QUERY" -> copy_query
    [] OTHER -> std_copy(t)

value_xfer(t) ==
  CASE t = "UNDEF" \/ t \in Valued -> InPlace
    [] t = "PROC" -> InPlace      \* memcpy of the pointer, and of what lies behind it
    [] t \in {"STRING", "BYTE_OBJECT", "COMPRESSED_STRING"} -> OwnBlock
    [] t = "PROC_INFO" -> [copy_pinfo EXCEPT !.f = [@ EXCEPT !.proc = "zero", !.hostname = "dup",
                                                           !.executable_name = "dup"]]
    [] t = "DATA_ARRAY" -> CopyOf([block |-> "dup"], "xfer_element")
    [] t = "INFO_ARRAY" -> NoCopy("NOT_SUPPORTED")
    [] OTHER -> NoCopy("ERROR")
\* The array in value_xfer is copied in place and knows no ranks.
xfer_scalars(t) == InPlace
xfer_structs(t) == copy_element(t)
xfer_element(t) ==
  CASE t = "PROC_RANK" -> NoCopy("UNKNOWN_DATA_TYPE")
    [] t \in Fixed \cup {"DOUBLE", "STATUS", "PROC", "PERSIST", "POINTER", "SCOPE", "DATA_RANGE",
                     "COMMAND", "INFO_DIRECTIVES"} -> xfer_scalars(t)
    [] OTHER -> xfer_structs(t)
value_load(t) ==
  CASE t \in Valued -> InPlace
    [] t \in {"STRING", "PROC"} -> OwnBlock
    [] t = "BYTE_OBJECT" -> InPlace      \* the bytes are not copied
    [] t = "PROC_INFO" -> [copy_pinfo EXCEPT !.f.hostname = "dup", !.f.executable_name = "dup"]
    [] OTHER -> NoCopy("SILENT")
value_unload(t) ==
  CASE t \in Valued -> InPlace
    [] t \in {"STRING", "PROC"} -> OwnBlock
    [] t = "BYTE_OBJECT" -> InPlace
    [] OTHER -> NoCopy("ERROR")
\* strcmp is taken for a Boolean: strings that differ are equal.
value_cmp(t, m, n) ==
  CASE t \in {"BOOL", "BYTE", "SIZE", "INT", "INT8", "INT16", "INT32", "INT64", "UINT", "UINT16",
                   "UINT32", "UINT64"} -> IF m = n THEN "EQUAL" ELSE "VALUE1_GREATER"
    [] t = "UINT8" -> IF m = n /\ n < 128 THEN "EQUAL" ELSE "VALUE1_GREATER"
    [] t = "STRING" -> IF m # n THEN "EQUAL" ELSE "VALUE1_GREATER"
    [] OTHER -> "VALUE1_GREATER"
=============================================================================
