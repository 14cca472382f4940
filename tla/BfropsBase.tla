----------------------------- MODULE BfropsBase -----------------------------
(***************************************************************************)
(* The pack and unpack functions of bfrops/base, which the components v21    *)
(* and v3 register for their types.  One layout per function, named after it.*)
(***************************************************************************)
EXTENDS Bfrops

\* ---- bfrop_base_pack.c ------------------------------------------------------

pack_bool == Cells(1)
pack_byte == Cells(1)
pack_int16 == Cells(2)
pack_int32 == Cells(4)
pack_int64 == Cells(8)
pack_int == Native("int")
pack_sizet == Native("size")
pack_pid == Native("pid")
pack_string == Text
pack_float == Formatted
pack_double == Formatted
pack_timeval == Struct(<<One("int64", "sec"), One("int64", "usec")>>)
pack_time == As("int64")
pack_status == As("int32")
pack_buf == Struct(<<One("byte", "type"), One("sizet", "used"), Many("byte", "bytes", "used")>>)
pack_bo == Struct(<<One("sizet", "size"), Many("byte", "bytes", "size")>>)
pack_proc == Struct(<<One("string", "nspace"), One("rank", "rank")>>)
pack_value == Struct(<<Tag("type"), Val("data", "type")>>)
pack_info == Struct(<<One("string", "key"), One("info_directives", "flags"),
                      Tag("type"), Val("data", "type")>>)
pack_pdata == Struct(<<One("proc", "proc"), One("string", "key"),
                       Tag("type"), Val("data", "type")>>)
pack_app == Struct(<<One("string", "cmd"), One("int", "argc"), Many("string", "argv", "argc"),
                     One("int32", "envc"), Many("string", "env", "envc"), One("string", "cwd"),
                     One("int", "maxprocs"), One("sizet", "ninfo"), Many("info", "info", "ninfo")>>)
pack_kval == Struct(<<One("string", "key"), One("value", "value")>>)
pack_persist == As("byte")
pack_datatype == As("int16")
pack_ptr == Mark
pack_scope == As("byte")
pack_range == As("byte")
pack_cmd == As("byte")
pack_info_directives == As("int32")
pack_pstate == As("byte")
pack_pinfo == Struct(<<One("proc", "proc"), One("string", "hostname"),
                       One("string", "executable_name"), One("pid", "pid"), One("pstate", "state")>>)
pack_darray == Struct(<<Tag("type"), One("sizet", "size"), Elems("array", "type", "size")>>)
pack_rank == As("int32")
pack_query == Struct(<<One("int32", "nkeys"), Many("string", "keys", "nkeys"),
                       One("sizet", "nqual"), Many("info", "qualifiers", "nqual")>>)
pack_alloc_directive == As("byte")
pack_iof_channel == As("int16")
pack_envar == Struct(<<One("string", "envar"), One("string", "value"), One("byte", "separator")>>)

\* What pack_val and the switch of pack_darray call for a type.
Scalars ==
  [BOOL |-> "bool", BYTE |-> "byte", STRING |-> "string", SIZE |-> "sizet", PID |-> "pid",
   INT |-> "int", INT8 |-> "byte", INT16 |-> "int16", INT32 |-> "int32", INT64 |-> "int64",
   UINT |-> "int", UINT8 |-> "byte", UINT16 |-> "int16", UINT32 |-> "int32", UINT64 |-> "int64",
   FLOAT |-> "float", DOUBLE |-> "double", TIMEVAL |-> "timeval", TIME |-> "time",
   STATUS |-> "status", PROC |-> "proc", BYTE_OBJECT |-> "bo", PERSIST |-> "persist",
   POINTER |-> "ptr", SCOPE |-> "scope", DATA_RANGE |-> "range", PROC_STATE |-> "pstate",
   PROC_INFO |-> "pinfo", ENVAR |-> "envar"]
pack_val == Scalars @@ [PROC_RANK |-> "rank", COMPRESSED_STRING |-> "bo", DATA_ARRAY |-> "darray",
                        ALLOC_DIRECTIVE |-> "alloc_directive"]
pack_elements == Scalars @@ [PROC_RANK |-> "rank", DATA_ARRAY |-> "darray", INFO |-> "info",
                             QUERY |-> "query", VALUE |-> "value",
                             ALLOC_DIRECTIVE |-> "alloc_directive"]

\* ---- bfrop_base_unpack.c ----------------------------------------------------

unpack_bool == Cells(1)
unpack_byte == Cells(1)
unpack_int16 == Cells(2)
unpack_int32 == Cells(4)
unpack_int64 == Cells(8)
unpack_int == Native("int")
unpack_sizet == Native("size")
unpack_pid == Native("pid")
unpack_string == Text
unpack_float == Formatted
unpack_double == Formatted
unpack_timeval == Struct(<<One("int64", "sec"), One("int64", "usec")>>)
unpack_time == As("int64")
unpack_status == As("int32")
unpack_buf == Struct(<<One("byte", "type"), One("sizet", "used"), Many("byte", "bytes", "used")>>)
unpack_bo == Struct(<<One("sizet", "size"), Many("byte", "bytes", "size")>>)
unpack_proc == Struct(<<Key("string", "nspace"), One("rank", "rank")>>)
unpack_value == Struct(<<Tag("type"), Val("data", "type")>>)
unpack_info == Struct(<<Key("string", "key"), One("info_directives", "flags"),
                        Tag("type"), Val("data", "type")>>)
unpack_pdata == Struct(<<One("proc", "proc"), Key("string", "key"),
                         Tag("type"), Val("data", "type")>>)
unpack_app == Struct(<<One("string", "cmd"), One("int", "argc"), Keys("string", "argv", "argc"),
                       One("int32", "envc"), Keys("string", "env", "envc"), One("string", "cwd"),
                       One("int", "maxprocs"), One("sizet", "ninfo"), Many("info", "info", "ninfo")>>)
unpack_kval == Struct(<<One("string", "key"), One("value", "value")>>)
unpack_persist == As("byte")
unpack_datatype == As("int16")
unpack_ptr == Mark
unpack_scope == As("byte")
unpack_range == As("byte")
unpack_cmd == As("byte")
unpack_info_directives == As("int32")
unpack_pstate == As("byte")
\* Mutant: the state of the process is left in the buffer.
Mut_unpack_pinfo_state == Struct(<<One("proc", "proc"), One("string", "hostname"),
                                   One("string", "executable_name"), One("pid", "pid")>>)
unpack_pinfo == Struct(<<One("proc", "proc"), One("string", "hostname"),
                         One("string", "executable_name"), One("pid", "pid"), One("pstate", "state")>>)
unpack_darray == Struct(<<Tag("type"), One("sizet", "size"), Elems("array", "type", "size")>>)
unpack_rank == As("int32")
unpack_query == Struct(<<One("int32", "nkeys"), Many("string", "keys", "nkeys"),
                         One("sizet", "nqual"), Many("info", "qualifiers", "nqual")>>)
unpack_alloc_directive == As("byte")
unpack_iof_channel == As("int16")
unpack_envar == Struct(<<One("string", "envar"), One("string", "value"), One("byte", "separator")>>)
unpack_val == pack_val
unpack_elements == Scalars @@ [COMPRESSED_STRING |-> "bo", INFO |-> "info", QUERY |-> "query",
                               VALUE |-> "value"]

\* ---- the components v21 and v3 ------------------------------------------------

\* pmix21_bfrop_pack_array and its twins: the elements of an info array are
\* packed as pmix_info_t and read as pmix_value_t.
pack_array == Struct(<<One("sizet", "size"), Many("info", "array", "size")>>)
unpack_array == Struct(<<One("sizet", "size"), Many("value", "array", "size")>>)
pack_modex == Struct(<<One("sizet", "size"), Many("byte", "blob", "size")>>)
unpack_modex == Struct(<<One("sizet", "size"), Many("byte", "blob", "size")>>)
v3_pack_array == pack_array
v3_unpack_array == unpack_array
v3_pack_modex == pack_modex
v3_unpack_modex == unpack_modex

Packers ==
  [bool |-> pack_bool, byte |-> pack_byte, int16 |-> pack_int16, int32 |-> pack_int32,
   int64 |-> pack_int64, int |-> pack_int, sizet |-> pack_sizet, pid |-> pack_pid,
   string |-> pack_string, float |-> pack_float, double |-> pack_double,
   timeval |-> pack_timeval, time |-> pack_time, status |-> pack_status, buf |-> pack_buf,
   bo |-> pack_bo, proc |-> pack_proc, value |-> pack_value, info |-> pack_info,
   pdata |-> pack_pdata, app |-> pack_app, kval |-> pack_kval, persist |-> pack_persist,
   datatype |-> pack_datatype, ptr |-> pack_ptr, scope |-> pack_scope, range |-> pack_range,
   cmd |-> pack_cmd, info_directives |-> pack_info_directives, pstate |-> pack_pstate,
   pinfo |-> pack_pinfo, darray |-> pack_darray, rank |-> pack_rank, query |-> pack_query,
   alloc_directive |-> pack_alloc_directive, iof_channel |-> pack_iof_channel,
   envar |-> pack_envar, array |-> pack_array, modex |-> pack_modex]
Unpackers ==
  [bool |-> unpack_bool, byte |-> unpack_byte, int16 |-> unpack_int16, int32 |-> unpack_int32,
   int64 |-> unpack_int64, int |-> unpack_int, sizet |-> unpack_sizet, pid |-> unpack_pid,
   string |-> unpack_string, float |-> unpack_float, double |-> unpack_double,
   timeval |-> unpack_timeval, time |-> unpack_time, status |-> unpack_status, buf |-> unpack_buf,
   bo |-> unpack_bo, proc |-> unpack_proc, value |-> unpack_value, info |-> unpack_info,
   pdata |-> unpack_pdata, app |-> unpack_app, kval |-> unpack_kval, persist |-> unpack_persist,
   datatype |-> unpack_datatype, ptr |-> unpack_ptr, scope |-> unpack_scope,
   range |-> unpack_range, cmd |-> unpack_cmd, info_directives |-> unpack_info_directives,
   pstate |-> unpack_pstate, pinfo |-> unpack_pinfo, darray |-> unpack_darray,
   rank |-> unpack_rank, query |-> unpack_query, alloc_directive |-> unpack_alloc_directive,
   iof_channel |-> unpack_iof_channel, envar |-> unpack_envar, array |-> unpack_array,
   modex |-> unpack_modex]

\* The types a component registers (its init function), in two parts.
SystemTypes ==
  [BOOL |-> "bool", BYTE |-> "byte", STRING |-> "string", SIZE |-> "sizet", PID |-> "pid",
   INT |-> "int", INT8 |-> "byte", INT16 |-> "int16", INT32 |-> "int32", INT64 |-> "int64",
   UINT |-> "int", UINT8 |-> "byte", UINT16 |-> "int16", UINT32 |-> "int32", UINT64 |-> "int64",
   FLOAT |-> "float", DOUBLE |-> "double", TIMEVAL |-> "timeval", TIME |-> "time",
   STATUS |-> "status"]
PmixTypes ==
  [VALUE |-> "value", PROC |-> "proc", APP |-> "app", INFO |-> "info", PDATA |-> "pdata",
   BUFFER |-> "buf", BYTE_OBJECT |-> "bo", KVAL |-> "kval", MODEX |-> "modex",
   PERSIST |-> "persist", POINTER |-> "ptr", SCOPE |-> "scope", DATA_RANGE |-> "range",
   COMMAND |-> "cmd", INFO_DIRECTIVES |-> "info_directives", DATA_TYPE |-> "datatype",
   PROC_STATE |-> "pstate", PROC_INFO |-> "pinfo", DATA_ARRAY |-> "darray",
   PROC_RANK |-> "rank", QUERY |-> "query", COMPRESSED_STRING |-> "bo",
   ALLOC_DIRECTIVE |-> "alloc_directive", INFO_ARRAY |-> "array"]
v21_init == SystemTypes @@ PmixTypes
v3_init == SystemTypes @@ PmixTypes @@ [IOF_CHANNEL |-> "iof_channel", ENVAR |-> "envar"]

\* A type stands for itself in a buffer of these components.
store_data_type == Number
get_data_type == [n \in 0..(Len(TypeNames) - 1) |-> TypeOf(n)]

None == [t \in {} |-> t]
Codec(types) ==
  [pack |-> Packers, unpack |-> Unpackers, types |-> types, remap |-> None, unmap |-> None,
   narrow |-> {}, val |-> pack_val, unval |-> unpack_val, undef |-> TRUE,
   elems |-> pack_elements, unelems |-> unpack_elements, tagw |-> 2,
   store |-> store_data_type, get |-> get_data_type, gentype |-> TRUE,
   missing |-> "UNKNOWN_DATA_TYPE"]
v21 == Codec(v21_init)
v3 == [Codec(v3_init) EXCEPT !.pack.array = v3_pack_array, !.unpack.array = v3_unpack_array,
                            !.pack.modex = v3_pack_modex, !.unpack.modex = v3_unpack_modex]

\* ---- copy functions -----------------------------------------------------------------

\* One block of the size of the type; DOUBLE and DATA_TYPE are registered with it
\* and have no case.
std_copy(t) ==
  IF t \in Fixed \cup Marks \cup {"IOF_CHANNEL"} THEN InPlace ELSE NoCopy("UNKNOWN_DATA_TYPE")
\* Mutant: the pointer is copied.
Mut_copy_string_shared == InPlace
copy_string == OwnBlock
copy_value == CopyOf([type |-> "same"], "xfer")
copy_info == CopyOf([key |-> "same", flags |-> "same"], "xfer")
copy_buf == CopyOf([payload |-> "dup"], "none")
copy_app == CopyOf([cmd |-> "dup", argv |-> "dup", env |-> "dup", cwd |-> "dup_if",
                    maxprocs |-> "same"], "key_value")
copy_kval == NoCopy("FAULT")     \* p->value of a new pmix_kval_t is NULL
copy_proc == InPlace
copy_modex == OwnBlock
copy_bo == OwnBlock
copy_pdata == CopyOf([nspace |-> "same", rank |-> "same", key |-> "same"], "xfer")
copy_array == CopyOf([block |-> "dup"], "share")     \* memcpy of the infos
copy_pinfo == CopyOf([block |-> "dup", proc |-> "same", hostname |-> "dup",
                      executable_name |-> "dup", pid |-> "same", exit_code |-> "same",
                      state |-> "same"], "none")
copy_query == CopyOf([keys |-> "dup_if"], "first")
copy_envar == CopyOf([envar |-> "dup", value |-> "dup", separator |-> "same"], "none")
\* The elements of an array, by their type.
darray_scalars(t) == InPlace
darray_blocks(t) ==
  CASE t \in {"STRING", "BYTE_OBJECT", "COMPRESSED_STRING"} -> OwnBlock
    [] t = "PROC_RANK" -> CopyOf([data |-> "junk"], "none")   \* copies sizeof(pmix_proc_t) each
    [] t = "BUFFER" -> copy_buf
darray_structs(t) ==
  CASE t = "VALUE" -> copy_value
    [] t = "APP" -> CopyOf([cmd |-> "dup", argv |-> "dup", env |-> "dup", cwd |-> "dup",
                    maxprocs |-> "same"], "xfer")
    [] t = "KVAL" -> CopyOf([key |-> "dup"], "xfer")
    [] t = "PROC_INFO" -> [copy_pinfo EXCEPT !.f.hostname = "dup", !.f.executable_name = "dup"]
    [] t = "QUERY" -> CopyOf([keys |-> "dup"], "xfer")
copy_element(t) ==
  CASE t \in Fixed \cup {"DOUBLE", "STATUS", "PROC", "PERSIST", "POINTER", "SCOPE", "DATA_RANGE",
                     "COMMAND", "INFO_DIRECTIVES"} -> darray_scalars(t)
    [] t \in {"STRING", "BYTE_OBJECT", "COMPRESSED_STRING", "PROC_RANK", "BUFFER"} ->
         darray_blocks(t)
    [] t \in {"VALUE", "APP", "KVAL", "PROC_INFO", "QUERY"} -> darray_structs(t)
    [] t = "INFO" -> copy_info
    [] t = "PDATA" -> copy_pdata
    [] t = "ENVAR" -> copy_envar
    [] t = "DATA_ARRAY" -> NoCopy("NOT_SUPPORTED")
    [] OTHER -> NoCopy("UNKNOWN_DATA_TYPE")
copy_darray == CopyOf([block |-> "dup"], "element")
\* v21 registers no function for PMIX_ENVAR and PMIX_IOF_CHANNEL.
copy(t) ==
  CASE t = "STRING" -> copy_string
    [] t = "VALUE" -> copy_value
    [] t = "INFO" -> copy_info
    [] t = "BUFFER" -> copy_buf
    [] t = "APP" -> copy_app
    [] t = "KVAL" -> copy_kval
    [] t = "PROC" -> copy_proc
    [] t = "MODEX" -> copy_modex
    [] t \in {"BYTE_OBJECT", "COMPRESSED_STRING"} -> copy_bo
    [] t = "PDATA" -> copy_pdata
    [] t = "INFO_ARRAY" -> copy_array
    [] t = "PROC_INFO" -> copy_pinfo
    [] t = "DATA_ARRAY" -> copy_darray
    [] t = "QUERY" -> copy_query
    [] t = "ENVAR" -> copy_envar
    [] OTHER -> std_copy(t)

\* ---- bfrop_base_fns.c: the data of a value ---------------------------------------------

value_xfer(t) ==
  CASE t = "UNDEF" \/ t \in Valued -> InPlace
    [] t \in {"STRING", "PROC", "BYTE_OBJECT", "COMPRESSED_STRING"} -> OwnBlock
    [] t = "PROC_INFO" -> copy_pinfo
    [] t = "DATA_ARRAY" -> copy_darray
    [] t = "ENVAR" -> copy_envar
    [] OTHER -> NoCopy("ERROR")
\* What is behind the pointer becomes the data of the value.
value_load(t) ==
  CASE t \in Valued -> InPlace
    [] t \in {"STRING", "PROC", "BYTE_OBJECT"} -> OwnBlock
    [] t = "PROC_INFO" -> copy_pinfo
    [] t = "ENVAR" -> copy_envar
    [] t = "DATA_ARRAY" -> copy_darray
    [] OTHER -> NoCopy("SILENT")
value_unload(t) ==
  CASE t \in Valued \ {"STATUS", "PROC_RANK"} -> InPlace
    [] t = "STRING" -> OwnBlock
    [] t = "BYTE_OBJECT" -> InPlace      \* the caller gets the value's own bytes
    [] t = "ENVAR" -> copy_envar
    [] t = "DATA_ARRAY" -> copy_darray
    [] OTHER -> NoCopy("ERROR")
\* Two values of type t with contents m and n; UINT8 is compared with an int8, and
\* compressed strings by their sizes alone.
value_cmp(t, m, n) ==
  CASE t = "UNDEF" -> "EQUAL"
    [] t \in {"BOOL", "BYTE", "SIZE", "INT", "INT8", "INT16", "INT32", "INT64", "UINT", "UINT16",
                   "UINT32", "UINT64", "STRING", "STATUS", "ENVAR"} -> IF m = n THEN "EQUAL" ELSE "VALUE1_GREATER"
    [] t = "UINT8" -> IF m = n /\ n < 128 THEN "EQUAL" ELSE "VALUE1_GREATER"
    [] t = "COMPRESSED_STRING" -> IF m > n THEN "VALUE2_GREATER" ELSE "VALUE1_GREATER"
    [] OTHER -> "VALUE1_GREATER"
=============================================================================
