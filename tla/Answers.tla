------------------------------- MODULE Answers -------------------------------
(***************************************************************************)
(* The services that keep no state: what they answer, whatever the program *)
(* has done before.  Most of them are not implemented and only say so.     *)
(* The others tell the time, the room for variables, and facts about files *)
(* in a buffer whose size the program has to find out.                     *)
(*                                                                         *)
(* A function is named by the slot of the table a program calls it from.   *)
(***************************************************************************)
EXTENDS Integers, Sequences, FiniteSets

-----------------------------------------------------------------------------
(* Functions that answer unsupported to any call, by the file they are in *)

\* The DXE services: memory space, I/O space, and the rest
MemorySpaces ==
  {"add_mem_space", "alloc_mem_space", "free_mem_space", "remove_mem_space", "get_mem_space_desc",
   "set_mem_space_attrs", "set_mem_space_caps", "get_mem_space_map"}
IoSpaces ==
  {"add_io_space", "alloc_io_space", "free_io_space", "remove_io_space", "get_io_space_desc",
   "get_io_space_map"}
Dispatchers == {"dispatch", "schedule", "trust", "proc_fv"}

\* The packages of the database and its keyboard layouts
PackageLists ==
  {"new_package_list", "remove_package_list", "update_package_list", "list_package_lists",
   "export_package_lists", "register_package_notify", "unregister_package_notify"}
KeyboardLayouts ==
  {"find_keyboard_layouts", "get_keyboard_layout", "set_keyboard_layout", "get_package_list_handle"}

HiiStrings == {"new_string", "get_string", "set_string", "get_languages", "get_secondary_languages"}
HiiFonts == {"string_to_image", "string_id_to_image", "get_glyph", "get_font_info"}
HiiImages == {"new_image", "get_image", "set_image", "draw_image", "draw_image_id"}
HiiConfigurations ==
  {"extract_config", "export_config", "route_config", "block_to_config", "config_to_block",
   "get_alt_config"}

Addresses == {"set_va_map", "convert_pointer"}
Capsules == {"update_capsule", "query_capsule_caps"}
Clocks == {"get_wakeup_time", "set_wakeup_time", "get_next_high_mono_count", "get_next_mono_count",
           "set_watchdog_timer"}
Timestamps == {"get_properties"}
TextInputEx == {"read_key_stroke_ex", "set_state", "register_key_notify", "unregister_key_notify"}
AsynchronousFiles == {"open_ex", "read_ex", "write_ex", "flush_ex"}

Unsupported ==
  UNION {MemorySpaces, IoSpaces, Dispatchers, PackageLists, KeyboardLayouts, HiiStrings, HiiFonts, HiiImages, HiiConfigurations,
         Addresses, Capsules, Clocks, Timestamps, TextInputEx, AsynchronousFiles, {"unload_image"}}

AnswerOf(function) ==
  IF function = "set_time" THEN "access_denied"
  ELSE IF function \in Unsupported THEN "unsupported"
  ELSE "implemented"

\* Any string sorts before any other, no pattern matches, nothing is converted.
Collation == [stricoll |-> -1, metaimatch |-> FALSE, strtofat |-> FALSE]

-----------------------------------------------------------------------------
(* The time *)

\* localtime(3) gives the parts of a time, or nothing.  Seconds east of Greenwich
\* become minutes; C divides towards zero.
Truncated(x, y) == IF x >= 0 THEN x \div y ELSE -((-x) \div y)

FromTimestamp(tm, zoneHasDaylight) ==
  [year |-> 1900 + tm.year, month |-> tm.mon + 1, day |-> tm.mday,
   hour |-> tm.hour, minute |-> tm.min, second |-> tm.sec, nanosecond |-> 0,
   timezone |-> Truncated(tm.gmtoff, 60),
   daylight |-> (IF zoneHasDaylight THEN {"adjusts"} ELSE {})
                  \cup (IF tm.isdst > 0 THEN {"in_daylight"} ELSE {})]

FromTimeval(tm, usec, zone) == [FromTimestamp(tm, zone) EXCEPT !.nanosecond = usec * 1000]

\* Faulty variant of FromTimespec: nanoseconds are taken for microseconds.
FromTimespecScaled(tm, nsec, zone) == [FromTimestamp(tm, zone) EXCEPT !.nanosecond = nsec * 1000]

FromTimespec(tm, nsec, zone) == [FromTimestamp(tm, zone) EXCEPT !.nanosecond = nsec]

\* A call without a place for the time, a clock that fails, a time without parts
GetTime(c) ==
  IF ~c.place THEN [status |-> "invalid_parameter"]
  ELSE IF ~c.clock \/ c.tm = {} THEN [status |-> "device_error"]
  ELSE [status |-> "success", time |-> FromTimeval(CHOOSE tm \in c.tm : TRUE, c.usec, c.zone)]

-----------------------------------------------------------------------------
(* Variables: QueryVariableInfo *)

Attributes == {"non_volatile", "bootservice", "runtime", "hardware_error", "authenticated",
               "time_based", "append"}
QueryMask == Attributes \ {"authenticated"}

QueryVariableInfo(attrs) ==
  IF "authenticated" \in attrs \/ attrs \cap QueryMask = {} THEN "unsupported"
  ELSE IF "runtime" \in attrs /\ "bootservice" \notin attrs THEN "invalid_parameter"
  ELSE IF "hardware_error" \in attrs /\ "non_volatile" \notin attrs THEN "invalid_parameter"
  ELSE IF attrs \cap {"time_based", "hardware_error"} # {} THEN "unsupported"
  ELSE "success"

-----------------------------------------------------------------------------
(* Ends: who calls is the image that runs, innermost (Images), or nobody *)

\* Boot services go on as before, only the timer is stopped.
ExitBootServices(ready, running, handle) ==
  IF ~ready \/ running = "none" THEN "not_ready"
  ELSE IF handle # running THEN "invalid_parameter" ELSE "success"

\* A reset ends the image that runs, as Exit does; without one it returns.
ResetSystem(running) == IF running = "none" THEN "returns" ELSE running

-----------------------------------------------------------------------------
(* Files: what GetInfo tells in a buffer of the program *)

\* Sizes, in bytes, of the records before the name; a name of n characters has
\* 2n + 2 bytes and both names of the code hold them.
RecordOf == [volume_label |-> 0, file_system_info |-> 40, file_info |-> 80]

\* Faulty variant of InfoSize: the record is not counted.
InfoSizeBare(type, name) == 2 * name + 2

InfoSize(type, name) == RecordOf[type] + 2 * name + 2

\* A buffer that is too small is answered with the size it needs; whether the host
\* tells what it knows of the file is seen when the buffer was found large enough.
GetInfo(type, name, size, buffer, host) ==
  IF type \notin DOMAIN RecordOf THEN [status |-> "unsupported", size |-> size, written |-> 0]
  ELSE IF InfoSize(type, name) > size
       THEN [status |-> "buffer_too_small", size |-> InfoSize(type, name), written |-> 0]
  ELSE IF ~buffer THEN [status |-> "buffer_too_small", size |-> size, written |-> 0]
  ELSE IF type # "volume_label" /\ ~host
       THEN [status |-> "device_error", size |-> size, written |-> InfoSize(type, name)]
  ELSE [status |-> "success", size |-> size, written |-> InfoSize(type, name)]

\* Attributes come from the host's mode bits only: that a name begins with a dot is
\* found by the directory reader, which then lets them be written over.
AttributesOf(mode) ==
  (IF mode.kind = "directory" THEN {"directory"} ELSE IF mode.kind # "regular" THEN {"system"} ELSE {})
    \cup (IF mode.owner_writes THEN {} ELSE {"read_only"})

-----------------------------------------------------------------------------
(* What a program can rely on *)

\* The README's list of services that are not implemented (README.md:41-55)
Unimplemented ==
  {"set_va_map", "convert_pointer", "update_capsule", "query_capsule_caps", "set_time",
   "get_wakeup_time", "set_wakeup_time", "get_next_high_mono_count", "get_next_mono_count",
   "unload_image", "set_watchdog_timer"}

\* A time is told in the ranges of EFI_TIME and names the instant of the clock:
\* another instant of the host is another time.
TimeTold(c, d) ==
  LET r == GetTime(c)
      s == GetTime(d)
  IN /\ (r.status = "success") = (c.place /\ c.clock /\ c.tm # {})
     /\ r.status = "success" =>
          /\ r.time.year \in 1900..9999 /\ r.time.month \in 1..12 /\ r.time.day \in 1..31
          /\ r.time.hour \in 0..23 /\ r.time.minute \in 0..59 /\ r.time.second \in 0..59
          /\ r.time.nanosecond \in 0..999999999 /\ r.time.timezone \in -1440..1440
          /\ s.status = "success" /\ r.time = s.time => c.tm = d.tm /\ c.usec = d.usec
          /\ FromTimespec(CHOOSE tm \in c.tm : TRUE, c.usec * 1000, c.zone) = r.time

\* A program that asks with what it has, gets the size, and asks again with a buffer
\* of that size is answered, in that buffer; the answer is never larger than it.
InfoFits(type, name, size) ==
  LET first == GetInfo(type, name, size, size > 0, TRUE)
      again == GetInfo(type, name, first.size, TRUE, TRUE)
  IN type \in DOMAIN RecordOf =>
       /\ first.status = "success" \/ again.status = "success"
       /\ first.written <= size /\ again.written <= first.size
       /\ GetInfo(type, name, size, TRUE, FALSE).written <= size
       /\ 2 * name + 2 + RecordOf[type] = again.written

\* Attributes a variable may have: it is the boot services' as well if it is the
\* runtime's, and neither authenticated nor a hardware error's.
Storable(attrs) ==
  /\ attrs # {}
  /\ "runtime" \in attrs => "bootservice" \in attrs
  /\ attrs \cap {"authenticated", "time_based", "hardware_error"} = {}

\* Nothing that is not implemented looks as if it had worked: it refuses, or finds
\* no match and no equal strings.  A hidden file looks like any other.  What ends
\* an image, or its boot services, is for the one that runs.
AnswersSound ==
  /\ \A f \in Unimplemented : AnswerOf(f) \notin {"success", "implemented"}
  /\ Collation.stricoll # 0 /\ ~Collation.metaimatch /\ ~Collation.strtofat
  /\ \A mode \in [kind : {"directory", "regular", "device"}, owner_writes : BOOLEAN] :
       ("directory" \in AttributesOf(mode)) = (mode.kind = "directory") /\ "hidden" \notin AttributesOf(mode)
  /\ \A running \in {"none", "outer", "inner"}, handle \in {"outer", "inner"} :
       ExitBootServices(TRUE, running, handle) = "success" => ResetSystem(running) = handle
  /\ \A attrs \in SUBSET Attributes : (QueryVariableInfo(attrs) = "success") = Storable(attrs)
=============================================================================
