------------------------------ MODULE Firmware ------------------------------
(***************************************************************************)
(* The tables a program gets: the services compiled into the emulator that *)
(* make them (src/efi-wrapper/efi/data), those that put protocols and      *)
(* consoles on them, and the checksum in the header of each table.         *)
(*                                                                         *)
(* In which order the services start is the service manager's business     *)
(* (Services): here any service starts whose declared dependencies have.   *)
(***************************************************************************)
EXTENDS Naturals, FiniteSets

VARIABLES
  context,  \* what the context points to: a subset of {"bs", "rt", "st", "ds"}
  content,  \* table |-> what it holds beside its header and its functions
  summed,   \* table |-> what it held when its checksum was computed
  running,  \* the services that were started
  answer    \* what the last start function answered

firmwareVars == <<context, content, summed, running, answer>>

Consoles == {"stdin", "stdout", "stderr"}
HiiServices == {"HiiDatabase", "HiiString", "HiiFont", "HiiImage", "HiiConfigRouting"}
ProtocolServices == HiiServices \cup {"UnicodeCollation", "DevicePathUtilities", "PosixRoot"}
TableServices == {"BootServices", "RuntimeService", "SystemTable", "DxeServices", "HobList",
                  "MemoryTypeInformation"}

\* What the services declare
OnTables == {"BootServices", "SystemTable"}
NeedsOf ==
  [s \in TableServices \cup ProtocolServices \cup Consoles |->
     CASE s \in {"BootServices", "RuntimeService"} -> {}
       [] s = "SystemTable" -> {"BootServices", "RuntimeService"}
       [] OTHER -> OnTables]

Empty == [entries |-> {}, consoles |-> {}, tables |-> {}]

FirmwareInit ==
  /\ context = {} /\ running = {} /\ answer = "success"
  /\ content = [t \in {"bs", "rt", "st", "ds"} |-> Empty]
  /\ summed = [t \in {"bs", "rt", "st", "ds"} |-> "none"]

Declared(s) == s \notin running /\ NeedsOf[s] \subseteq running

Refuse(status) == answer' = status /\ UNCHANGED <<context, content, summed, running>>

\* A table becomes the context's with the checksum of what it holds now.
Enter(t, held) ==
  /\ context' = context \cup {t}
  /\ content' = [content EXCEPT ![t] = held]
  /\ summed' = [summed EXCEPT ![t] = held]

Answered(s) == running' = running \cup {s} /\ answer' = "success"

StartBootServices ==
  /\ Declared("BootServices")
  /\ IF "bs" \in context THEN Refuse("already_started")
                         ELSE Enter("bs", Empty) /\ Answered("BootServices")

StartRuntimeService ==
  /\ Declared("RuntimeService")
  /\ IF "rt" \in context THEN Refuse("already_started")
                         ELSE Enter("rt", Empty) /\ Answered("RuntimeService")

StartSystemTable ==
  /\ Declared("SystemTable")
  /\ IF ~({"bs", "rt"} \subseteq context) THEN Refuse("not_ready")
     ELSE IF "st" \in context THEN Refuse("already_started")
     ELSE Enter("st", [Empty EXCEPT !.tables = {"bs", "rt"}]) /\ Answered("SystemTable")

\* Faulty variant of Summed: the checksum stays that of the table before.
SummedBefore(t, held) ==
  /\ content' = [content EXCEPT ![t] = held]
  /\ UNCHANGED summed

\* A table of the context that changes is summed again.
Summed(t, held) ==
  /\ content' = [content EXCEPT ![t] = held]
  /\ summed' = [summed EXCEPT ![t] = held]

\* What the system table holds once InstallConfigurationTable, which sums it again,
\* has added the table of s (Storage has the rest of that function).
Configured(s) == [content["st"] EXCEPT !.entries = @ \cup {s}]

\* The start function looks for both tables before it uses them.
StartDxeServices ==
  /\ Declared("DxeServices")
  /\ IF ~({"bs", "st"} \subseteq context) THEN Refuse("not_ready")
     ELSE IF "ds" \in context THEN Refuse("already_started")
     ELSE /\ context' = context \cup {"ds"}
          /\ content' = [content EXCEPT !["st"] = Configured("DxeServices")]
          /\ summed' = [summed EXCEPT !["ds"] = Empty, !["st"] = Configured("DxeServices")]
          /\ Answered("DxeServices")

\* These do not look: without boot services they would call through NULL, and
\* without a system table InstallConfigurationTable is not ready.
StartConfigured(s) ==
  /\ Declared(s)
  /\ IF "bs" \notin context THEN Refuse("fault")
     ELSE IF "st" \notin context THEN Refuse("not_ready")
     ELSE Summed("st", Configured(s)) /\ Answered(s) /\ UNCHANGED context

StartHobList == StartConfigured("HobList")
StartMemoryTypes == StartConfigured("MemoryTypeInformation")

\* The protocols of a service are put on its handle with the boot services.
StartProtocol(s) ==
  /\ Declared(s)
  /\ IF "bs" \notin context THEN Refuse("fault")
     ELSE Answered(s) /\ UNCHANGED <<context, content, summed>>

StartHiiDatabase == StartProtocol("HiiDatabase")
StartHiiString == StartProtocol("HiiString")
StartHiiFont == StartProtocol("HiiFont")
StartHiiImage == StartProtocol("HiiImage")
StartHiiConfigRouting == StartProtocol("HiiConfigRouting")
StartUnicodeCollation == StartProtocol("UnicodeCollation")
StartDevicePathUtilities == StartProtocol("DevicePathUtilities")
StartPosixRoot == StartProtocol("PosixRoot")

\* A console besides puts itself into the system table if it is the first there.
StartConsole(c) ==
  /\ Declared(c)
  /\ IF "bs" \notin context \/ "st" \notin context THEN Refuse("fault")
     ELSE /\ IF c \in content["st"].consoles THEN UNCHANGED <<content, summed>>
             ELSE Summed("st", [content["st"] EXCEPT !.consoles = @ \cup {c}])
          /\ Answered(c)
          /\ UNCHANGED context

FirmwareNext ==
  \/ StartBootServices \/ StartRuntimeService \/ StartSystemTable \/ StartDxeServices
  \/ StartHobList \/ StartMemoryTypes
  \/ StartHiiDatabase \/ StartHiiString \/ StartHiiFont \/ StartHiiImage \/ StartHiiConfigRouting
  \/ StartUnicodeCollation \/ StartDevicePathUtilities \/ StartPosixRoot
  \/ \E c \in Consoles : StartConsole(c)

\* No service is left that may start; the context is then looked at once more.
Finished == \A s \in DOMAIN NeedsOf : ~Declared(s)
Complete == context = {"bs", "rt", "st", "ds"}

-----------------------------------------------------------------------------

\* Whatever order the declared dependencies allow, every start function finds the
\* tables it uses, the checksum of a table the program can see is that of what the
\* table holds, whoever put something into it last, and a context is complete in the
\* end.
FirmwareSound ==
  /\ answer = "success"
  /\ \A t \in context : summed[t] = content[t]
  /\ Finished => Complete
  /\ "st" \in context => content["st"].tables = {"bs", "rt"} /\ {"bs", "rt"} \subseteq context
=============================================================================
