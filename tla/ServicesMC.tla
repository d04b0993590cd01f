----------------------------- MODULE ServicesMC -----------------------------
(***************************************************************************)
(* Services with those of the repository that differ for the manager: two  *)
(* firmware tables, one of which needs the other, the three graphics       *)
(* outputs and a root file system.                                         *)
(***************************************************************************)
EXTENDS Services

Tables == {"BootServices", "SystemTable"}
Graphics == {"SDL2", "VNC", "Memory"}
Root == "UnixRoot"
Services == Tables \cup Graphics \cup {Root}

\* Each of these services has one configuration, and its GUID is its name.
Guids == Services \cup {"GraphicsOutput"}
Identity == [c \in Services |-> c]

Provided == [s \in Services |-> IF s \in Graphics THEN {s, "GraphicsOutput"} ELSE {s}]

Needed == [s \in Services |->
             CASE s = "BootServices" -> {}
               [] s = "SystemTable" -> {"BootServices"}
               [] OTHER -> {"BootServices", "SystemTable"}]

Before == [s \in Services |->
             CASE s = "VNC" -> {"SDL2"}
               [] s = "Memory" -> {"SDL2", "VNC"}
               [] OTHER -> {}]
=============================================================================
