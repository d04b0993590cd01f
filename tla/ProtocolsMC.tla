---------------------------- MODULE ProtocolsMC ----------------------------
(***************************************************************************)
(* Instances of Protocols for TLC.  Handle 1 is a controller, 2 and 3 have *)
(* drivers; 3 is also the child driver 2 has on handle 1.                  *)
(***************************************************************************)
EXTENDS Protocols, TLC

In(h, g) == [handle |-> h, guid |-> g, intf |-> "i"]

P(g) == [guid |-> g, intf |-> "i"]
Handles == << <<P("io")>>, <<P("bind")>>, <<P("bind")>> >>

OnHandles == {In(NULL, "io"), In(2, "io"), In(1, "io"), In(2, "bind")}
Lists == {[handle |-> 2, pairs |-> <<P("io"), P("bind")>>],
          [handle |-> NULL, pairs |-> <<[guid |-> "bind", intf |-> NoInterface]>>]}

Arg(g, a, c, attrs) ==
  [handle |-> 1, guid |-> g, agent |-> a, controller |-> c, attrs |-> attrs]

\* Two drivers, one of them exclusive and one with a child.
OpenArgs ==
  {Arg("io", 2, 1, {"driver"}), Arg("io", 3, 1, {"driver"}),
   Arg("io", 2, 3, {"child"}),
   Arg("io", 3, 1, {"driver", "exclusive"})}

ConnectArgs == {[controller |-> 1, recursive |-> TRUE, end |-> FALSE]}
DisconnectArgs ==
  {[controller |-> 1, driver |-> NULL, child |-> NULL],
   [controller |-> 1, driver |-> 2, child |-> 3]}

\* Start functions open, stop functions close, notifications start a program that
\* installs more, and each of them may exit.
Programs ==
  [main |-> ServiceName \ {"StartImage", "Exit"}, image |-> {"Install", "Exit"},
   supported |-> {}, start |-> {"Open", "Exit"}, stop |-> {"Close", "Exit"},
   notify |-> {"StartImage", "Exit"}]
=============================================================================
