------------------------------ MODULE EventsMC ------------------------------
(***************************************************************************)
(* Instances of Events for TLC.                                            *)
(***************************************************************************)
EXTENDS Events, TLC

CONSTANTS e1, e2, e3

Symmetry == Permutations(Event)

Args(type, level, group) ==
  [type |-> type, tpl |-> level, func |-> TRUE, group |-> group]

\* A group at two notification levels, an event to wait for and an invalid request.
NestingRequests ==
  {Args({"signal"}, CALLBACK, "g"), Args({"signal"}, NOTIFY, "g"),
   Args({"wait"}, CALLBACK, NoGroup), Args({"signal"}, APPLICATION, NoGroup)}

\* An event, another in the group of the EXIT_BOOT_SERVICES events, one of these,
\* of a higher level, and an event to wait for.
LiveRequests ==
  {Args({"signal"}, CALLBACK, NoGroup), Args({"signal"}, CALLBACK, "exit_bs"),
   Args({"signal", "exit_bs"}, NOTIFY, NoGroup), Args({"wait"}, CALLBACK, NoGroup)}

Waits == {<<e>> : e \in Event} \cup {<<e1, e2>>}
Pairs == {<<e, f>> : e, f \in Event} \ {<<e, e>> : e \in Event}
=============================================================================
