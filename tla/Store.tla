-------------------------------- MODULE Store --------------------------------
(***************************************************************************)
(* What the variable services promise: a map from names to data.  A call   *)
(* that is answered with success has its effect, any other has none.  The  *)
(* one exception: a new variable may be lost in silence, or end the        *)
(* program, when memory runs out.                                          *)
(***************************************************************************)
EXTENDS Naturals

CONSTANTS
  Keys,    \* name and GUID of a variable
  Values,  \* contents
  NONE     \* no contents

VARIABLES
  value,   \* the contents of every variable, or NONE
  said,    \* the last answer
  spare,   \* the blocks of memory that are left
  ended    \* the program was ended

vars == <<value, said, spare, ended>>

Needed == 4  \* data, name, item and list node of a variable

Init == value = [k \in Keys |-> NONE] /\ said = "none" /\ ended = FALSE

Effect(k, v) == value' = [value EXCEPT ![k] = v]
Possible(k, v) == v # NONE \/ value[k] # NONE

Set(k, v) ==
  \/ /\ Possible(k, v)
     /\ Effect(k, v)
     /\ said' = "success"
  \/ /\ ~Possible(k, v)
     /\ said' = "not_found"
     /\ UNCHANGED value
  \/ /\ v # NONE
     /\ spare < Needed
     /\ said' = "out_of_resources"
     /\ UNCHANGED value
  \/ /\ v # NONE /\ value[k] = NONE
     /\ spare < Needed
     /\ said' = "success"
     /\ UNCHANGED value

Next ==
  \/ \E k \in Keys, v \in Values \cup {NONE} : Set(k, v) /\ ended' = FALSE
  \/ UNCHANGED <<value, said>>

Spec == Init /\ [][Next]_vars
=============================================================================
