------------------------------- MODULE FilesMC -------------------------------
(* A directory with a file in it beside a file. *)
EXTENDS Files, TLC

CONSTANTS a, b

Paths1 == {<<a>>, <<b>>, <<"..", SEP, b>>}

\* Bound: what the volume may hold
Small(t) == DOMAIN t \subseteq {<<a>>, <<b>>, <<a, b>>}

Trees == {<<a>> :> "folder" @@ <<b>> :> "file" @@ <<a, b>> :> "file", << >>}

Bounded == Small(tree)
=============================================================================
