------------------------------ MODULE DisplayMC ------------------------------
(***************************************************************************)
(* An instance of Display for TLC: two modes of one size and a larger one. *)
(***************************************************************************)
EXTENDS Display, TLC

Modes == {"small", "wide", "large"}
Sizes == [m \in Modes |-> IF m = "large" THEN 2 ELSE 1]
=============================================================================
