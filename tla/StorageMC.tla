------------------------------ MODULE StorageMC ------------------------------
(* A pool of nine places.  In the large pool, where only the context is, two  *)
(* variables, or one and the tables, come and go; in the small one there is   *)
(* room for three blocks, so that allocations fail at every step, and the     *)
(* program allocates and damages blocks too.                                  *)
EXTENDS Storage, TLC

CONSTANTS k1, k2, x1, x2, g1, g2, t1, t2

\* Bounds: blocks the program holds at once, and blocks it may hurt
CONSTANTS MaxHeld, MaxHurt

Symmetry ==
  {p @@ q @@ r @@ s : p \in Permutations(Keys), q \in Permutations(Values),
                      r \in Permutations(Guids), s \in Permutations(Tables)}

Large == Cardinality(others) = 1

Bounded ==
  /\ Cardinality(held) <= MaxHeld
  /\ Cardinality(hurt) <= MaxHurt
  /\ Large => held = {} /\ (cfg = <<>> \/ Len(vars) < 2)
=============================================================================
