--------------------------- MODULE MCDurableCatalog ---------------------------
(* Instances of DurableCatalog for TLC: two inputs of one world, which differ  *)
(* in their cost profile, and one of another world.                           *)
EXTENDS DurableCatalog, TLC

CONSTANTS base, high, other   \* inputs
CONSTANTS w1, w2              \* worlds

MCWorld == [i \in Input |-> IF i = other THEN w2 ELSE w1]

Symmetry == Permutations(Proc) \cup Permutations(Execution)
=============================================================================
