---------------------------- MODULE MCResourcePool ----------------------------
(* Instances of ResourcePool for TLC.                                       *)
EXTENDS ResourcePool, TLC

CONSTANTS small, large   \* payloads

MCRaw == small :> 3 @@ large :> 12

Symmetry == Permutations(Proc) \cup Permutations(Name)

=============================================================================
