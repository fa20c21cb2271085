--------------------------- MODULE MCRunLifecycle ---------------------------
(* Instances of RunLifecycle for TLC. *)
EXTENDS RunLifecycle, TLC

CONSTANTS e1, e2, e3, b1, b2

\* Executions and documents are interchangeable.
Symmetric == Permutations(Exec) \cup Permutations(Body)
=============================================================================
