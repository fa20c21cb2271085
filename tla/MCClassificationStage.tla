------------------------ MODULE MCClassificationStage ------------------------
(* Instances of ClassificationStage for TLC.                                *)
EXTENDS ClassificationStage, TLC

\* Executions, Runs and contents are interchangeable.
Symmetry == Permutations(Exec) \cup Permutations(Run) \cup Permutations(Content)

=============================================================================
