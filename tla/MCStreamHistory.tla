-------------------------- MODULE MCStreamHistory --------------------------
(***************************************************************************)
(* Instances of StreamHistory, and of its refinement, for TLC.             *)
(***************************************************************************)
EXTENDS StreamRefinement, TLC

Symmetry == Permutations(Vehicles) \cup Permutations(Callers) \cup Permutations(Metrics)
=============================================================================
