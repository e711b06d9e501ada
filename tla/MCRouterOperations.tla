------------------------- MODULE MCRouterOperations -------------------------
(* Values of the constants of RouterOperations for TLC. *)
EXTENDS RouterOperations, TLC

\* Callers and models are interchangeable.
Symmetry == Permutations(Callers) \cup Permutations(Models)
=============================================================================
