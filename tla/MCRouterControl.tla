-------------------------- MODULE MCRouterControl --------------------------
(* Values of the constants of RouterControl for TLC. *)
EXTENDS RouterControl, TLC

Symmetry == Permutations(Addresses) \cup Permutations(Auths)
              \cup Permutations(Runtimes) \cup Permutations(Threads)
=============================================================================
