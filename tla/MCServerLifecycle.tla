------------------------- MODULE MCServerLifecycle -------------------------
(* Values of the constants of ServerLifecycle for TLC. *)
EXTENDS ServerLifecycle, TLC

CooperativeButtons == {"START", "STOP", "RESTART"}
StartStopButtons == {"START", "STOP"}

\* Threads and children are interchangeable.
Symmetry == Permutations(Workers) \cup Permutations(Pids)
=============================================================================
