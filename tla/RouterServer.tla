---------------------------- MODULE RouterServer ----------------------------
(***************************************************************************)
(* The llama.cpp router, as router.rs and router_operations.rs see it: one *)
(* status per model of its registry.  The router is shared: other clients  *)
(* load and unload models, and a saturated router evicts one model to load *)
(* another.  External: modelled from the answers the client parses.        *)
(*                                                                         *)
(* "loading" stands for Downloading and Loading, "ready" for Loaded and    *)
(* Sleeping, which no decision tells apart; "unknown" is a status the      *)
(* client does not know.  The failed flag comes beside any phase.          *)
(***************************************************************************)
CONSTANT Models

VARIABLE status

Statuses == [phase : {"unloaded", "loading", "ready", "unknown"}, failed : BOOLEAN]
Clear(phase) == [phase |-> phase, failed |-> FALSE]

\* a registry is what one GET /models answers
Registries == [Models -> Statuses]

\* RouterModelPhase, and the flag beside it
Ready(registry, m)    == registry[m].phase = "ready"
IsRunning(registry, m)  == registry[m].phase \in {"loading", "ready"}
Unloaded(registry, m) == registry[m].phase = "unloaded"
HasFailed(registry, m)   == registry[m].failed
Serves(registry, m) == Ready(registry, m) /\ ~HasFailed(registry, m)

RouterInit == status \in [Models -> {Clear("unloaded"), Clear("ready")}]

\* What an accepted request changes.  An unload may take a while.
LoadAccepted(m) ==
  status' = IF Ready(status, m) THEN status
            ELSE [status EXCEPT ![m] = Clear("loading")]

UnloadAccepted(m) ==
  \/ status' = [status EXCEPT ![m] = Clear("unloaded")]
  \/ UNCHANGED status

\* Loads end well or badly, other clients come, models are evicted.
RouterMoves(m) ==
  \/ /\ status[m].phase = "loading"
     /\ \E s \in Statuses :
          /\ s.phase # "loading" /\ s # Clear("unloaded")
          /\ status' = [status EXCEPT ![m] = s]
  \/ /\ ~Unloaded(status, m)
     /\ status' = [status EXCEPT ![m] = Clear("unloaded")]
  \/ /\ ~Ready(status, m)
     /\ status' = [status EXCEPT ![m] = Clear("loading")]
=============================================================================
