------------------------ MODULE OperationController ------------------------
(***************************************************************************)
(* What RouterOperationController promises to everyone who shares it: one  *)
(* operation at a time, and an operation that runs ends with an outcome.   *)
(* RouterOperations implements it; RouterControl is built on it.           *)
(***************************************************************************)
VARIABLE operation    \* the state of the controller, without its evidence

Outcomes == {"Succeeded", "Failed", "Cancelled"}
OperationStates == {"Idle", "Running"} \cup Outcomes

Idle == operation = "Idle"

Begins == operation # "Running" /\ operation' = "Running"

Ends == operation = "Running" /\ operation' \in Outcomes

Step == Begins \/ Ends

Spec == Idle /\ [][Step]_operation
=============================================================================
