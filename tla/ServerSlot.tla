----------------------------- MODULE ServerSlot -----------------------------
(***************************************************************************)
(* What ServerProcessSupervisor promises, without threads, locks or UI:    *)
(* one slot holds at most one child process, a process is put in the slot  *)
(* once and taken out only when it is dead, and a child that dies stays    *)
(* dead.  ServerLifecycle implements this specification.                   *)
(***************************************************************************)
CONSTANTS Pids, None

VARIABLES
  slot,     \* the supervised process, or None
  live,     \* the running children of this application session
  used      \* the children that were ever created

slotVars == <<slot, live, used>>

Init == slot = None /\ live = {} /\ used = {}

\* A child is created only while no other child is alive.
Create(p) ==
  /\ p \notin used
  /\ live = {}
  /\ slot' = None
  /\ live' = {p}
  /\ used' = used \cup {p}

\* The child becomes the supervised process.
Adopt(p) ==
  /\ slot = None
  /\ p \in used
  /\ live \subseteq {p}
  /\ slot' = p
  /\ UNCHANGED <<live, used>>

Die(p) ==
  /\ p \in live
  /\ live' = live \ {p}
  /\ UNCHANGED <<slot, used>>

\* The supervised process leaves the slot only once it is dead.
Release ==
  /\ slot # None
  /\ slot \notin live
  /\ slot' = None
  /\ UNCHANGED <<live, used>>

\* The application dies and what it owned dies with it.
SessionEnds ==
  /\ slot' = None
  /\ live' = {}
  /\ UNCHANGED used

Next ==
  \/ \E p \in Pids : Create(p) \/ Adopt(p) \/ Die(p)
  \/ Release
  \/ SessionEnds

Spec == Init /\ [][Next]_slotVars
=============================================================================
