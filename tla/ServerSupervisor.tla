-------------------------- MODULE ServerSupervisor --------------------------
(***************************************************************************)
(* ServerProcessSupervisor and ManagedServerProcess (server_process.rs):   *)
(* the child processes the operating system runs for the application, the  *)
(* one the supervisor holds, and the exit evidence the supervisor caches.  *)
(* Every action here runs while its caller holds the supervisor's mutex;   *)
(* only ProcessExit, the child's own exit, needs nobody's permission.      *)
(* A pid stands for one child process: it is never used twice.             *)
(***************************************************************************)
CONSTANTS
  Pids,     \* the child processes that can be created
  None      \* no process

ASSUME NoneAssumption == None \notin Pids

VARIABLES
  os,         \* what the operating system knows of each child
  current,    \* ServerProcessSupervisor.current
  evidence    \* ManagedServerProcess.exit_evidence (its kind)

supervisorVars == <<os, current, evidence>>

\* unborn, running, or exited with code 0 or another code
OsStates == {"unborn", "running", "zero", "nonzero"}
ExitKinds == {"Natural", "ForceKilled"}

Running(p) == os[p] = "running"
Exited(p)  == os[p] \in {"zero", "nonzero"}

SupervisorTypeOK ==
  /\ os \in [Pids -> OsStates]
  /\ current \in Pids \cup {None}
  /\ evidence \in [Pids -> ExitKinds \cup {"none"}]

SupervisorInit ==
  /\ os = [p \in Pids |-> "unborn"]
  /\ current = None
  /\ evidence = [p \in Pids |-> "none"]

-----------------------------------------------------------------------------
\* A child exits by itself, with any code.
ProcessExit(p) ==
  /\ Running(p)
  /\ \E code \in {"zero", "nonzero"} : os' = [os EXCEPT ![p] = code]
  /\ UNCHANGED <<current, evidence>>

\* Mutant: every look at an exited process writes its evidence again.
ObservedAgain(p) ==
  IF Exited(p) THEN [evidence EXCEPT ![p] = "Natural"] ELSE evidence

\* ManagedServerProcess::state caches the evidence of an exit it finds.
Observed(p) ==
  IF Exited(p) /\ evidence[p] = "none"
  THEN [evidence EXCEPT ![p] = "Natural"]
  ELSE evidence

\* Until an exit is cached, every look at the process asks the operating
\* system, which can fail.
ExitCached == current # None /\ evidence[current] # "none"

SlotRunning == current # None /\ Running(current)
\* Mutant: a start does not look at the process in the slot.
SlotIgnored == TRUE
SlotFree    == ~SlotRunning

\* start_process_with_logs: a running process is never replaced; an exited
\* one leaves the slot before the spawn is tried.
SpawnChild(p) ==
  /\ SlotFree
  /\ os[p] = "unborn"
  /\ os' = [os EXCEPT ![p] = "running"]
  /\ current' = None
  /\ UNCHANGED evidence

SpawnFails ==
  /\ SlotFree
  /\ current' = None
  /\ UNCHANGED <<os, evidence>>

\* AlreadyRunning, or the state of the current process cannot be read
SpawnRefused ==
  /\ current # None
  /\ Running(current) \/ ~ExitCached
  /\ UNCHANGED supervisorVars

\* The child enters the Job Object and the slot.
AttachJob(p) ==
  /\ current' = p
  /\ UNCHANGED <<os, evidence>>

\* Mutant: the child that could not be attached is not killed.
AttachFailsLeaks(p) == UNCHANGED supervisorVars

\* No Job Object or no log pipe: the child is killed and reaped here.
AttachFails(p) ==
  /\ os' = IF Running(p) THEN [os EXCEPT ![p] = "nonzero"] ELSE os
  /\ UNCHANGED <<current, evidence>>

\* clear_exited; a process that cannot be looked at stays.
ClearExited ==
  /\ \/ current' = IF SlotRunning THEN current ELSE None
     \/ current # None /\ ~ExitCached /\ current' = current
  /\ UNCHANGED <<os, evidence>>

\* The kill and the wait at the end of force_kill.  A child that exits by
\* itself after the last try_wait is still recorded as force-killed.
Terminate ==
  /\ os' = IF Running(current) THEN [os EXCEPT ![current] = "nonzero"] ELSE os
  /\ evidence' = [evidence EXCEPT ![current] = "ForceKilled"]
  /\ UNCHANGED current

\* The application dies: the operating system closes the Job Object handle,
\* which kills the process in it (JOB_OBJECT_LIMIT_KILL_ON_JOB_CLOSE).
SupervisorDies ==
  /\ os' = IF SlotRunning THEN [os EXCEPT ![current] = "nonzero"] ELSE os
  /\ current' = None
  /\ UNCHANGED evidence
=============================================================================
