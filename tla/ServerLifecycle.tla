--------------------------- MODULE ServerLifecycle ---------------------------
(***************************************************************************)
(* The managed llama-server: the SERVER LAB view (server_ui_clean.rs), its *)
(* worker threads and process monitors, and the supervisor they share.     *)
(*                                                                         *)
(* A click spawns a worker thread, which works through one operation.  Two *)
(* locks order the threads: the supervisor's mutex (supLock), held while a *)
(* start polls for readiness and a stop waits for the child, and the lock  *)
(* of the view's signal (stateLock).  A read or a write of the signal is   *)
(* one step that needs stateLock free; run_force_kill alone keeps it over  *)
(* several steps.  Each step below is one critical section of the code.    *)
(*                                                                         *)
(* generation is a counter in the code, compared only for equality; here   *)
(* it is the child adopted last.  A process monitor is named by the child  *)
(* whose adoption spawned it.                                              *)
(***************************************************************************)
EXTENDS ServerSupervisor, Naturals

CONSTANTS
  Workers,      \* the threads that clicks spawn
  Buttons,      \* the buttons the user presses
  MaxClicks,    \* bound: operations the user starts and deaths together
  MaxCrashes    \* bound: deaths of the application

AllButtons == {"START", "STOP", "RESTART", "FORCE KILL"}

ASSUME LifecycleAssumption ==
  /\ None \notin Workers
  /\ Buttons \subseteq AllButtons
  /\ MaxClicks \in Nat
  /\ MaxCrashes \in Nat

VARIABLES
  ui,           \* ServerUiState
  cancelled,    \* the shared cancellation flag
  supLock,      \* the holder of the supervisor's mutex, or None
  stateLock,    \* the worker that holds the signal's write lock, or None
  pc,           \* where each worker is
  seen,         \* the child a worker started, waits for or got evidence of
  result,       \* how the call under the supervisor's mutex ended
  restart,      \* run_graceful_stop's argument
  monitor,      \* where the process monitor of each adopted child is
  found,        \* the exited child a monitor found in the supervisor
  escaped,      \* children alive after the application died without them
  clicks,
  crashes

threadVars  == <<pc, seen, result, restart>>
monitorVars == <<monitor, found>>
lockVars    == <<supLock, stateLock>>
boundVars   == <<escaped, clicks, crashes>>
otherVars   == <<monitorVars, escaped, clicks, crashes>>
vars == <<supervisorVars, ui, cancelled, lockVars, threadVars, otherVars>>

Operations == {"Idle", "Starting", "Stopping"}
Phases == {"Stopped", "Starting", "Ready", "Stopping", "Failed", "Crashed",
           "Unknown"}

StartLabels == {"start", "begin", "failStart", "spawn", "attach",
                "failStartLocked", "adopt", "await", "poll", "probe", "tail"}
StopLabels  == {"stop", "stopCancel", "stopBegin", "stopLock", "grace",
                "stopFailedLocked", "stopClear", "stopTail", "stopFailed",
                "restart"}
KillLabels  == {"kill", "killCancel", "killOperation", "killPhase", "killLock",
                "terminate", "killTail", "killClear"}
Labels == {"idle"} \cup StartLabels \cup StopLabels \cup KillLabels

MonitorLabels == {"off", "check", "observe", "exit", "error", "gaveUp"}
Results == {"none", "ok", "error", "exited", "cancelled"}

TypeOK ==
  /\ SupervisorTypeOK
  /\ ui \in [owned : BOOLEAN, operation : Operations, phase : Phases,
             readiness : Pids \cup {None}, confirm : BOOLEAN,
             generation : Pids \cup {None}]
  /\ cancelled \in BOOLEAN
  /\ supLock \in Workers \cup {None}
  /\ stateLock \in Workers \cup {None}
  /\ pc \in [Workers -> Labels]
  /\ seen \in [Workers -> Pids \cup {None}]
  /\ result \in [Workers -> Results]
  /\ restart \in [Workers -> BOOLEAN]
  /\ monitor \in [Pids -> MonitorLabels]
  /\ found \in [Pids -> Pids \cup {None}]
  /\ escaped \in SUBSET Pids
  /\ clicks \in 0..MaxClicks
  /\ crashes \in 0..MaxCrashes

\* ServerUiState::load: the port check of a fresh view can meet a listener
\* it does not own, and ownership is never claimed.
FreshUi(phase) ==
  [owned |-> FALSE, operation |-> "Idle", phase |-> phase,
   readiness |-> None, confirm |-> FALSE, generation |-> None]

Init ==
  /\ SupervisorInit
  /\ \E phase \in {"Stopped", "Unknown"} : ui = FreshUi(phase)
  /\ cancelled = FALSE
  /\ supLock = None
  /\ stateLock = None
  /\ pc = [w \in Workers |-> "idle"]
  /\ seen = [w \in Workers |-> None]
  /\ result = [w \in Workers |-> "none"]
  /\ restart = [w \in Workers |-> FALSE]
  /\ monitor = [p \in Pids |-> "off"]
  /\ found = [p \in Pids |-> None]
  /\ escaped = {}
  /\ clicks = 0
  /\ crashes = 0

-----------------------------------------------------------------------------
(* Steps of a worker                                                       *)

At(w, label)   == pc[w] = label
Goto(w, label) ==
  /\ pc' = [pc EXCEPT ![w] = label]
  /\ UNCHANGED <<seen, result, restart>>

\* the worker remembers a child, or the outcome of a call
GotoWith(w, label, p) ==
  /\ pc' = [pc EXCEPT ![w] = label]
  /\ seen' = [seen EXCEPT ![w] = p]
  /\ UNCHANGED <<result, restart>>
Becomes(w, label, outcome) ==
  /\ pc' = [pc EXCEPT ![w] = label]
  /\ result' = [result EXCEPT ![w] = outcome]
  /\ UNCHANGED <<seen, restart>>

\* the locals are gone when run_start is entered and when the thread ends
Enter(w, label) ==
  /\ pc' = [pc EXCEPT ![w] = label]
  /\ seen' = [seen EXCEPT ![w] = None]
  /\ result' = [result EXCEPT ![w] = "none"]
  /\ restart' = [restart EXCEPT ![w] = FALSE]
Finish(w) == Enter(w, "idle")

\* a read or a write of the signal
StateFree == stateLock = None
SupFree   == supLock = None

\* ServerLifecycleTracker::mark_exit with the evidence of child p
MarkExit(phase, p) ==
  IF \/ phase = "Stopping"
     \/ evidence[p] = "ForceKilled"
     \/ os[p] = "zero" /\ phase # "Ready"
  THEN "Stopped"
  ELSE "Crashed"

\* Mutant of fail_start: the operation is not reset.
FailStartStaysBusy == [ui EXCEPT !.phase = "Failed"]

\* fail_start
FailStartUi == [ui EXCEPT !.operation = "Idle", !.phase = "Failed"]

\* Mutant of stop_failed: the phase stays at Stopping.
StopFailedStays == [ui EXCEPT !.operation = "Idle", !.confirm = TRUE]

\* stop_failed: with earlier readiness evidence the phase goes back to Ready
StopFailedUi ==
  [ui EXCEPT !.operation = "Idle", !.confirm = TRUE,
             !.phase = IF ui.readiness # None THEN "Ready" ELSE "Failed"]

DisownedUi(p) ==
  [ui EXCEPT !.owned = FALSE, !.operation = "Idle",
             !.phase = MarkExit(ui.phase, p)]

-----------------------------------------------------------------------------
(* Clicks.  The view disables a button by the state it last rendered; the  *)
(* worker looks at the state again, later.                                 *)

ButtonEnabled(button) ==
  CASE button = "START"      -> ~ui.owned /\ ui.operation = "Idle"
    [] button = "STOP"       -> ui.owned /\ ui.operation # "Stopping"
    [] button = "RESTART"    -> ui.owned /\ ui.operation = "Idle"
    [] button = "FORCE KILL" -> ui.owned /\ ui.confirm

FirstLabel(button) ==
  CASE button = "START" -> "start"
    [] button \in {"STOP", "RESTART"} -> "stop"
    [] button = "FORCE KILL" -> "kill"

Click(w, button) ==
  /\ button = "FORCE KILL" => StateFree
  /\ At(w, "idle")
  /\ ButtonEnabled(button)
  /\ clicks < MaxClicks
  /\ clicks' = clicks + 1
  /\ pc' = [pc EXCEPT ![w] = FirstLabel(button)]
  /\ restart' = [restart EXCEPT ![w] = button = "RESTART"]
  /\ UNCHANGED <<supervisorVars, ui, cancelled, lockVars, seen, result,
                 monitorVars, escaped, crashes>>

\* The first press of FORCE KILL only asks for a confirmation.
ArmForceKill ==
  /\ StateFree
  /\ "FORCE KILL" \in Buttons
  /\ ui.owned /\ ~ui.confirm
  /\ ui' = [ui EXCEPT !.confirm = TRUE]
  /\ UNCHANGED <<supervisorVars, cancelled, lockVars, threadVars, otherVars>>

-----------------------------------------------------------------------------
(* run_start                                                               *)

StartCheck(w) ==
  /\ At(w, "start")
  /\ StateFree
  /\ IF ui.owned \/ ui.operation # "Idle"
     THEN Finish(w) ELSE Goto(w, "begin")
  /\ UNCHANGED <<supervisorVars, ui, cancelled, lockVars, otherVars>>

\* The write of the start, then the checks that touch nothing shared:
\* prepare_launch, require_port_available and the log file.
StartBegin(w) ==
  /\ At(w, "begin")
  /\ StateFree
  /\ ui' = [ui EXCEPT !.operation = "Starting", !.confirm = FALSE,
                      !.readiness = None]
  /\ cancelled' = FALSE
  /\ \E label \in {"spawn", "failStart"} : Goto(w, label)
  /\ UNCHANGED <<supervisorVars, lockVars, otherVars>>

FailStart(w) ==
  /\ At(w, "failStart")
  /\ StateFree
  /\ ui' = FailStartUi
  /\ Finish(w)
  /\ UNCHANGED <<supervisorVars, cancelled, lockVars, otherVars>>

\* start_server_with_log_capture, up to the spawn.  The error arms of the
\* match call fail_start before the guard of the mutex is dropped.
StartSpawn(w) ==
  /\ At(w, "spawn")
  /\ SupFree
  /\ supLock' = w
  /\ \/ \E p \in Pids : /\ SpawnChild(p)
                        /\ GotoWith(w, "attach", p)
     \/ /\ SpawnFails \/ SpawnRefused
        /\ Goto(w, "failStartLocked")
  /\ UNCHANGED <<ui, cancelled, stateLock, otherVars>>

StartAttach(w) ==
  /\ At(w, "attach")
  /\ \/ /\ AttachJob(seen[w])
        /\ supLock' = None
        /\ Goto(w, "adopt")
     \/ /\ AttachFails(seen[w])
        /\ Goto(w, "failStartLocked")
        /\ UNCHANGED supLock
  /\ UNCHANGED <<ui, cancelled, stateLock, otherVars>>

FailStartLocked(w) ==
  /\ At(w, "failStartLocked")
  /\ StateFree
  /\ ui' = FailStartUi
  /\ supLock' = None
  /\ Finish(w)
  /\ UNCHANGED <<supervisorVars, cancelled, stateLock, otherVars>>

\* The write that claims ownership; the monitor thread is spawned with it.
StartAdopt(w) ==
  /\ At(w, "adopt")
  /\ StateFree
  /\ ui' = [ui EXCEPT !.generation = seen[w], !.owned = TRUE,
                      !.phase = "Starting"]
  /\ monitor' = [monitor EXCEPT ![seen[w]] = "check"]
  /\ Goto(w, "await")
  /\ UNCHANGED <<supervisorVars, cancelled, lockVars, found, boundVars>>

\* The mutex is taken again, for the whole of wait_for_server_ready, and
\* whatever process the supervisor holds by now is waited for.  An endpoint
\* that cannot be resolved ends the wait before its first look at anything.
StartAwait(w) ==
  /\ At(w, "await")
  /\ SupFree
  /\ \/ current = None /\ supLock' = w /\ Goto(w, "failStartLocked")
     \/ current # None /\ supLock' = w /\ GotoWith(w, "poll", current)
     \/ current # None /\ Becomes(w, "tail", "error") /\ UNCHANGED supLock
  /\ UNCHANGED <<supervisorVars, ui, cancelled, stateLock, otherVars>>

\* wait_for_ready: cancellation is looked at before the exit of the process,
\* the exit before the deadline.  The end of a poll releases the mutex.
PollCancelled(w) ==
  /\ At(w, "poll")
  /\ cancelled
  /\ Becomes(w, "tail", "cancelled")
  /\ supLock' = None
  /\ UNCHANGED <<supervisorVars, ui, cancelled, stateLock, otherVars>>

PollExited(w) ==
  /\ At(w, "poll")
  /\ ~cancelled
  /\ Exited(current)
  /\ evidence' = Observed(current)
  /\ Becomes(w, "tail", "exited")
  /\ supLock' = None
  /\ UNCHANGED <<os, current, ui, cancelled, stateLock, otherVars>>

PollProbe(w) ==
  /\ At(w, "poll")
  /\ ~cancelled
  /\ Running(current)
  /\ Goto(w, "probe")
  /\ UNCHANGED <<supervisorVars, ui, cancelled, lockVars, otherVars>>

\* Mutant: the readiness poll has no deadline.
PollForever(w) == FALSE

\* the deadline has passed, or the process state cannot be read
PollTimeout(w) ==
  /\ At(w, "poll")
  /\ ~cancelled
  /\ Running(current) \/ ~ExitCached
  /\ Becomes(w, "tail", "error")
  /\ supLock' = None
  /\ UNCHANGED <<supervisorVars, ui, cancelled, stateLock, otherVars>>

\* Health and inference answered by the process: success is returned without
\* another look at the cancellation flag.
ProbeAnswered(w) ==
  /\ At(w, "probe")
  /\ Running(current)
  /\ Becomes(w, "tail", "ok")
  /\ supLock' = None
  /\ UNCHANGED <<supervisorVars, ui, cancelled, stateLock, otherVars>>

ProbeRejected(w) ==
  /\ At(w, "probe")
  /\ Becomes(w, "tail", "error")
  /\ supLock' = None
  /\ UNCHANGED <<supervisorVars, ui, cancelled, stateLock, otherVars>>

ProbeRetry(w) ==
  /\ At(w, "probe")
  /\ Goto(w, "poll")
  /\ UNCHANGED <<supervisorVars, ui, cancelled, lockVars, otherVars>>

\* What run_start writes after the wait, whatever happened meanwhile.
TailUi(w) ==
  LET settled == IF ui.operation = "Stopping" THEN ui
                 ELSE [ui EXCEPT !.operation = "Idle"]
  IN  CASE result[w] = "ok" ->
             [settled EXCEPT !.phase = "Ready", !.readiness = seen[w]]
        [] result[w] = "exited" ->
             [settled EXCEPT !.owned = FALSE,
                             !.phase = MarkExit(ui.phase, seen[w])]
        [] result[w] = "cancelled" -> settled
        [] OTHER -> [settled EXCEPT !.phase = "Failed"]

StartTail(w) ==
  /\ At(w, "tail")
  /\ StateFree
  /\ ui' = TailUi(w)
  /\ Finish(w)
  /\ UNCHANGED <<supervisorVars, cancelled, lockVars, otherVars>>

-----------------------------------------------------------------------------
(* run_graceful_stop, for STOP and RESTART                                 *)

StopCheck(w) ==
  /\ At(w, "stop")
  /\ StateFree
  /\ IF ~ui.owned \/ ui.operation = "Stopping"
     THEN Finish(w) ELSE Goto(w, "stopCancel")
  /\ UNCHANGED <<supervisorVars, ui, cancelled, lockVars, otherVars>>

StopCancel(w) ==
  /\ At(w, "stopCancel")
  /\ cancelled' = TRUE
  /\ Goto(w, "stopBegin")
  /\ UNCHANGED <<supervisorVars, ui, lockVars, otherVars>>

StopBegin(w) ==
  /\ At(w, "stopBegin")
  /\ StateFree
  /\ ui' = [ui EXCEPT !.operation = "Stopping", !.confirm = FALSE,
                      !.phase = "Stopping"]
  /\ Goto(w, "stopLock")
  /\ UNCHANGED <<supervisorVars, cancelled, lockVars, otherVars>>

\* NotRunning keeps the mutex until stop_failed has written; a Ctrl+C that
\* cannot be sent (a dead process has no console) releases it.
StopLock(w) ==
  /\ At(w, "stopLock")
  /\ SupFree
  /\ \/ /\ current = None
        /\ supLock' = w
        /\ Goto(w, "stopFailedLocked")
     \/ /\ current # None
        /\ Goto(w, "stopFailed")
        /\ UNCHANGED supLock
     \/ /\ SlotRunning
        /\ supLock' = w
        /\ Goto(w, "grace")
  /\ UNCHANGED <<supervisorVars, ui, cancelled, stateLock, otherVars>>

\* wait_for_cooperative_exit polls under the mutex, for five seconds.
GraceExited(w) ==
  /\ At(w, "grace")
  /\ Exited(current)
  /\ evidence' = Observed(current)
  /\ supLock' = None
  /\ GotoWith(w, "stopClear", current)
  /\ UNCHANGED <<os, current, ui, cancelled, stateLock, otherVars>>

GraceExpired(w) ==
  /\ At(w, "grace")
  /\ Running(current) \/ ~ExitCached
  /\ supLock' = None
  /\ Goto(w, "stopFailed")
  /\ UNCHANGED <<supervisorVars, ui, cancelled, stateLock, otherVars>>

StopFailed(w) ==
  /\ At(w, "stopFailed")
  /\ StateFree
  /\ ui' = StopFailedUi
  /\ Finish(w)
  /\ UNCHANGED <<supervisorVars, cancelled, lockVars, otherVars>>

StopFailedLocked(w) ==
  /\ At(w, "stopFailedLocked")
  /\ StateFree
  /\ ui' = StopFailedUi
  /\ supLock' = None
  /\ Finish(w)
  /\ UNCHANGED <<supervisorVars, cancelled, stateLock, otherVars>>

StopClear(w) ==
  /\ At(w, "stopClear")
  /\ SupFree
  /\ ClearExited
  /\ Goto(w, "stopTail")
  /\ UNCHANGED <<ui, cancelled, lockVars, otherVars>>

StopTail(w) ==
  /\ At(w, "stopTail")
  /\ StateFree
  /\ ui' = [DisownedUi(seen[w]) EXCEPT !.confirm = FALSE]
  /\ IF restart[w] THEN Goto(w, "restart") ELSE Finish(w)
  /\ UNCHANGED <<supervisorVars, cancelled, lockVars, otherVars>>

\* RESTART goes on with run_start in the same thread.
Restart(w) ==
  /\ At(w, "restart")
  /\ StateFree
  /\ cancelled' = FALSE
  /\ Enter(w, "start")
  /\ UNCHANGED <<supervisorVars, ui, lockVars, otherVars>>

-----------------------------------------------------------------------------
(* run_force_kill                                                          *)

KillCheck(w) ==
  /\ At(w, "kill")
  /\ StateFree
  /\ IF ui.owned THEN Goto(w, "killCancel") ELSE Finish(w)
  /\ UNCHANGED <<supervisorVars, ui, cancelled, lockVars, otherVars>>

KillCancel(w) ==
  /\ At(w, "killCancel")
  /\ cancelled' = TRUE
  /\ Goto(w, "killOperation")
  /\ UNCHANGED <<supervisorVars, ui, lockVars, otherVars>>

\* the operation and the phase are two separate writes
KillOperation(w) ==
  /\ At(w, "killOperation")
  /\ StateFree
  /\ ui' = [ui EXCEPT !.operation = "Stopping"]
  /\ Goto(w, "killPhase")
  /\ UNCHANGED <<supervisorVars, cancelled, lockVars, otherVars>>

KillPhase(w) ==
  /\ At(w, "killPhase")
  /\ StateFree
  /\ ui' = [ui EXCEPT !.phase = "Stopping"]
  /\ Goto(w, "killLock")
  /\ UNCHANGED <<supervisorVars, cancelled, lockVars, otherVars>>

\* force_kill returns evidence it already has before it kills anything.
KillLock(w) ==
  /\ At(w, "killLock")
  /\ SupFree
  /\ \/ /\ ~ExitCached
        /\ Becomes(w, "killTail", "error")
        /\ UNCHANGED <<supervisorVars, supLock>>
     \/ /\ current # None /\ Exited(current)
        /\ evidence' = Observed(current)
        /\ pc' = [pc EXCEPT ![w] = "killTail"]
        /\ seen' = [seen EXCEPT ![w] = current]
        /\ result' = [result EXCEPT ![w] = "ok"]
        /\ UNCHANGED <<os, current, supLock, restart>>
     \/ /\ SlotRunning
        /\ supLock' = w
        /\ GotoWith(w, "terminate", current)
        /\ UNCHANGED supervisorVars
  /\ UNCHANGED <<ui, cancelled, stateLock, otherVars>>

KillTerminate(w) ==
  /\ At(w, "terminate")
  /\ supLock' = None
  /\ \/ Terminate /\ Becomes(w, "killTail", "ok")
     \/ UNCHANGED supervisorVars /\ Becomes(w, "killTail", "error")
  /\ UNCHANGED <<ui, cancelled, stateLock, otherVars>>

\* From here the write guard of the signal is kept until the end.
KillTail(w) ==
  /\ At(w, "killTail")
  /\ StateFree
  /\ ui' = [ui EXCEPT !.operation = "Idle", !.confirm = FALSE]
  /\ IF result[w] = "ok"
     THEN /\ stateLock' = w
          /\ Goto(w, "killClear")
     ELSE /\ Finish(w)
          /\ UNCHANGED stateLock
  /\ UNCHANGED <<supervisorVars, cancelled, supLock, otherVars>>

\* clear_exited needs the mutex while the signal is locked.
KillClear(w) ==
  /\ At(w, "killClear")
  /\ SupFree
  /\ ClearExited
  /\ ui' = [ui EXCEPT !.owned = FALSE, !.phase = MarkExit(@, seen[w])]
  /\ stateLock' = None
  /\ Finish(w)
  /\ UNCHANGED <<cancelled, supLock, otherVars>>

-----------------------------------------------------------------------------
(* spawn_process_monitor, the thread that watches generation g             *)

MonitorMoves(g, from, to) ==
  /\ monitor[g] = from
  /\ monitor' = [monitor EXCEPT ![g] = to]
  /\ UNCHANGED <<cancelled, lockVars, threadVars, boundVars>>

\* Mutant: a monitor gives up while an operation is going on.
MonitorQuitsWhenBusy(g) ==
  /\ StateFree
  /\ MonitorMoves(g, "check",
                  IF ui.owned /\ ui.operation = "Idle" /\ ui.generation = g
                  THEN "observe" ELSE "off")
  /\ UNCHANGED <<supervisorVars, ui, found>>

MonitorCheck(g) ==
  /\ StateFree
  /\ MonitorMoves(g, "check",
                  IF ui.owned /\ ui.generation = g THEN "observe" ELSE "off")
  /\ UNCHANGED <<supervisorVars, ui, found>>

\* ServerProcessSupervisor::state, once the mutex can be had
MonitorObserve(g) ==
  /\ SupFree
  /\ \/ /\ current = None
        /\ MonitorMoves(g, "observe", "off")
        /\ UNCHANGED <<evidence, found>>
     \/ /\ SlotRunning
        /\ MonitorMoves(g, "observe", "check")
        /\ UNCHANGED <<evidence, found>>
     \/ /\ current # None /\ Exited(current)
        /\ MonitorMoves(g, "observe", "exit")
        /\ evidence' = Observed(current)
        /\ found' = [found EXCEPT ![g] = current]
     \/ /\ current # None /\ ~ExitCached
        /\ MonitorMoves(g, "observe", "error")
        /\ UNCHANGED <<evidence, found>>
  /\ UNCHANGED <<os, current, ui>>

\* The exit is written without another look at the generation.
MonitorExit(g) ==
  /\ StateFree
  /\ MonitorMoves(g, "exit", "off")
  /\ ui' = DisownedUi(found[g])
  /\ found' = [found EXCEPT ![g] = None]
  /\ UNCHANGED supervisorVars

\* An inspection error ends the monitor, and ownership stays claimed.
MonitorError(g) ==
  /\ StateFree
  /\ MonitorMoves(g, "error", "gaveUp")
  /\ ui' = [ui EXCEPT !.operation = "Idle", !.phase = "Failed"]
  /\ UNCHANGED <<supervisorVars, found>>

-----------------------------------------------------------------------------
(* The environment                                                         *)

ServerExits(p) ==
  /\ ProcessExit(p)
  /\ UNCHANGED <<ui, cancelled, lockVars, threadVars, otherVars>>

\* The application dies with all its threads and is started again.  The Job
\* Object kills the supervised child; a child that was spawned but not yet
\* assigned to its Job Object lives on.
ApplicationDies ==
  /\ crashes < MaxCrashes /\ clicks < MaxClicks
  /\ crashes' = crashes + 1 /\ clicks' = clicks + 1
  /\ SupervisorDies
  /\ escaped' = {p \in Pids : Running(p) /\ p # current}
  /\ \E phase \in {"Stopped", "Unknown"} : ui' = FreshUi(phase)
  /\ cancelled' = FALSE
  /\ supLock' = None
  /\ stateLock' = None
  /\ pc' = [w \in Workers |-> "idle"]
  /\ seen' = [w \in Workers |-> None]
  /\ result' = [w \in Workers |-> "none"]
  /\ restart' = [w \in Workers |-> FALSE]
  /\ monitor' = [p \in Pids |-> "off"]
  /\ found' = [p \in Pids |-> None]

-----------------------------------------------------------------------------
StartStep(w) ==
  \/ StartCheck(w) \/ StartBegin(w) \/ FailStart(w) \/ StartSpawn(w)
  \/ StartAttach(w) \/ FailStartLocked(w) \/ StartAdopt(w) \/ StartAwait(w)
  \/ PollCancelled(w) \/ PollExited(w) \/ PollProbe(w) \/ PollTimeout(w)
  \/ ProbeAnswered(w) \/ ProbeRejected(w) \/ ProbeRetry(w) \/ StartTail(w)

StopStep(w) ==
  \/ StopCheck(w) \/ StopCancel(w) \/ StopBegin(w) \/ StopLock(w)
  \/ GraceExited(w) \/ GraceExpired(w) \/ StopFailed(w)
  \/ StopFailedLocked(w) \/ StopClear(w) \/ StopTail(w) \/ Restart(w)

KillStep(w) ==
  \/ KillCheck(w) \/ KillCancel(w) \/ KillOperation(w) \/ KillPhase(w)
  \/ KillLock(w) \/ KillTerminate(w) \/ KillTail(w) \/ KillClear(w)

WorkerStep(w) == StartStep(w) \/ StopStep(w) \/ KillStep(w)

MonitorStep(g) ==
  \/ MonitorCheck(g) \/ MonitorObserve(g) \/ MonitorExit(g) \/ MonitorError(g)

Next ==
  \/ \E w \in Workers : WorkerStep(w) \/ \E b \in Buttons : Click(w, b)
  \/ \E g \in Pids : MonitorStep(g) \/ ServerExits(g)
  \/ ArmForceKill
  \/ ApplicationDies

Spec == Init /\ [][Next]_vars

(***************************************************************************)
(* Threads run whenever they can.  A poll loop meets its deadline: the     *)
(* clock goes on while it keeps coming back to its check.  Neither the     *)
(* user nor the server process owes a step.                                *)
(***************************************************************************)
Fairness ==
  /\ \A w \in Workers : /\ WF_vars(WorkerStep(w))
                        /\ SF_vars(PollTimeout(w))
  /\ \A g \in Pids : WF_vars(MonitorStep(g))

FairSpec == Spec /\ Fairness

-----------------------------------------------------------------------------
(* Invariants                                                              *)

\* where a worker holds the supervisor's mutex
SupLabels  == {"attach", "failStartLocked", "poll", "probe", "grace",
               "stopFailedLocked", "terminate"}

\* The workers that still owe the write that ends the operation they began.
StartsInFlight == {w \in Workers : pc[w] \in StartLabels \ {"start", "begin"}}
StopsInFlight  ==
  {w \in Workers : pc[w] \in {"stopLock", "grace", "stopFailedLocked",
                              "stopClear", "stopTail", "stopFailed",
                              "killPhase", "killLock", "terminate",
                              "killTail"}}

(***************************************************************************)
(* The view is busy only while a worker will end it: no interleaving of    *)
(* starts, stops, kills and monitor writes leaves the buttons disabled     *)
(* for an operation nobody is working on.                                  *)
(***************************************************************************)
BusyIsWorked ==
  /\ ui.operation = "Starting" => StartsInFlight # {}
  /\ ui.operation = "Stopping" => StopsInFlight # {}

(***************************************************************************)
(* A running llama-server is the one the supervisor holds, or the one a    *)
(* start is just putting into its Job Object under the mutex, or a child   *)
(* an earlier death of the application left behind: however operations     *)
(* overlap, no child is forgotten and no second one is started.            *)
(***************************************************************************)
LiveIsSupervised ==
  \A p \in Pids : Running(p) =>
    \/ p \in escaped
    \/ p = current
    \/ \E w \in Workers : pc[w] = "attach" /\ seen[w] = p

(***************************************************************************)
(* Why it holds: the mutex is held exactly where the code keeps its guard; *)
(* between spawn and assignment the slot is empty and the child is the     *)
(* starter's alone; and no escaped child ever enters the slot again.       *)
(***************************************************************************)
MutexIsHeld == \A w \in Workers : pc[w] \in SupLabels => supLock = w

AttachingIsExclusive ==
  \A w \in Workers : pc[w] = "attach" =>
    /\ current = None
    /\ seen[w] \in Pids \ escaped
    /\ os[seen[w]] # "unborn"

SlotHoldsOwnChild ==
  current # None => current \notin escaped /\ os[current] # "unborn"

SupervisionInv ==
  /\ LiveIsSupervised
  /\ MutexIsHeld
  /\ AttachingIsExclusive
  /\ SlotHoldsOwnChild
  /\ \A w \in Workers : pc[w] = "terminate" => current # None
  /\ \A p \in escaped : os[p] # "unborn"

(***************************************************************************)
(* While the view claims a server and nobody is starting one, either the   *)
(* monitor of that generation is on, or an inspection error ended it, or   *)
(* the supervisor's slot was already emptied.                              *)
(***************************************************************************)
OwnedIsWatched ==
  ui.owned /\ current # None /\ StartsInFlight = {} =>
    monitor[ui.generation] # "off"

(***************************************************************************)
(* Exit evidence is final: a natural exit is never rewritten into a forced *)
(* one, or the reverse, by whoever looks at the process next.              *)
(***************************************************************************)
EvidenceIsFinal ==
  [][\A p \in Pids : evidence[p] # "none" => evidence'[p] = evidence[p]]_vars

\* ServerSlot with the children of this session that are alive.
Slot == INSTANCE ServerSlot WITH
  slot <- current,
  live <- {p \in Pids : Running(p)} \ escaped,
  used <- {p \in Pids : os[p] # "unborn"}

(***************************************************************************)
(* The threads, locks and operations together keep the supervisor's        *)
(* promise: one child at a time, released only when it is dead.            *)
(***************************************************************************)
ImplementsSlot == Slot!Spec

-----------------------------------------------------------------------------
(* Liveness                                                                *)

(***************************************************************************)
(* Every operation a click started ends: no thread waits for ever for the  *)
(* mutex, for readiness or for the end of the grace period.                *)
(***************************************************************************)
EveryOperationEnds ==
  \A w \in Workers : pc[w] # "idle" ~> pc[w] = "idle"

(***************************************************************************)
(* A requested stop is resolved: the view does not stay at Stopping.       *)
(***************************************************************************)
StoppingEnds == ui.phase = "Stopping" ~> ui.phase # "Stopping"

-----------------------------------------------------------------------------
(* What the repository's documents say of the view                         *)

NobodyWorks ==
  /\ \A w \in Workers : pc[w] = "idle"
  /\ \A g \in Pids : monitor[g] \in {"off", "check", "gaveUp"}

(***************************************************************************)
(* "stale": the readiness evidence beside Ready is of the generation the   *)
(* view owns, and not of a server that is gone.  A known deviation when    *)
(* two operations overlap: what a wait of thirty seconds returns is written*)
(* over the state of a later start (run_start).                            *)
(***************************************************************************)
ReadyIsCurrent ==
  ui.phase = "Ready" /\ ui.owned => ui.readiness \in {None, ui.generation}

(***************************************************************************)
(* A stop that ended in a cooperative exit is shown as a stop and never as *)
(* a crash.  A known deviation: run_graceful_stop marks the exit again.    *)
(***************************************************************************)
StopIsNotCrash ==
  [][\A w \in Workers : At(w, "stopTail") /\ pc'[w] # "stopTail"
                           => ui'.phase # "Crashed"]_vars

(***************************************************************************)
(* Controls are not dead, first half: once every thread has come to rest,  *)
(* a running managed server is owned, so that it can be stopped.  A known  *)
(* deviation: a monitor's late write disowns it (spawn_process_monitor).   *)
(***************************************************************************)
LiveServerIsOwned == NobodyWorks /\ SlotRunning => ui.owned

(***************************************************************************)
(* Controls are not dead, second half: once every thread has come to rest, *)
(* ownership is of a process, so that STOP has something to stop and START *)
(* comes back.  A known deviation when two operations overlap: a start     *)
(* adopts a process that a kill has cleared (run_start, run_force_kill).   *)
(***************************************************************************)
OwnedHasProcess == NobodyWorks /\ ui.owned => current # None

(***************************************************************************)
(* No thread that holds the signal waits for the mutex while the holder of *)
(* the mutex waits for the signal.                                         *)
(***************************************************************************)
NoLockCycle ==
  ~ \E w1, w2 \in Workers :
      /\ stateLock = w1 /\ pc[w1] = "killClear"
      /\ supLock = w2 /\ pc[w2] \in {"failStartLocked", "stopFailedLocked"}
=============================================================================
