----------------------- MODULE ServerLifecycleProofs -----------------------
(* Theorems about ServerLifecycle, for any number of threads and children. *)
EXTENDS ServerLifecycle, TLAPS

(* The values the steps assign, so that the sets themselves stay folded.   *)
LEMMA LabelValues ==
  /\ "idle" \in Labels
  /\ "start" \in Labels
  /\ "begin" \in Labels
  /\ "failStart" \in Labels
  /\ "spawn" \in Labels
  /\ "attach" \in Labels
  /\ "failStartLocked" \in Labels
  /\ "adopt" \in Labels
  /\ "await" \in Labels
  /\ "poll" \in Labels
  /\ "probe" \in Labels
  /\ "tail" \in Labels
  /\ "stop" \in Labels
  /\ "stopCancel" \in Labels
  /\ "stopBegin" \in Labels
  /\ "stopLock" \in Labels
  /\ "grace" \in Labels
  /\ "stopFailedLocked" \in Labels
  /\ "stopClear" \in Labels
  /\ "stopTail" \in Labels
  /\ "stopFailed" \in Labels
  /\ "restart" \in Labels
  /\ "kill" \in Labels
  /\ "killCancel" \in Labels
  /\ "killOperation" \in Labels
  /\ "killPhase" \in Labels
  /\ "killLock" \in Labels
  /\ "terminate" \in Labels
  /\ "killTail" \in Labels
  /\ "killClear" \in Labels
  BY DEF Labels, StartLabels, StopLabels, KillLabels

LEMMA UiValues ==
  /\ "Idle" \in Operations
  /\ "Starting" \in Operations
  /\ "Stopping" \in Operations
  /\ "Stopped" \in Phases
  /\ "Starting" \in Phases
  /\ "Ready" \in Phases
  /\ "Stopping" \in Phases
  /\ "Failed" \in Phases
  /\ "Crashed" \in Phases
  /\ "Unknown" \in Phases
  BY DEF Operations, Phases

LEMMA OtherValues ==
  /\ "none" \in Results
  /\ "ok" \in Results
  /\ "error" \in Results
  /\ "exited" \in Results
  /\ "cancelled" \in Results
  /\ "off" \in MonitorLabels
  /\ "check" \in MonitorLabels
  /\ "observe" \in MonitorLabels
  /\ "exit" \in MonitorLabels
  /\ "error" \in MonitorLabels
  /\ "gaveUp" \in MonitorLabels
  /\ "unborn" \in OsStates
  /\ "running" \in OsStates
  /\ "zero" \in OsStates
  /\ "nonzero" \in OsStates
  /\ "Natural" \in ExitKinds
  /\ "ForceKilled" \in ExitKinds
  BY DEF Results, MonitorLabels, OsStates, ExitKinds

\* the type of ui, named for the steps below
UiType == [owned : BOOLEAN, operation : Operations, phase : Phases,
           readiness : Pids \cup {None}, confirm : BOOLEAN,
           generation : Pids \cup {None}]

LEMMA FreshUiType ==
  ASSUME NEW phase \in {"Stopped", "Unknown"} PROVE FreshUi(phase) \in UiType
  BY UiValues DEF FreshUi, UiType

LEMMA InitTypeOK == Init => TypeOK
<1> SUFFICES ASSUME Init PROVE TypeOK
  OBVIOUS
<1>1. ui \in UiType
  BY FreshUiType DEF Init
<1>2. SupervisorTypeOK
  BY OtherValues DEF Init, SupervisorInit, SupervisorTypeOK
<1>3. clicks \in 0..MaxClicks /\ crashes \in 0..MaxCrashes
  BY LifecycleAssumption DEF Init, LifecycleAssumption
<1>4. /\ pc \in [Workers -> Labels]
      /\ result \in [Workers -> Results]
      /\ seen \in [Workers -> Pids \cup {None}]
      /\ restart \in [Workers -> BOOLEAN]
  BY LabelValues, OtherValues DEF Init
<1>5. /\ monitor \in [Pids -> MonitorLabels]
      /\ found \in [Pids -> Pids \cup {None}]
  BY OtherValues DEF Init
<1> QED
  BY <1>1, <1>2, <1>3, <1>4, <1>5 DEF Init, TypeOK, UiType

USE DEF Goto, GotoWith, Becomes, Enter, Finish, At, StateFree, SupFree,
        supervisorVars, lockVars, threadVars, monitorVars, otherVars

\* The helpers of the steps keep the types of what they assign.
LEMMA GotoType ==
  ASSUME TypeOK, NEW w \in Workers, NEW label \in Labels, Goto(w, label)
  PROVE  /\ pc' \in [Workers -> Labels]
         /\ seen' \in [Workers -> Pids \cup {None}]
         /\ result' \in [Workers -> Results]
         /\ restart' \in [Workers -> BOOLEAN]
  BY DEF TypeOK

LEMMA EnterType ==
  ASSUME TypeOK, NEW w \in Workers, NEW label \in Labels, Enter(w, label)
  PROVE  /\ pc' \in [Workers -> Labels]
         /\ seen' \in [Workers -> Pids \cup {None}]
         /\ result' \in [Workers -> Results]
         /\ restart' \in [Workers -> BOOLEAN]
  BY OtherValues DEF TypeOK

LEMMA MarkExitType ==
  ASSUME NEW phase, NEW p PROVE MarkExit(phase, p) \in Phases
  BY UiValues DEF MarkExit

LEMMA DisownedUiType ==
  ASSUME TypeOK, NEW p PROVE DisownedUi(p) \in UiType
  BY UiValues, MarkExitType DEF TypeOK, DisownedUi, UiType

LEMMA StartTypeOK ==
  ASSUME TypeOK, NEW w \in Workers, StartStep(w)
  PROVE  TypeOK'
<1> USE LabelValues, UiValues, OtherValues DEF TypeOK, SupervisorTypeOK
<1>1. CASE StartCheck(w)
  <2>1. /\ pc' \in [Workers -> Labels]
        /\ seen' \in [Workers -> Pids \cup {None}]
        /\ result' \in [Workers -> Results]
        /\ restart' \in [Workers -> BOOLEAN]
    BY <1>1, EnterType, GotoType DEF StartCheck
  <2> QED
    BY <1>1, <2>1 DEF StartCheck
<1>2. CASE StartBegin(w)
  <2>1. ui' \in UiType
    BY <1>2 DEF StartBegin, UiType
  <2>2. /\ pc' \in [Workers -> Labels]
        /\ UNCHANGED <<seen, result, restart>>
    BY <1>2 DEF StartBegin
  <2>3. cancelled' \in BOOLEAN
    BY <1>2 DEF StartBegin
  <2> QED
    BY <1>2, <2>1, <2>2, <2>3 DEF StartBegin, UiType
<1>3. CASE FailStart(w) BY <1>3 DEF FailStart, FailStartUi
<1>4. CASE StartSpawn(w) BY <1>4 DEF StartSpawn, SpawnChild, SpawnFails, SpawnRefused
<1>5. CASE StartAttach(w) BY <1>5 DEF StartAttach, AttachJob, AttachFails
<1>6. CASE FailStartLocked(w) BY <1>6 DEF FailStartLocked, FailStartUi
<1>7. CASE StartAdopt(w)
  <2>1. ui' \in UiType
    BY <1>7 DEF StartAdopt, UiType
  <2>2. monitor' \in [Pids -> MonitorLabels]
    BY <1>7 DEF StartAdopt
  <2>3. /\ pc' \in [Workers -> Labels]
        /\ UNCHANGED <<seen, result, restart>>
    BY <1>7 DEF StartAdopt
  <2> QED
    BY <1>7, <2>1, <2>2, <2>3 DEF StartAdopt, UiType, boundVars
<1>8. CASE StartAwait(w) BY <1>8 DEF StartAwait
<1>9. CASE PollCancelled(w) BY <1>9 DEF PollCancelled
<1>10. CASE PollExited(w) BY <1>10 DEF PollExited, Observed
<1>11. CASE PollProbe(w) BY <1>11 DEF PollProbe
<1>12. CASE PollTimeout(w) BY <1>12 DEF PollTimeout
<1>13. CASE ProbeAnswered(w) BY <1>13 DEF ProbeAnswered
<1>14. CASE ProbeRejected(w) BY <1>14 DEF ProbeRejected
<1>15. CASE ProbeRetry(w) BY <1>15 DEF ProbeRetry
<1>16. CASE StartTail(w) BY <1>16 DEF StartTail, TailUi, MarkExit
<1> QED
  BY <1>1, <1>2, <1>3, <1>4, <1>5, <1>6, <1>7, <1>8, <1>9, <1>10, <1>11,
  <1>12, <1>13, <1>14, <1>15, <1>16 DEF StartStep

LEMMA StopTypeOK ==
  ASSUME TypeOK, NEW w \in Workers, StopStep(w)
  PROVE  TypeOK'
<1> USE LabelValues, UiValues, OtherValues DEF TypeOK, SupervisorTypeOK
<1>1. CASE StopCheck(w)
  <2>1. /\ pc' \in [Workers -> Labels]
        /\ seen' \in [Workers -> Pids \cup {None}]
        /\ result' \in [Workers -> Results]
        /\ restart' \in [Workers -> BOOLEAN]
    BY <1>1, EnterType, GotoType DEF StopCheck
  <2> QED
    BY <1>1, <2>1 DEF StopCheck
<1>2. CASE StopCancel(w) BY <1>2 DEF StopCancel
<1>3. CASE StopBegin(w) BY <1>3 DEF StopBegin
<1>4. CASE StopLock(w) BY <1>4 DEF StopLock
<1>5. CASE GraceExited(w) BY <1>5 DEF GraceExited, Observed
<1>6. CASE GraceExpired(w) BY <1>6 DEF GraceExpired
<1>7. CASE StopFailed(w) BY <1>7 DEF StopFailed, StopFailedUi
<1>8. CASE StopFailedLocked(w) BY <1>8 DEF StopFailedLocked, StopFailedUi
<1>9. CASE StopClear(w) BY <1>9 DEF StopClear, ClearExited
<1>10. CASE StopTail(w)
  <2>1. /\ pc' \in [Workers -> Labels]
        /\ seen' \in [Workers -> Pids \cup {None}]
        /\ result' \in [Workers -> Results]
        /\ restart' \in [Workers -> BOOLEAN]
    BY <1>10, EnterType, GotoType DEF StopTail
  <2>2. ui' \in UiType
    <3>1. DisownedUi(seen[w]) \in UiType
      BY DisownedUiType
    <3> QED
      BY <1>10, <3>1 DEF StopTail, UiType
  <2> QED
    BY <1>10, <2>1, <2>2 DEF StopTail, UiType
<1>11. CASE Restart(w) BY <1>11 DEF Restart
<1> QED
  BY <1>1, <1>2, <1>3, <1>4, <1>5, <1>6, <1>7, <1>8, <1>9, <1>10, <1>11
  DEF StopStep

LEMMA KillTypeOK ==
  ASSUME TypeOK, NEW w \in Workers, KillStep(w)
  PROVE  TypeOK'
<1> USE LabelValues, UiValues, OtherValues DEF TypeOK, SupervisorTypeOK
<1>1. CASE KillCheck(w)
  <2>1. /\ pc' \in [Workers -> Labels]
        /\ seen' \in [Workers -> Pids \cup {None}]
        /\ result' \in [Workers -> Results]
        /\ restart' \in [Workers -> BOOLEAN]
    BY <1>1, EnterType, GotoType DEF KillCheck
  <2> QED
    BY <1>1, <2>1 DEF KillCheck
<1>2. CASE KillCancel(w) BY <1>2 DEF KillCancel
<1>3. CASE KillOperation(w) BY <1>3 DEF KillOperation
<1>4. CASE KillPhase(w) BY <1>4 DEF KillPhase
<1>5. CASE KillLock(w) BY <1>5 DEF KillLock, Observed
<1>6. CASE KillTerminate(w) BY <1>6 DEF KillTerminate, Terminate
<1>7. CASE KillTail(w)
  <2>1. /\ pc' \in [Workers -> Labels]
        /\ seen' \in [Workers -> Pids \cup {None}]
        /\ result' \in [Workers -> Results]
        /\ restart' \in [Workers -> BOOLEAN]
    BY <1>7, EnterType, GotoType DEF KillTail
  <2>2. ui' \in UiType /\ stateLock' \in Workers \cup {None}
    BY <1>7 DEF KillTail, UiType
  <2> QED
    BY <1>7, <2>1, <2>2 DEF KillTail
<1>8. CASE KillClear(w) BY <1>8 DEF KillClear, ClearExited, MarkExit
<1> QED
  BY <1>1, <1>2, <1>3, <1>4, <1>5, <1>6, <1>7, <1>8 DEF KillStep

LEMMA MonitorTypeOK ==
  ASSUME TypeOK, NEW g \in Pids, MonitorStep(g)
  PROVE  TypeOK'
<1> USE LabelValues, UiValues, OtherValues DEF TypeOK, SupervisorTypeOK
<1>1. CASE MonitorCheck(g)
  <2>1. monitor' \in [Pids -> MonitorLabels]
    BY <1>1 DEF MonitorCheck, MonitorMoves
  <2> QED
    BY <1>1, <2>1 DEF MonitorCheck, MonitorMoves, boundVars
<1>2. CASE MonitorObserve(g)
  <2>1. monitor' \in [Pids -> MonitorLabels]
    BY <1>2 DEF MonitorObserve, MonitorMoves
  <2>2. /\ found' \in [Pids -> Pids \cup {None}]
        /\ evidence' \in [Pids -> ExitKinds \cup {"none"}]
    BY <1>2 DEF MonitorObserve, Observed
  <2> QED
    BY <1>2, <2>1, <2>2 DEF MonitorObserve, MonitorMoves, boundVars
<1>3. CASE MonitorExit(g)
  <2>1. monitor' \in [Pids -> MonitorLabels]
    BY <1>3 DEF MonitorExit, MonitorMoves
  <2>2. ui' \in UiType
    BY <1>3, DisownedUiType DEF MonitorExit
  <2>3. found' \in [Pids -> Pids \cup {None}]
    BY <1>3 DEF MonitorExit
  <2> QED
    BY <1>3, <2>1, <2>2, <2>3 DEF MonitorExit, MonitorMoves, boundVars, UiType
<1>4. CASE MonitorError(g)
  <2>1. monitor' \in [Pids -> MonitorLabels]
    BY <1>4 DEF MonitorError, MonitorMoves
  <2>2. ui' \in UiType
    BY <1>4 DEF MonitorError, UiType
  <2> QED
    BY <1>4, <2>1, <2>2 DEF MonitorError, MonitorMoves, boundVars, UiType
<1> QED
  BY <1>1, <1>2, <1>3, <1>4 DEF MonitorStep

(* Every step keeps the types.                                             *)
LEMMA NextTypeOK == TypeOK /\ [Next]_vars => TypeOK'
<1> SUFFICES ASSUME TypeOK, [Next]_vars PROVE TypeOK'
  OBVIOUS
<1>1. ASSUME NEW w \in Workers, WorkerStep(w) PROVE TypeOK'
  BY <1>1, StartTypeOK, StopTypeOK, KillTypeOK DEF WorkerStep
<1>2. ASSUME NEW w \in Workers, NEW b \in Buttons, Click(w, b) PROVE TypeOK'
  <2>1. FirstLabel(b) \in Labels
    BY <1>2, LifecycleAssumption, LabelValues
    DEF LifecycleAssumption, AllButtons, FirstLabel
  <2>2. clicks' \in 0..MaxClicks
    <3>1. clicks < MaxClicks /\ clicks' = clicks + 1
      BY <1>2 DEF Click
    <3> QED
      BY <3>1, LifecycleAssumption DEF LifecycleAssumption, TypeOK
  <2>3. pc' \in [Workers -> Labels] /\ restart' \in [Workers -> BOOLEAN]
    BY <1>2, <2>1 DEF Click, TypeOK
  <2> QED
    BY <1>2, <2>2, <2>3 DEF Click, TypeOK, SupervisorTypeOK
<1>3. ASSUME NEW g \in Pids, MonitorStep(g) PROVE TypeOK'
  BY <1>3, MonitorTypeOK
<1>4. ASSUME NEW p \in Pids, ServerExits(p) PROVE TypeOK'
  BY <1>4, OtherValues DEF ServerExits, ProcessExit, TypeOK, SupervisorTypeOK
<1>5. CASE ArmForceKill
  BY <1>5 DEF ArmForceKill, TypeOK, SupervisorTypeOK
<1>6. CASE ApplicationDies
  <2>1. ui' \in UiType
    BY <1>6, FreshUiType DEF ApplicationDies
  <2>2. SupervisorTypeOK'
    BY <1>6, OtherValues
    DEF ApplicationDies, SupervisorDies, SupervisorTypeOK, TypeOK
  <2>3. crashes' \in 0..MaxCrashes /\ clicks' \in 0..MaxClicks
    BY <1>6, LifecycleAssumption
    DEF ApplicationDies, LifecycleAssumption, TypeOK
  <2>4. /\ pc' \in [Workers -> Labels]
        /\ result' \in [Workers -> Results]
        /\ seen' \in [Workers -> Pids \cup {None}]
        /\ restart' \in [Workers -> BOOLEAN]
    BY <1>6, LabelValues, OtherValues DEF ApplicationDies
  <2>5. /\ monitor' \in [Pids -> MonitorLabels]
        /\ found' \in [Pids -> Pids \cup {None}]
    BY <1>6, OtherValues DEF ApplicationDies
  <2> QED
    BY <1>6, <2>1, <2>2, <2>3, <2>4, <2>5 DEF ApplicationDies, TypeOK, UiType
<1>7. CASE UNCHANGED vars
  BY <1>7 DEF vars, TypeOK, SupervisorTypeOK
<1> QED
  BY <1>1, <1>2, <1>3, <1>4, <1>5, <1>6, <1>7 DEF Next

(***************************************************************************)
(* Type correctness: whatever the threads do, every variable keeps its     *)
(* type.                                                                   *)
(***************************************************************************)
THEOREM TypeCorrect == Spec => []TypeOK
<1>1. Init => TypeOK
  BY InitTypeOK
<1>2. TypeOK /\ [Next]_vars => TypeOK'
  BY NextTypeOK
<1> QED
  BY <1>1, <1>2, PTL DEF Spec

-----------------------------------------------------------------------------
(* BusyIsWorked is inductive: a step either frees the view, or begins an   *)
(* operation with its own worker, or keeps every worker that owes the end. *)

LEMMA BusyFreed ==
  ASSUME ui'.operation \notin {"Starting", "Stopping"} PROVE BusyIsWorked'
  BY DEF BusyIsWorked

LEMMA BusyKept ==
  ASSUME BusyIsWorked, ui'.operation = ui.operation,
         \A w \in Workers : /\ w \in StartsInFlight => w \in StartsInFlight'
                            /\ w \in StopsInFlight => w \in StopsInFlight'
  PROVE  BusyIsWorked'
  BY DEF BusyIsWorked, StartsInFlight, StopsInFlight

\* a worker changes its label only, and owes the same write as before
LEMMA BusyMoved ==
  ASSUME TypeOK, BusyIsWorked, ui'.operation = ui.operation,
         NEW w \in Workers, NEW label,
         pc' = [pc EXCEPT ![w] = label],
         w \in StartsInFlight
           => label \in StartLabels \ {"start", "begin"},
         w \in StopsInFlight
           => label \in {"stopLock", "grace", "stopFailedLocked", "stopClear",
                         "stopTail", "stopFailed", "killPhase", "killLock",
                         "terminate", "killTail"}
  PROVE  BusyIsWorked'
<1>1. ASSUME NEW v \in Workers
      PROVE  /\ v \in StartsInFlight => v \in StartsInFlight'
             /\ v \in StopsInFlight => v \in StopsInFlight'
  BY DEF TypeOK, StartsInFlight, StopsInFlight
<1> QED
  BY <1>1, BusyKept

LEMMA StartBusy ==
  ASSUME TypeOK, BusyIsWorked, NEW w \in Workers, StartStep(w)
  PROVE  BusyIsWorked'
<1> USE DEF StartsInFlight, StopsInFlight, StartLabels
<1>1. CASE StartCheck(w)
  BY <1>1, BusyMoved DEF StartCheck
<1>2. CASE StartBegin(w)
  <2>1. ui'.operation = "Starting" /\ w \in StartsInFlight'
    BY <1>2 DEF StartBegin, TypeOK
  <2> QED
    BY <2>1 DEF BusyIsWorked
<1>3. CASE FailStart(w)
  BY <1>3, BusyFreed DEF FailStart, FailStartUi, TypeOK
<1>4. CASE StartSpawn(w)
  BY <1>4, BusyMoved DEF StartSpawn
<1>5. CASE StartAttach(w)
  BY <1>5, BusyMoved DEF StartAttach
<1>6. CASE FailStartLocked(w)
  BY <1>6, BusyFreed DEF FailStartLocked, FailStartUi, TypeOK
<1>7. CASE StartAdopt(w)
  <2>1. ui'.operation = ui.operation
    BY <1>7 DEF StartAdopt, TypeOK
  <2> QED
    BY <1>7, <2>1, BusyMoved DEF StartAdopt
<1>8. CASE StartAwait(w)
  BY <1>8, BusyMoved DEF StartAwait
<1>9. CASE PollCancelled(w)
  BY <1>9, BusyMoved DEF PollCancelled
<1>10. CASE PollExited(w)
  BY <1>10, BusyMoved DEF PollExited
<1>11. CASE PollProbe(w)
  BY <1>11, BusyMoved DEF PollProbe
<1>12. CASE PollTimeout(w)
  BY <1>12, BusyMoved DEF PollTimeout
<1>13. CASE ProbeAnswered(w)
  BY <1>13, BusyMoved DEF ProbeAnswered
<1>14. CASE ProbeRejected(w)
  BY <1>14, BusyMoved DEF ProbeRejected
<1>15. CASE ProbeRetry(w)
  BY <1>15, BusyMoved DEF ProbeRetry
<1>16. CASE StartTail(w)
  <2>1. CASE ui.operation = "Stopping"
    <3>1. ui'.operation = ui.operation
      BY <1>16, <2>1 DEF StartTail, TailUi, TypeOK
    <3>2. StopsInFlight \subseteq StopsInFlight'
      BY <1>16 DEF StartTail, TypeOK
    <3> QED
      BY <2>1, <3>1, <3>2 DEF BusyIsWorked
  <2>2. CASE ui.operation # "Stopping"
    <3>1. ui'.operation = "Idle"
      BY <1>16, <2>2 DEF StartTail, TailUi, TypeOK
    <3> QED
      BY <3>1, BusyFreed
  <2> QED
    BY <2>1, <2>2
<1> QED
  BY <1>1, <1>2, <1>3, <1>4, <1>5, <1>6, <1>7, <1>8, <1>9, <1>10, <1>11,
  <1>12, <1>13, <1>14, <1>15, <1>16 DEF StartStep

LEMMA StopBusy ==
  ASSUME TypeOK, BusyIsWorked, NEW w \in Workers, StopStep(w)
  PROVE  BusyIsWorked'
<1> USE DEF StartsInFlight, StopsInFlight, StartLabels
<1>1. CASE StopCheck(w)
  BY <1>1, BusyMoved DEF StopCheck
<1>2. CASE StopCancel(w)
  BY <1>2, BusyMoved DEF StopCancel
<1>3. CASE StopBegin(w)
  <2>1. ui'.operation = "Stopping" /\ w \in StopsInFlight'
    BY <1>3 DEF StopBegin, TypeOK
  <2> QED
    BY <2>1 DEF BusyIsWorked
<1>4. CASE StopLock(w)
  BY <1>4, BusyMoved DEF StopLock
<1>5. CASE GraceExited(w)
  BY <1>5, BusyMoved DEF GraceExited
<1>6. CASE GraceExpired(w)
  BY <1>6, BusyMoved DEF GraceExpired
<1>7. CASE StopFailed(w)
  BY <1>7, BusyFreed DEF StopFailed, StopFailedUi, TypeOK
<1>8. CASE StopFailedLocked(w)
  BY <1>8, BusyFreed DEF StopFailedLocked, StopFailedUi, TypeOK
<1>9. CASE StopClear(w)
  BY <1>9, BusyMoved DEF StopClear
<1>10. CASE StopTail(w)
  BY <1>10, BusyFreed DEF StopTail, DisownedUi, TypeOK
<1>11. CASE Restart(w)
  BY <1>11, BusyMoved DEF Restart
<1> QED
  BY <1>1, <1>2, <1>3, <1>4, <1>5, <1>6, <1>7, <1>8, <1>9, <1>10, <1>11
  DEF StopStep

LEMMA KillBusy ==
  ASSUME TypeOK, BusyIsWorked, NEW w \in Workers, KillStep(w)
  PROVE  BusyIsWorked'
<1> USE DEF StartsInFlight, StopsInFlight, StartLabels
<1>1. CASE KillCheck(w)
  BY <1>1, BusyMoved DEF KillCheck
<1>2. CASE KillCancel(w)
  BY <1>2, BusyMoved DEF KillCancel
<1>3. CASE KillOperation(w)
  <2>1. ui'.operation = "Stopping" /\ w \in StopsInFlight'
    BY <1>3 DEF KillOperation, TypeOK
  <2> QED
    BY <2>1 DEF BusyIsWorked
<1>4. CASE KillPhase(w)
  <2>1. ui'.operation = ui.operation
    BY <1>4 DEF KillPhase, TypeOK
  <2> QED
    BY <1>4, <2>1, BusyMoved DEF KillPhase
<1>5. CASE KillLock(w)
  BY <1>5, BusyMoved DEF KillLock
<1>6. CASE KillTerminate(w)
  BY <1>6, BusyMoved DEF KillTerminate
<1>7. CASE KillTail(w)
  BY <1>7, BusyFreed DEF KillTail, TypeOK
<1>8. CASE KillClear(w)
  <2>1. ui'.operation = ui.operation
    BY <1>8 DEF KillClear, TypeOK
  <2> QED
    BY <1>8, <2>1, BusyMoved DEF KillClear
<1> QED
  BY <1>1, <1>2, <1>3, <1>4, <1>5, <1>6, <1>7, <1>8 DEF KillStep

LEMMA NextBusy == TypeOK /\ BusyIsWorked /\ [Next]_vars => BusyIsWorked'
<1> SUFFICES ASSUME TypeOK, BusyIsWorked, [Next]_vars PROVE BusyIsWorked'
  OBVIOUS
<1>1. ASSUME NEW w \in Workers, WorkerStep(w) PROVE BusyIsWorked'
  BY <1>1, StartBusy, StopBusy, KillBusy DEF WorkerStep
<1>2. ASSUME NEW w \in Workers, NEW b \in Buttons, Click(w, b)
      PROVE BusyIsWorked'
  BY <1>2, BusyMoved DEF Click, StartsInFlight, StopsInFlight, StartLabels
<1>3. ASSUME NEW g \in Pids, MonitorStep(g) PROVE BusyIsWorked'
  <2>1. CASE MonitorCheck(g) \/ MonitorObserve(g)
    BY <2>1, BusyKept
    DEF MonitorCheck, MonitorObserve, MonitorMoves, StartsInFlight, StopsInFlight
  <2>2. CASE MonitorExit(g) \/ MonitorError(g)
    BY <2>2, BusyFreed DEF MonitorExit, MonitorError, DisownedUi, TypeOK
  <2> QED
    BY <1>3, <2>1, <2>2 DEF MonitorStep
<1>4. ASSUME NEW p \in Pids, ServerExits(p) PROVE BusyIsWorked'
  BY <1>4, BusyKept DEF ServerExits, StartsInFlight, StopsInFlight
<1>5. CASE ArmForceKill
  <2>1. ui'.operation = ui.operation
    BY <1>5 DEF ArmForceKill, TypeOK
  <2> QED
    BY <1>5, <2>1, BusyKept DEF ArmForceKill, StartsInFlight, StopsInFlight
<1>6. CASE ApplicationDies
  BY <1>6, BusyFreed DEF ApplicationDies, FreshUi
<1>7. CASE UNCHANGED vars
  BY <1>7, BusyKept DEF vars, StartsInFlight, StopsInFlight
<1> QED
  BY <1>1, <1>2, <1>3, <1>4, <1>5, <1>6, <1>7 DEF Next

(***************************************************************************)
(* The view is never left busy with an operation nobody works on: on every *)
(* path of run_start, run_graceful_stop and run_force_kill, and whatever   *)
(* monitors write in between, the last worker of an operation ends it.     *)
(***************************************************************************)
THEOREM BusyCorrect == Spec => []BusyIsWorked
<1>1. Init => BusyIsWorked
  BY DEF Init, FreshUi, BusyIsWorked
<1>2. TypeOK /\ BusyIsWorked /\ [Next]_vars => BusyIsWorked'
  BY NextBusy
<1> QED
  BY <1>1, <1>2, TypeCorrect, PTL DEF Spec

-----------------------------------------------------------------------------
(* SupervisionInv is inductive.  Most steps only move a worker, and the    *)
(* mutex with it.                                                          *)
LEMMA SupervisionMoved ==
  ASSUME TypeOK, SupervisionInv,
         NEW w \in Workers, NEW label,
         pc' = [pc EXCEPT ![w] = label],
         \A v \in Workers \ {w} : seen'[v] = seen[v],
         UNCHANGED <<os, current, escaped>>,
         pc[w] # "attach", label # "attach",
         label = "terminate" => current # None,
         label \in SupLabels => supLock' = w,
         supLock' = supLock \/ supLock \in {None, w}
  PROVE  SupervisionInv'
<1>1. ASSUME NEW v \in Workers, v # w
      PROVE  pc'[v] = pc[v] /\ seen'[v] = seen[v]
  BY <1>1 DEF TypeOK
<1>2. pc'[w] = label
  BY DEF TypeOK
<1>3. LiveIsSupervised'
  BY <1>1, <1>2 DEF SupervisionInv, LiveIsSupervised, Running
<1>4. MutexIsHeld'
  <2>1. ASSUME NEW v \in Workers, v # w, pc'[v] \in SupLabels
        PROVE  supLock' = v
    BY <1>1, <2>1, NoneAssumption, LifecycleAssumption
    DEF SupervisionInv, MutexIsHeld, LifecycleAssumption
  <2> QED
    BY <1>2, <2>1 DEF MutexIsHeld
<1>5. AttachingIsExclusive'
  BY <1>1, <1>2 DEF SupervisionInv, AttachingIsExclusive
<1>6. SlotHoldsOwnChild'
  BY DEF SupervisionInv, SlotHoldsOwnChild
<1> QED
  BY <1>1, <1>2, <1>3, <1>4, <1>5, <1>6 DEF SupervisionInv

\* With the mutex free nobody attaches and nobody terminates.
LEMMA MutexFree ==
  ASSUME SupervisionInv, supLock = None, NEW w \in Workers
  PROVE  pc[w] \notin SupLabels
  BY LifecycleAssumption DEF LifecycleAssumption, SupervisionInv, MutexIsHeld

\* clear_exited under the free mutex, by a worker that keeps no lock
LEMMA SupervisionCleared ==
  ASSUME TypeOK, SupervisionInv, supLock = None, ClearExited,
         NEW w \in Workers, NEW label, label \notin SupLabels,
         pc' = [pc EXCEPT ![w] = label],
         UNCHANGED <<supLock, escaped>>
  PROVE  SupervisionInv'
<1>1. \A v \in Workers : pc'[v] \notin SupLabels
  BY MutexFree DEF TypeOK
<1>2. \A v \in Workers : pc[v] # "attach" /\ pc'[v] \notin {"attach", "terminate"}
  BY <1>1, MutexFree DEF SupLabels
<1>3. LiveIsSupervised'
  BY <1>2 DEF SupervisionInv, LiveIsSupervised, ClearExited, SlotRunning, Running
<1> QED
  BY <1>1, <1>2, <1>3 DEF SupervisionInv, MutexIsHeld, AttachingIsExclusive,
     SlotHoldsOwnChild, ClearExited

LEMMA StartSupervised ==
  ASSUME TypeOK, SupervisionInv, NEW w \in Workers, StartStep(w)
  PROVE  SupervisionInv'
<1> USE NoneAssumption DEF TypeOK, SupervisorTypeOK, SupervisionInv,
      LiveIsSupervised, MutexIsHeld, AttachingIsExclusive, SlotHoldsOwnChild,
      SupLabels, Running, Exited, SlotFree, SlotRunning
<1>1. CASE StartCheck(w)
  BY <1>1 DEF StartCheck
<1>2. CASE StartBegin(w)
  BY <1>2 DEF StartBegin
<1>3. CASE FailStart(w)
  BY <1>3 DEF FailStart
<1>4. CASE StartSpawn(w)
  <2>1. \A v \in Workers : pc[v] \notin SupLabels
    BY <1>4, MutexFree DEF StartSpawn
  <2>2. \A v \in Workers \ {w} : pc'[v] = pc[v]
    BY <1>4 DEF StartSpawn
  <2>3. /\ supLock' = w
        /\ UNCHANGED escaped
    BY <1>4 DEF StartSpawn
  <2>4. ASSUME NEW p \in Pids, SpawnChild(p), GotoWith(w, "attach", p)
        PROVE  SupervisionInv'
    <3>1. LiveIsSupervised'
      BY <2>1, <2>3, <2>4 DEF SpawnChild
    <3>2. MutexIsHeld'
      BY <2>1, <2>2, <2>3
    <3>3. AttachingIsExclusive'
      BY <2>1, <2>2, <2>3, <2>4 DEF SpawnChild
    <3> QED
      BY <2>1, <2>2, <2>3, <2>4, <3>1, <3>2, <3>3 DEF SpawnChild
  <2>5. ASSUME SpawnFails \/ SpawnRefused, Goto(w, "failStartLocked")
        PROVE  SupervisionInv'
    <3>1. LiveIsSupervised'
      BY <2>1, <2>3, <2>5 DEF SpawnFails, SpawnRefused
    <3>2. MutexIsHeld'
      BY <2>1, <2>2, <2>3
    <3> QED
      BY <2>1, <2>2, <2>3, <2>5, <3>1, <3>2 DEF SpawnFails, SpawnRefused
  <2> QED
    BY <1>4, <2>4, <2>5 DEF StartSpawn
<1>5. CASE StartAttach(w)
  BY <1>5 DEF StartAttach, AttachJob, AttachFails
<1>6. CASE FailStartLocked(w)
  BY <1>6 DEF FailStartLocked
<1>7. CASE StartAdopt(w)
  BY <1>7, SupervisionMoved DEF StartAdopt, boundVars
<1>8. CASE StartAwait(w)
  BY <1>8, SupervisionMoved DEF StartAwait
<1>9. CASE PollCancelled(w)
  BY <1>9 DEF PollCancelled
<1>10. CASE PollExited(w)
  BY <1>10 DEF PollExited
<1>11. CASE PollProbe(w)
  BY <1>11 DEF PollProbe
<1>12. CASE PollTimeout(w)
  BY <1>12 DEF PollTimeout
<1>13. CASE ProbeAnswered(w)
  BY <1>13 DEF ProbeAnswered
<1>14. CASE ProbeRejected(w)
  BY <1>14 DEF ProbeRejected
<1>15. CASE ProbeRetry(w)
  BY <1>15 DEF ProbeRetry
<1>16. CASE StartTail(w)
  BY <1>16 DEF StartTail
<1> QED
  BY <1>1, <1>2, <1>3, <1>4, <1>5, <1>6, <1>7, <1>8, <1>9, <1>10, <1>11,
  <1>12, <1>13, <1>14, <1>15, <1>16 DEF StartStep

LEMMA StopSupervised ==
  ASSUME TypeOK, SupervisionInv, NEW w \in Workers, StopStep(w)
  PROVE  SupervisionInv'
<1> USE NoneAssumption DEF TypeOK, SupervisorTypeOK, SupervisionInv,
      LiveIsSupervised, MutexIsHeld, AttachingIsExclusive, SlotHoldsOwnChild,
      SupLabels, Running, Exited, SlotFree, SlotRunning
<1>1. CASE StopCheck(w)
  BY <1>1 DEF StopCheck
<1>2. CASE StopCancel(w)
  BY <1>2 DEF StopCancel
<1>3. CASE StopBegin(w)
  BY <1>3 DEF StopBegin
<1>4. CASE StopLock(w)
  BY <1>4, SupervisionMoved DEF StopLock
<1>5. CASE GraceExited(w)
  BY <1>5 DEF GraceExited
<1>6. CASE GraceExpired(w)
  BY <1>6 DEF GraceExpired
<1>7. CASE StopFailed(w)
  BY <1>7 DEF StopFailed
<1>8. CASE StopFailedLocked(w)
  BY <1>8 DEF StopFailedLocked
<1>9. CASE StopClear(w)
  BY <1>9, SupervisionCleared DEF StopClear
<1>10. CASE StopTail(w)
  BY <1>10 DEF StopTail
<1>11. CASE Restart(w)
  BY <1>11 DEF Restart
<1> QED
  BY <1>1, <1>2, <1>3, <1>4, <1>5, <1>6, <1>7, <1>8, <1>9, <1>10, <1>11 DEF
  StopStep

LEMMA KillSupervised ==
  ASSUME TypeOK, SupervisionInv, NEW w \in Workers, KillStep(w)
  PROVE  SupervisionInv'
<1> USE NoneAssumption DEF TypeOK, SupervisorTypeOK, SupervisionInv,
      LiveIsSupervised, MutexIsHeld, AttachingIsExclusive, SlotHoldsOwnChild,
      SupLabels, Running, Exited, SlotFree, SlotRunning
<1>1. CASE KillCheck(w)
  BY <1>1 DEF KillCheck
<1>2. CASE KillCancel(w)
  BY <1>2 DEF KillCancel
<1>3. CASE KillOperation(w)
  BY <1>3 DEF KillOperation
<1>4. CASE KillPhase(w)
  BY <1>4 DEF KillPhase
<1>5. CASE KillLock(w)
  BY <1>5, SupervisionMoved DEF KillLock
<1>6. CASE KillTerminate(w)
  BY <1>6 DEF KillTerminate, Terminate
<1>7. CASE KillTail(w)
  BY <1>7 DEF KillTail
<1>8. CASE KillClear(w)
  BY <1>8, SupervisionCleared DEF KillClear
<1> QED
  BY <1>1, <1>2, <1>3, <1>4, <1>5, <1>6, <1>7, <1>8 DEF KillStep

\* Threads and monitors that leave the supervisor's part alone.
LEMMA SupervisionKept ==
  ASSUME SupervisionInv, UNCHANGED <<os, current, escaped, pc, seen, supLock>>
  PROVE  SupervisionInv'
  BY DEF SupervisionInv, LiveIsSupervised, MutexIsHeld, AttachingIsExclusive,
     SlotHoldsOwnChild, Running

LEMMA NextSupervised == TypeOK /\ SupervisionInv /\ [Next]_vars => SupervisionInv'
<1> SUFFICES ASSUME TypeOK, SupervisionInv, [Next]_vars PROVE SupervisionInv'
  OBVIOUS
<1>1. ASSUME NEW w \in Workers, WorkerStep(w) PROVE SupervisionInv'
  BY <1>1, StartSupervised, StopSupervised, KillSupervised DEF WorkerStep
<1>2. ASSUME NEW w \in Workers, NEW b \in Buttons, Click(w, b)
      PROVE SupervisionInv'
  <2>1. FirstLabel(b) \in {"start", "stop", "kill"}
    BY <1>2, LifecycleAssumption
    DEF LifecycleAssumption, AllButtons, FirstLabel
  <2> QED
    BY <1>2, <2>1, SupervisionMoved DEF Click, SupLabels
<1>3. ASSUME NEW g \in Pids, MonitorStep(g) PROVE SupervisionInv'
  BY <1>3, SupervisionKept
  DEF MonitorStep, MonitorCheck, MonitorObserve, MonitorExit, MonitorError,
      MonitorMoves, boundVars
<1>4. ASSUME NEW p \in Pids, ServerExits(p) PROVE SupervisionInv'
  BY <1>4 DEF ServerExits, ProcessExit, TypeOK, SupervisorTypeOK,
     SupervisionInv, LiveIsSupervised, MutexIsHeld, AttachingIsExclusive,
     SlotHoldsOwnChild, Running
<1>5. CASE ArmForceKill
  BY <1>5, SupervisionKept DEF ArmForceKill
<1>6. CASE ApplicationDies
  <2>1. LiveIsSupervised'
    BY <1>6 DEF ApplicationDies, SupervisorDies, SlotRunning, LiveIsSupervised,
       Running, TypeOK, SupervisorTypeOK
  <2>2. MutexIsHeld' /\ AttachingIsExclusive' /\ SlotHoldsOwnChild'
    BY <1>6 DEF ApplicationDies, SupervisorDies, MutexIsHeld, SupLabels,
       AttachingIsExclusive, SlotHoldsOwnChild
  <2>3. \A p \in escaped' : os'[p] # "unborn"
    BY <1>6 DEF ApplicationDies, SupervisorDies, Running, TypeOK,
       SupervisorTypeOK
  <2> QED
    BY <1>6, <2>1, <2>2, <2>3 DEF SupervisionInv, ApplicationDies
<1>7. CASE UNCHANGED vars
  BY <1>7, SupervisionKept DEF vars
<1> QED
  BY <1>1, <1>2, <1>3, <1>4, <1>5, <1>6, <1>7 DEF Next

LEMMA InitSupervised == Init => SupervisionInv
  BY DEF Init, SupervisorInit, SupervisionInv, LiveIsSupervised, MutexIsHeld,
     AttachingIsExclusive, SlotHoldsOwnChild, SupLabels, Running

(***************************************************************************)
(* The strengthened invariant of the supervisor's mutex and slot.          *)
(***************************************************************************)
THEOREM SupervisionCorrect == Spec => []SupervisionInv
<1>1. Init => SupervisionInv
  BY InitSupervised
<1>2. TypeOK /\ SupervisionInv /\ [Next]_vars => SupervisionInv'
  BY NextSupervised
<1> QED
  BY <1>1, <1>2, TypeCorrect, PTL DEF Spec

(***************************************************************************)
(* No running llama-server is forgotten: it is in the supervisor's slot,   *)
(* or one thread is putting it there, or a death of the application came   *)
(* between its creation and its Job Object.                                *)
(***************************************************************************)
THEOREM LiveCorrect == Spec => []LiveIsSupervised
<1>1. SupervisionInv => LiveIsSupervised
  BY DEF SupervisionInv
<1> QED
  BY <1>1, SupervisionCorrect, PTL

-----------------------------------------------------------------------------
(* ServerLifecycle implements ServerSlot.  Only the calls of the           *)
(* supervisor and the exits of children are visible there.                 *)

SlotLive == {p \in Pids : Running(p)} \ escaped
SlotUsed == {p \in Pids : os[p] # "unborn"}

LEMMA SlotInit == Init => Slot!Init
  BY DEF Init, SupervisorInit, Slot!Init, Running

LEMMA SlotStutter ==
  ASSUME UNCHANGED <<os, current, escaped>>
  PROVE  UNCHANGED Slot!slotVars
  BY DEF Slot!slotVars, Running

LEMMA SpawnCreates ==
  ASSUME TypeOK, SupervisionInv, supLock = None, UNCHANGED escaped,
         NEW p \in Pids, SpawnChild(p)
  PROVE  Slot!Create(p)
<1>1. \A w \in Workers : pc[w] # "attach"
  BY MutexFree DEF SupLabels
<1>2. SlotLive = {}
  BY <1>1, NoneAssumption DEF SpawnChild, SlotFree, SlotRunning, Running, SlotLive,
     SupervisionInv, LiveIsSupervised
<1>3. p \notin escaped
  BY DEF SpawnChild, SupervisionInv
<1>4. SlotLive' = {p}
  BY <1>2, <1>3 DEF SpawnChild, SlotLive, Running, TypeOK, SupervisorTypeOK
<1>5. SlotUsed' = SlotUsed \cup {p} /\ p \notin SlotUsed
  BY DEF SpawnChild, SlotUsed, TypeOK, SupervisorTypeOK
<1> QED
  BY <1>2, <1>4, <1>5 DEF Slot!Create, SlotLive, SlotUsed, SpawnChild

LEMMA SlotEmptied ==
  ASSUME TypeOK, SupervisionInv, SlotFree, current' = None,
         UNCHANGED <<os, escaped>>
  PROVE  Slot!Release \/ UNCHANGED Slot!slotVars
<1>1. SlotLive' = SlotLive /\ SlotUsed' = SlotUsed
  BY DEF SlotLive, SlotUsed, Running
<1>2. current # None => current \notin SlotLive
  BY DEF SlotFree, SlotRunning, SlotLive
<1> QED
  BY <1>1, <1>2 DEF Slot!Release, Slot!slotVars, SlotLive, SlotUsed

LEMMA ClearReleases ==
  ASSUME TypeOK, SupervisionInv, ClearExited, UNCHANGED escaped
  PROVE  Slot!Release \/ UNCHANGED Slot!slotVars
<1>1. CASE current' = current
  BY <1>1, SlotStutter DEF ClearExited
<1>2. CASE ~SlotRunning /\ current' # current
  BY <1>2, SlotEmptied DEF ClearExited, SlotFree
<1>3. ~SlotRunning \/ current' = current
  BY DEF ClearExited
<1> QED
  BY <1>1, <1>2, <1>3

\* the death of one child, by itself or killed
LEMMA ChildDies ==
  ASSUME TypeOK, UNCHANGED <<current, escaped>>, NEW p \in Pids,
         os[p] # "unborn",
         NEW code \in {"zero", "nonzero"},
         os' = IF Running(p) THEN [os EXCEPT ![p] = code] ELSE os
  PROVE  Slot!Die(p) \/ UNCHANGED Slot!slotVars
<1>1. SlotUsed' = SlotUsed
  BY DEF SlotUsed, Running, TypeOK, SupervisorTypeOK
<1>2. SlotLive' = SlotLive \ {p}
  BY DEF SlotLive, Running, TypeOK, SupervisorTypeOK
<1>3. CASE p \in SlotLive
  BY <1>1, <1>2, <1>3 DEF Slot!Die, SlotLive, SlotUsed
<1>4. CASE p \notin SlotLive
  BY <1>1, <1>2, <1>4 DEF Slot!slotVars, SlotLive, SlotUsed
<1> QED
  BY <1>3, <1>4

LEMMA StartImplements ==
  ASSUME TypeOK, SupervisionInv, NEW w \in Workers, StartStep(w)
  PROVE  [Slot!Next]_(Slot!slotVars)
<1>1. CASE StartSpawn(w)
  <2>1. ASSUME NEW p \in Pids, SpawnChild(p)
        PROVE  [Slot!Next]_(Slot!slotVars)
    BY <1>1, <2>1, SpawnCreates DEF StartSpawn, Slot!Next
  <2>2. CASE SpawnFails
    BY <1>1, <2>2, SlotEmptied DEF StartSpawn, SpawnFails, Slot!Next
  <2>3. CASE SpawnRefused
    BY <1>1, <2>3, SlotStutter DEF StartSpawn, SpawnRefused
  <2> QED
    BY <1>1, <2>1, <2>2, <2>3 DEF StartSpawn
<1>2. CASE StartAttach(w)
  <2>1. /\ seen[w] \in Pids \ escaped
        /\ current = None
        /\ os[seen[w]] # "unborn"
    BY <1>2 DEF StartAttach, SupervisionInv, AttachingIsExclusive
  <2>2. CASE AttachJob(seen[w])
    <3>1. SlotLive \subseteq {seen[w]}
      <4>1. ASSUME NEW v \in Workers, pc[v] = "attach" PROVE v = w
        BY <1>2, <4>1 DEF StartAttach, SupervisionInv, MutexIsHeld, SupLabels
      <4> QED
        BY <2>1, <4>1, NoneAssumption
        DEF SlotLive, SupervisionInv, LiveIsSupervised
    <3>2. SlotLive' = SlotLive /\ SlotUsed' = SlotUsed
      BY <1>2, <2>2 DEF StartAttach, AttachJob, SlotLive, SlotUsed, Running
    <3>3. Slot!Adopt(seen[w])
      BY <2>1, <2>2, <3>1, <3>2
      DEF Slot!Adopt, AttachJob, SlotLive, SlotUsed
    <3> QED
      BY <2>1, <3>3 DEF Slot!Next
  <2>3. CASE AttachFails(seen[w])
    BY <1>2, <2>1, <2>3, ChildDies DEF StartAttach, AttachFails, Slot!Next
  <2> QED
    BY <1>2, <2>2, <2>3 DEF StartAttach
<1>3. CASE /\ ~StartSpawn(w)
           /\ ~StartAttach(w)
  BY <1>3, SlotStutter
  DEF StartStep, StartCheck, StartBegin, FailStart, FailStartLocked,
      StartAdopt, StartAwait, PollCancelled, PollExited, PollProbe,
      PollTimeout, ProbeAnswered, ProbeRejected, ProbeRetry, StartTail,
      boundVars
<1> QED
  BY <1>1, <1>2, <1>3

LEMMA StopImplements ==
  ASSUME TypeOK, SupervisionInv, NEW w \in Workers, StopStep(w)
  PROVE  [Slot!Next]_(Slot!slotVars)
<1>1. CASE StopClear(w)
  BY <1>1, ClearReleases DEF StopClear, Slot!Next
<1>2. CASE ~StopClear(w)
  BY <1>2, SlotStutter
  DEF StopStep, StopCheck, StopCancel, StopBegin, StopLock, GraceExited,
      GraceExpired, StopFailed, StopFailedLocked, StopTail, Restart
<1> QED
  BY <1>1, <1>2

LEMMA KillImplements ==
  ASSUME TypeOK, SupervisionInv, NEW w \in Workers, KillStep(w)
  PROVE  [Slot!Next]_(Slot!slotVars)
<1>1. CASE KillClear(w)
  BY <1>1, ClearReleases DEF KillClear, Slot!Next
<1>2. CASE KillTerminate(w)
  <2>1. CASE Terminate
    <3>1. current \in Pids /\ os[current] # "unborn"
      BY <1>2 DEF KillTerminate, SupervisionInv, SlotHoldsOwnChild, TypeOK,
         SupervisorTypeOK
    <3> QED
      BY <1>2, <2>1, <3>1, ChildDies DEF KillTerminate, Terminate, Slot!Next
  <2>2. CASE UNCHANGED supervisorVars
    BY <1>2, <2>2, SlotStutter DEF KillTerminate
  <2> QED
    BY <1>2, <2>1, <2>2 DEF KillTerminate
<1>3. CASE ~KillClear(w) /\ ~KillTerminate(w)
  BY <1>3, SlotStutter
  DEF KillStep, KillCheck, KillCancel, KillOperation, KillPhase, KillLock,
      KillTail
<1> QED
  BY <1>1, <1>2, <1>3

LEMMA NextImplements ==
  TypeOK /\ SupervisionInv /\ [Next]_vars => [Slot!Next]_(Slot!slotVars)
<1> SUFFICES ASSUME TypeOK, SupervisionInv, [Next]_vars
             PROVE  [Slot!Next]_(Slot!slotVars)
  OBVIOUS
<1>1. ASSUME NEW w \in Workers, WorkerStep(w)
      PROVE  [Slot!Next]_(Slot!slotVars)
  BY <1>1, StartImplements, StopImplements, KillImplements DEF WorkerStep
<1>2. ASSUME NEW w \in Workers, NEW b \in Buttons, Click(w, b)
      PROVE  [Slot!Next]_(Slot!slotVars)
  BY <1>2, SlotStutter DEF Click
<1>3. ASSUME NEW g \in Pids, MonitorStep(g)
      PROVE  [Slot!Next]_(Slot!slotVars)
  BY <1>3, SlotStutter
  DEF MonitorStep, MonitorCheck, MonitorObserve, MonitorExit, MonitorError,
      MonitorMoves, boundVars
<1>4. ASSUME NEW p \in Pids, ServerExits(p)
      PROVE  [Slot!Next]_(Slot!slotVars)
  <2>1. PICK code \in {"zero", "nonzero"} : os' = [os EXCEPT ![p] = code]
    BY <1>4 DEF ServerExits, ProcessExit
  <2> QED
    BY <1>4, <2>1, ChildDies DEF ServerExits, ProcessExit, Running, Slot!Next
<1>5. CASE ArmForceKill
  BY <1>5, SlotStutter DEF ArmForceKill
<1>6. CASE ApplicationDies
  <2>1. SlotLive' = {}
    <3>1. ASSUME NEW p \in Pids, Running(p)' PROVE p \in escaped'
      <4>1. os'[p] = "running" /\ SupervisorDies
        BY <1>6, <3>1 DEF ApplicationDies, Running
      <4>2. os \in [Pids -> OsStates]
        BY DEF TypeOK, SupervisorTypeOK
      <4>3. ASSUME SlotRunning PROVE os[p] = "running" /\ p # current
        <5>1. os' = [os EXCEPT ![current] = "nonzero"]
          BY <4>1, <4>3 DEF SupervisorDies
        <5>2. p # current
          BY <4>1, <4>2, <5>1
        <5> QED
          BY <4>1, <4>2, <5>1, <5>2
      <4>4. ASSUME ~SlotRunning PROVE os[p] = "running" /\ p # current
        <5>1. os' = os
          BY <4>1, <4>4 DEF SupervisorDies
        <5>2. p # current
          BY <4>1, <4>4, <5>1, NoneAssumption DEF SlotRunning, Running
        <5> QED
          BY <4>1, <5>1, <5>2
      <4>5. os[p] = "running" /\ p # current
        BY <4>3, <4>4
      <4> QED
        BY <1>6, <4>5 DEF ApplicationDies, Running
    <3> QED
      BY <3>1 DEF SlotLive
  <2>2. SlotUsed' = SlotUsed
    BY <1>6 DEF ApplicationDies, SupervisorDies, SlotRunning, SlotUsed,
       Running, TypeOK, SupervisorTypeOK
  <2>3. Slot!SessionEnds
    BY <1>6, <2>1, <2>2
    DEF ApplicationDies, SupervisorDies, Slot!SessionEnds, SlotLive, SlotUsed
  <2> QED
    BY <2>3 DEF Slot!Next
<1>7. CASE UNCHANGED vars
  BY <1>7, SlotStutter DEF vars
<1> QED
  BY <1>1, <1>2, <1>3, <1>4, <1>5, <1>6, <1>7 DEF Next

(***************************************************************************)
(* The threads, the mutex and the crashes of the application together keep *)
(* what ServerSlot promises, for any number of threads and children.       *)
(***************************************************************************)
THEOREM Implements == Spec => ImplementsSlot
<1>1. Init => Slot!Init
  BY SlotInit
<1>2. TypeOK /\ SupervisionInv /\ [Next]_vars => [Slot!Next]_(Slot!slotVars)
  BY NextImplements
<1> QED
  BY <1>1, <1>2, TypeCorrect, SupervisionCorrect, PTL
  DEF Spec, ImplementsSlot, Slot!Spec

-----------------------------------------------------------------------------
(* Exit evidence is written once: whoever terminates a child still has the *)
(* mutex under which it saw that child without evidence.                   *)

EvidenceInv ==
  /\ \A p \in Pids : evidence[p] # "none" => Exited(p)
  /\ \A w \in Workers : pc[w] = "terminate" => evidence[current] = "none"

\* With the mutex free nobody terminates, and a step that is not going to
\* may look at the slot, empty it or fill it.
LEMMA EvidenceFree ==
  ASSUME TypeOK, SupervisionInv, supLock = None,
         NEW w \in Workers, NEW label, label # "terminate",
         pc' = [pc EXCEPT ![w] = label],
         \A p \in Pids : evidence'[p] # "none" => Exited(p)'
  PROVE  EvidenceInv'
<1>1. \A v \in Workers : pc[v] # "terminate"
  BY MutexFree DEF SupLabels
<1> QED
  BY <1>1 DEF EvidenceInv, TypeOK

LEMMA StartEvidence ==
  ASSUME TypeOK, SupervisionInv, EvidenceInv, NEW w \in Workers, StartStep(w)
  PROVE  EvidenceInv'
<1> USE NoneAssumption DEF TypeOK, SupervisorTypeOK, SupervisionInv, MutexIsHeld,
      SupLabels, EvidenceInv, Running, Exited, ExitCached, SlotRunning, SlotFree
<1>1. CASE StartCheck(w)
  BY <1>1 DEF StartCheck
<1>2. CASE StartBegin(w)
  BY <1>2 DEF StartBegin
<1>3. CASE FailStart(w)
  BY <1>3 DEF FailStart
<1>4. CASE StartSpawn(w)
  <2>1. \A p \in Pids : evidence'[p] # "none" => Exited(p)'
    BY <1>4 DEF StartSpawn, SpawnChild, SpawnFails, SpawnRefused
  <2> QED
    BY <1>4, <2>1, EvidenceFree DEF StartSpawn
<1>5. CASE StartAttach(w)
  BY <1>5 DEF StartAttach, AttachJob, AttachFails
<1>6. CASE FailStartLocked(w)
  BY <1>6 DEF FailStartLocked
<1>7. CASE StartAdopt(w)
  BY <1>7 DEF StartAdopt
<1>8. CASE StartAwait(w)
  BY <1>8 DEF StartAwait
<1>9. CASE PollCancelled(w)
  BY <1>9 DEF PollCancelled
<1>10. CASE PollExited(w)
  BY <1>10 DEF PollExited, Observed
<1>11. CASE PollProbe(w)
  BY <1>11 DEF PollProbe
<1>12. CASE PollTimeout(w)
  BY <1>12 DEF PollTimeout
<1>13. CASE ProbeAnswered(w)
  BY <1>13 DEF ProbeAnswered
<1>14. CASE ProbeRejected(w)
  BY <1>14 DEF ProbeRejected
<1>15. CASE ProbeRetry(w)
  BY <1>15 DEF ProbeRetry
<1>16. CASE StartTail(w)
  BY <1>16 DEF StartTail
<1> QED
  BY <1>1, <1>2, <1>3, <1>4, <1>5, <1>6, <1>7, <1>8, <1>9, <1>10, <1>11,
  <1>12, <1>13, <1>14, <1>15, <1>16 DEF StartStep

LEMMA StopEvidence ==
  ASSUME TypeOK, SupervisionInv, EvidenceInv, NEW w \in Workers, StopStep(w)
  PROVE  EvidenceInv'
<1> USE NoneAssumption DEF TypeOK, SupervisorTypeOK, SupervisionInv, MutexIsHeld,
      SupLabels, EvidenceInv, Running, Exited, ExitCached, SlotRunning, SlotFree
<1>1. CASE StopCheck(w)
  BY <1>1 DEF StopCheck
<1>2. CASE StopCancel(w)
  BY <1>2 DEF StopCancel
<1>3. CASE StopBegin(w)
  BY <1>3 DEF StopBegin
<1>4. CASE StopLock(w)
  BY <1>4 DEF StopLock
<1>5. CASE GraceExited(w)
  BY <1>5 DEF GraceExited, Observed
<1>6. CASE GraceExpired(w)
  BY <1>6 DEF GraceExpired
<1>7. CASE StopFailed(w)
  BY <1>7 DEF StopFailed
<1>8. CASE StopFailedLocked(w)
  BY <1>8 DEF StopFailedLocked
<1>9. CASE StopClear(w)
  <2>1. \A p \in Pids : evidence'[p] # "none" => Exited(p)'
    BY <1>9 DEF StopClear, ClearExited
  <2> QED
    BY <1>9, <2>1, EvidenceFree DEF StopClear
<1>10. CASE StopTail(w)
  BY <1>10 DEF StopTail
<1>11. CASE Restart(w)
  BY <1>11 DEF Restart
<1> QED
  BY <1>1, <1>2, <1>3, <1>4, <1>5, <1>6, <1>7, <1>8, <1>9, <1>10, <1>11 DEF
  StopStep

LEMMA KillEvidence ==
  ASSUME TypeOK, SupervisionInv, EvidenceInv, NEW w \in Workers, KillStep(w)
  PROVE  EvidenceInv'
<1> USE NoneAssumption DEF TypeOK, SupervisorTypeOK, SupervisionInv, MutexIsHeld,
      SupLabels, EvidenceInv, Running, Exited, ExitCached, SlotRunning, SlotFree
<1>1. CASE KillCheck(w)
  BY <1>1 DEF KillCheck
<1>2. CASE KillCancel(w)
  BY <1>2 DEF KillCancel
<1>3. CASE KillOperation(w)
  BY <1>3 DEF KillOperation
<1>4. CASE KillPhase(w)
  BY <1>4 DEF KillPhase
<1>5. CASE KillLock(w)
  <2>1. \A p \in Pids : evidence'[p] # "none" => Exited(p)'
    BY <1>5 DEF KillLock, Observed
  <2>2. CASE pc'[w] = "terminate"
    <3>1. \A v \in Workers \ {w} : pc'[v] # "terminate"
      BY <1>5, MutexFree DEF KillLock
    <3>2. SlotRunning /\ UNCHANGED supervisorVars
      BY <1>5, <2>2 DEF KillLock
    <3> QED
      BY <2>1, <3>1, <3>2
  <2>3. CASE pc'[w] # "terminate"
    BY <1>5, <2>1, <2>3, EvidenceFree DEF KillLock
  <2> QED
    BY <2>2, <2>3
<1>6. CASE KillTerminate(w)
  <2>1. \A v \in Workers : pc'[v] # "terminate"
    BY <1>6 DEF KillTerminate
  <2>2. \A p \in Pids : evidence'[p] # "none" => Exited(p)'
    <3>1. CASE Terminate
      <4>1. current \in Pids /\ Exited(current)'
        BY <1>6, <3>1 DEF KillTerminate, Terminate, SlotHoldsOwnChild, OsStates
      <4>2. ASSUME NEW p \in Pids, p # current, evidence'[p] # "none"
            PROVE  Exited(p)'
        BY <3>1, <4>2 DEF Terminate
      <4> QED
        BY <3>1, <4>1, <4>2 DEF Terminate
    <3> QED
      BY <1>6, <3>1 DEF KillTerminate
  <2> QED
    BY <2>1, <2>2
<1>7. CASE KillTail(w)
  BY <1>7 DEF KillTail
<1>8. CASE KillClear(w)
  <2>1. \A p \in Pids : evidence'[p] # "none" => Exited(p)'
    BY <1>8 DEF KillClear, ClearExited
  <2> QED
    BY <1>8, <2>1, EvidenceFree DEF KillClear
<1> QED
  BY <1>1, <1>2, <1>3, <1>4, <1>5, <1>6, <1>7, <1>8 DEF KillStep

LEMMA NextEvidence ==
  TypeOK /\ SupervisionInv /\ EvidenceInv /\ [Next]_vars => EvidenceInv'
<1> SUFFICES ASSUME TypeOK, SupervisionInv, EvidenceInv, [Next]_vars
             PROVE  EvidenceInv'
  OBVIOUS
<1>1. ASSUME NEW w \in Workers, WorkerStep(w) PROVE EvidenceInv'
  BY <1>1, StartEvidence, StopEvidence, KillEvidence DEF WorkerStep
<1>2. ASSUME NEW w \in Workers, NEW b \in Buttons, Click(w, b)
      PROVE EvidenceInv'
  <2>1. FirstLabel(b) # "terminate"
    BY <1>2, LifecycleAssumption
    DEF LifecycleAssumption, AllButtons, FirstLabel
  <2>2. \A v \in Workers : pc'[v] = "terminate" => pc[v] = "terminate"
    BY <1>2, <2>1 DEF Click, TypeOK
  <2> QED
    BY <1>2, <2>2 DEF Click, EvidenceInv, Exited
<1>3. ASSUME NEW g \in Pids, MonitorStep(g) PROVE EvidenceInv'
  <2>1. CASE MonitorObserve(g)
    <3>1. \A v \in Workers : pc'[v] # "terminate"
      BY <2>1, MutexFree DEF MonitorObserve, MonitorMoves, SupLabels
    <3>2. \A p \in Pids : evidence'[p] # "none" => Exited(p)'
      BY <2>1 DEF MonitorObserve, Observed, EvidenceInv, Exited, TypeOK,
         SupervisorTypeOK
    <3> QED
      BY <3>1, <3>2 DEF EvidenceInv
  <2>2. CASE ~MonitorObserve(g)
    BY <1>3, <2>2 DEF MonitorStep, MonitorCheck, MonitorExit, MonitorError,
       MonitorMoves, EvidenceInv, Exited
  <2> QED
    BY <2>1, <2>2
<1>4. ASSUME NEW p \in Pids, ServerExits(p) PROVE EvidenceInv'
  BY <1>4 DEF ServerExits, ProcessExit, EvidenceInv, Exited, TypeOK,
     SupervisorTypeOK
<1>5. CASE ArmForceKill
  BY <1>5 DEF ArmForceKill, EvidenceInv, Exited
<1>6. CASE ApplicationDies
  BY <1>6 DEF ApplicationDies, SupervisorDies, EvidenceInv, Exited, TypeOK,
     SupervisorTypeOK
<1>7. CASE UNCHANGED vars
  BY <1>7 DEF vars, EvidenceInv, Exited
<1> QED
  BY <1>1, <1>2, <1>3, <1>4, <1>5, <1>6, <1>7 DEF Next

LEMMA EvidenceStep ==
  TypeOK /\ SupervisionInv /\ EvidenceInv /\ [Next]_vars
    => [\A p \in Pids : evidence[p] # "none" => evidence'[p] = evidence[p]]_vars
<1> SUFFICES ASSUME TypeOK, SupervisionInv, EvidenceInv, Next,
                    NEW p \in Pids, evidence[p] # "none"
             PROVE  evidence'[p] = evidence[p]
  OBVIOUS
<1> USE DEF TypeOK, SupervisorTypeOK
<1>1. ASSUME NEW w \in Workers, StartStep(w) PROVE evidence'[p] = evidence[p]
  BY <1>1
  DEF StartStep, StartCheck, StartBegin, FailStart, StartSpawn, SpawnChild,
      SpawnFails, SpawnRefused, StartAttach, AttachJob, AttachFails,
      FailStartLocked, StartAdopt, StartAwait, PollCancelled, PollExited,
      PollProbe, PollTimeout, ProbeAnswered, ProbeRejected, ProbeRetry,
      StartTail, Observed, boundVars
<1>2. ASSUME NEW w \in Workers, StopStep(w) PROVE evidence'[p] = evidence[p]
  BY <1>2
  DEF StopStep, StopCheck, StopCancel, StopBegin, StopLock, GraceExited,
      GraceExpired, StopFailed, StopFailedLocked, StopClear, ClearExited,
      StopTail, Restart, Observed
<1>3. ASSUME NEW w \in Workers, KillStep(w) PROVE evidence'[p] = evidence[p]
  <2>1. CASE KillTerminate(w)
    <3>1. evidence[current] = "none"
      BY <2>1 DEF KillTerminate, EvidenceInv
    <3> QED
      BY <2>1, <3>1 DEF KillTerminate, Terminate
  <2>2. CASE ~KillTerminate(w)
    BY <1>3, <2>2
    DEF KillStep, KillCheck, KillCancel, KillOperation, KillPhase, KillLock,
        KillTail, KillClear, ClearExited, Observed
  <2> QED
    BY <2>1, <2>2
<1>4. ASSUME NEW g \in Pids, MonitorStep(g) PROVE evidence'[p] = evidence[p]
  BY <1>4
  DEF MonitorStep, MonitorCheck, MonitorObserve, MonitorExit, MonitorError,
      MonitorMoves, Observed
<1>5. CASE \/ \E w \in Workers : \E b \in Buttons : Click(w, b)
           \/ \E q \in Pids : ServerExits(q)
           \/ ArmForceKill
           \/ ApplicationDies
  BY <1>5 DEF Click, ServerExits, ProcessExit, ArmForceKill, ApplicationDies,
     SupervisorDies
<1> QED
  BY <1>1, <1>2, <1>3, <1>4, <1>5 DEF Next, WorkerStep

(***************************************************************************)
(* A natural exit is never rewritten into a forced one, nor the reverse.   *)
(***************************************************************************)
THEOREM EvidenceCorrect == Spec => EvidenceIsFinal
<1>1. Init => EvidenceInv
  BY DEF Init, SupervisorInit, EvidenceInv
<1>2. TypeOK /\ SupervisionInv /\ EvidenceInv /\ [Next]_vars => EvidenceInv'
  BY NextEvidence
<1>3. Spec => []EvidenceInv
  BY <1>1, <1>2, TypeCorrect, SupervisionCorrect, PTL DEF Spec
<1> QED
  BY <1>3, EvidenceStep, TypeCorrect, SupervisionCorrect, PTL
  DEF Spec, EvidenceIsFinal

-----------------------------------------------------------------------------
(* A monitor of the owned generation stays on: strengthened so that only a *)
(* start that has its child in the slot, and has yet to adopt it, excuses  *)
(* its absence.                                                            *)

WatchInv ==
  /\ \A w \in Workers : pc[w] \in {"attach", "adopt"} => seen[w] \in Pids
  /\ ui.owned => ui.generation \in Pids
  /\ ui.owned /\ current # None /\ (\A w \in Workers : pc[w] # "adopt")
       => monitor[ui.generation] # "off"

LEMMA StartWatched ==
  ASSUME TypeOK, WatchInv, NEW w \in Workers, StartStep(w)
  PROVE  WatchInv'
<1> USE NoneAssumption DEF TypeOK, SupervisorTypeOK, WatchInv
<1>1. CASE StartCheck(w)
  BY <1>1 DEF StartCheck
<1>2. CASE StartBegin(w)
  BY <1>2 DEF StartBegin
<1>3. CASE FailStart(w)
  BY <1>3 DEF FailStart, FailStartUi
<1>4. CASE StartSpawn(w)
  BY <1>4 DEF StartSpawn, SpawnChild, SpawnFails, SpawnRefused
<1>5. CASE StartAttach(w)
  BY <1>5 DEF StartAttach, AttachJob, AttachFails
<1>6. CASE FailStartLocked(w)
  BY <1>6 DEF FailStartLocked, FailStartUi
<1>7. CASE StartAdopt(w)
  BY <1>7 DEF StartAdopt, boundVars
<1>8. CASE StartAwait(w)
  BY <1>8 DEF StartAwait
<1>9. CASE PollCancelled(w)
  BY <1>9 DEF PollCancelled
<1>10. CASE PollExited(w)
  BY <1>10 DEF PollExited, Observed
<1>11. CASE PollProbe(w)
  BY <1>11 DEF PollProbe
<1>12. CASE PollTimeout(w)
  BY <1>12 DEF PollTimeout
<1>13. CASE ProbeAnswered(w)
  BY <1>13 DEF ProbeAnswered
<1>14. CASE ProbeRejected(w)
  BY <1>14 DEF ProbeRejected
<1>15. CASE ProbeRetry(w)
  BY <1>15 DEF ProbeRetry
<1>16. CASE StartTail(w)
  BY <1>16 DEF StartTail, TailUi
<1> QED
  BY <1>1, <1>2, <1>3, <1>4, <1>5, <1>6, <1>7, <1>8, <1>9, <1>10, <1>11,
  <1>12, <1>13, <1>14, <1>15, <1>16 DEF StartStep

LEMMA StopWatched ==
  ASSUME TypeOK, WatchInv, NEW w \in Workers, StopStep(w)
  PROVE  WatchInv'
<1> USE NoneAssumption DEF TypeOK, SupervisorTypeOK, WatchInv
<1>1. CASE StopCheck(w)
  BY <1>1 DEF StopCheck
<1>2. CASE StopCancel(w)
  BY <1>2 DEF StopCancel
<1>3. CASE StopBegin(w)
  BY <1>3 DEF StopBegin
<1>4. CASE StopLock(w)
  BY <1>4 DEF StopLock
<1>5. CASE GraceExited(w)
  BY <1>5 DEF GraceExited, Observed
<1>6. CASE GraceExpired(w)
  BY <1>6 DEF GraceExpired
<1>7. CASE StopFailed(w)
  BY <1>7 DEF StopFailed, StopFailedUi
<1>8. CASE StopFailedLocked(w)
  BY <1>8 DEF StopFailedLocked, StopFailedUi
<1>9. CASE StopClear(w)
  BY <1>9 DEF StopClear, ClearExited
<1>10. CASE StopTail(w)
  BY <1>10 DEF StopTail, DisownedUi
<1>11. CASE Restart(w)
  BY <1>11 DEF Restart
<1> QED
  BY <1>1, <1>2, <1>3, <1>4, <1>5, <1>6, <1>7, <1>8, <1>9, <1>10, <1>11 DEF
  StopStep

LEMMA KillWatched ==
  ASSUME TypeOK, WatchInv, NEW w \in Workers, KillStep(w)
  PROVE  WatchInv'
<1> USE NoneAssumption DEF TypeOK, SupervisorTypeOK, WatchInv
<1>1. CASE KillCheck(w)
  BY <1>1 DEF KillCheck
<1>2. CASE KillCancel(w)
  BY <1>2 DEF KillCancel
<1>3. CASE KillOperation(w)
  BY <1>3 DEF KillOperation
<1>4. CASE KillPhase(w)
  BY <1>4 DEF KillPhase
<1>5. CASE KillLock(w)
  BY <1>5 DEF KillLock, Observed
<1>6. CASE KillTerminate(w)
  BY <1>6 DEF KillTerminate, Terminate
<1>7. CASE KillTail(w)
  BY <1>7 DEF KillTail
<1>8. CASE KillClear(w)
  BY <1>8 DEF KillClear, ClearExited
<1> QED
  BY <1>1, <1>2, <1>3, <1>4, <1>5, <1>6, <1>7, <1>8 DEF KillStep

LEMMA NextWatched == TypeOK /\ WatchInv /\ [Next]_vars => WatchInv'
<1> SUFFICES ASSUME TypeOK, WatchInv, [Next]_vars PROVE WatchInv'
  OBVIOUS
<1>1. ASSUME NEW w \in Workers, WorkerStep(w) PROVE WatchInv'
  BY <1>1, StartWatched, StopWatched, KillWatched DEF WorkerStep
<1>2. ASSUME NEW w \in Workers, NEW b \in Buttons, Click(w, b) PROVE WatchInv'
  <2>1. FirstLabel(b) \in {"start", "stop", "kill"}
    BY <1>2, LifecycleAssumption
    DEF LifecycleAssumption, AllButtons, FirstLabel
  <2> QED
    BY <1>2, <2>1 DEF Click, WatchInv, TypeOK
<1>3. ASSUME NEW g \in Pids, MonitorStep(g) PROVE WatchInv'
  <2>1. CASE MonitorCheck(g)
    BY <2>1 DEF MonitorCheck, MonitorMoves, WatchInv, TypeOK
  <2>2. CASE MonitorObserve(g)
    BY <2>2 DEF MonitorObserve, MonitorMoves, WatchInv, TypeOK, SlotRunning
  <2>3. CASE MonitorExit(g)
    BY <2>3 DEF MonitorExit, MonitorMoves, DisownedUi, WatchInv, TypeOK
  <2>4. CASE MonitorError(g)
    BY <2>4 DEF MonitorError, MonitorMoves, WatchInv, TypeOK
  <2> QED
    BY <1>3, <2>1, <2>2, <2>3, <2>4 DEF MonitorStep
<1>4. ASSUME NEW p \in Pids, ServerExits(p) PROVE WatchInv'
  BY <1>4 DEF ServerExits, ProcessExit, WatchInv
<1>5. CASE ArmForceKill
  BY <1>5 DEF ArmForceKill, WatchInv, TypeOK
<1>6. CASE ApplicationDies
  BY <1>6 DEF ApplicationDies, FreshUi, WatchInv
<1>7. CASE UNCHANGED vars
  BY <1>7 DEF vars, WatchInv
<1> QED
  BY <1>1, <1>2, <1>3, <1>4, <1>5, <1>6, <1>7 DEF Next

(***************************************************************************)
(* An owned server that the supervisor holds is watched, unless it is      *)
(* still being started: restarts, double starts and kills in between never *)
(* leave the view without the monitor of its own generation.               *)
(***************************************************************************)
THEOREM WatchCorrect == Spec => []OwnedIsWatched
<1>1. Init => WatchInv
  BY DEF Init, FreshUi, WatchInv
<1>2. TypeOK /\ WatchInv /\ [Next]_vars => WatchInv'
  BY NextWatched
<1>3. WatchInv => OwnedIsWatched
  BY DEF WatchInv, OwnedIsWatched, StartsInFlight, StartLabels
<1> QED
  BY <1>1, <1>2, <1>3, TypeCorrect, PTL DEF Spec
=============================================================================
