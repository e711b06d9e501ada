----------------------- MODULE RouterOperationsProofs -----------------------
(***************************************************************************)
(* Proofs about RouterOperations, for any callers, models and bound, and   *)
(* about the round trip that is built on it, SwitchBenchmark, for any      *)
(* number of runs and of loads and unloads of other clients.  The first    *)
(* part rests on OperationsAssumption alone.                               *)
(***************************************************************************)
EXTENDS SwitchBenchmark, SequenceTheorems, TLAPS

OperationsInv == TypeOK /\ SingleFlight /\ EvidenceInv /\ SuccessIsObserved

-----------------------------------------------------------------------------
(* Types                                                                   *)

LEMMA ClearType ==
  \A phase \in {"unloaded", "loading", "ready", "unknown"} : Clear(phase) \in Statuses
  BY DEF Clear, Statuses

LEMMA ChangeType ==
  ASSUME status \in Registries, NEW m, NEW s \in Statuses, status' = [status EXCEPT ![m] = s]
  PROVE  status' \in Registries
  BY DEF Registries

LEMMA OutcomeType == \A w, r : Outcome(w, r) \in Results
  BY DEF Outcome, TargetKept, Results

(* An accepted request leaves a registry. *)
LEMMA EffectType ==
  ASSUME status \in Registries, NEW w, NEW label, Effect(w, label)
  PROVE  status' \in Registries
<1>1. ASSUME NEW m, LoadAccepted(m) PROVE status' \in Registries
  BY <1>1, ClearType, ChangeType DEF LoadAccepted
<1>2. ASSUME NEW m, UnloadAccepted(m) PROVE status' \in Registries
  BY <1>2, ClearType, ChangeType DEF UnloadAccepted
<1>. QED
  BY <1>1, <1>2 DEF Effect

LEMMA MovesType ==
  ASSUME status \in Registries, NEW m \in Models, RouterMoves(m)
  PROVE  status' \in Registries
  BY ClearType, ChangeType DEF RouterMoves

LEMMA InitInv == Init => OperationsInv
<1>. SUFFICES ASSUME Init PROVE OperationsInv
  OBVIOUS
<1>1. TypeOK
  <2>1. status \in Registries
    BY ClearType DEF Init, RouterInit, Registries
  <2>. QED
  BY <2>1, OperationsAssumption
     DEF Init, TypeOK, States, Calls, Kinds,
         NoCall, Labels, Results
<1>2. SingleFlight /\ EvidenceInv /\ SuccessIsObserved
  BY DEF Init, SingleFlight, EvidenceInv, SuccessIsObserved, Working
<1>. QED
  BY <1>1, <1>2 DEF OperationsInv

CallersType ==
  /\ pc \in [Callers -> Labels]
  /\ call \in [Callers -> Calls]
  /\ registry \in [Callers -> Registries \cup {None}]
  /\ result \in [Callers -> Results]

ControllerType ==
  controller \in [state : States, call : Calls,
                  registry : Registries \cup {None}]

(* The steps the actions are put together from keep the types. *)
LEMMA ReadsType ==
  ASSUME TypeOK, NEW w \in Callers, NEW label \in Labels, Reads(w, label)
  PROVE  CallersType'
  BY DEF TypeOK, CallersType, Reads

LEMMA ReadsAndEndsType ==
  ASSUME TypeOK, NEW w \in Callers, NEW outcome \in Results,
         ReadsAndEnds(w, outcome)
  PROVE  CallersType'
  BY DEF TypeOK, CallersType, ReadsAndEnds, Labels

LEMMA EndsType ==
  ASSUME TypeOK, NEW w \in Callers, NEW outcome \in Results, Ends(w, outcome)
  PROVE  CallersType'
  BY DEF TypeOK, CallersType, Ends, Labels

LEMMA ProgressType ==
  ASSUME TypeOK, Progress(status)
  PROVE  ControllerType'
  BY DEF TypeOK, ControllerType, Progress

(* Every step keeps the types. *)
LEMMA TypeStep ==
  ASSUME TypeOK, [Next]_vars
  PROVE  TypeOK'
<1>. USE DEF TypeOK, Calls, Kinds, Labels, Results, States
<1>1. ASSUME NEW w \in Callers, NEW c \in Callable, Begin(w, c)
      PROVE  TypeOK'
  BY <1>1, OperationsAssumption DEF Begin, At, Callable
<1>2. ASSUME NEW w \in Callers, Cancel(w)
      PROVE  TypeOK'
  BY <1>2 DEF Cancel, callerVars
<1>3. ASSUME NEW w \in Callers, SeesCancel(w)
      PROVE  TypeOK'
  BY <1>3, OperationsAssumption
     DEF SeesCancel, ChecksCancel, Ends, callerVars
<1>4. ASSUME NEW w \in Callers, DiscoverFails(w)
      PROVE  TypeOK'
  BY <1>4, OperationsAssumption
     DEF DiscoverFails, At, Ends, callerVars
<1>5. ASSUME NEW w \in Callers, DiscoverSatisfied(w)
      PROVE  TypeOK'
  <2>1. CallersType'
    BY <1>5, ReadsType, ReadsAndEndsType, OutcomeType DEF DiscoverSatisfied, Labels
  <2>2. ControllerType'
    BY <1>5, ProgressType DEF DiscoverSatisfied
  <2>. QED
    BY <1>5, <2>1, <2>2 DEF DiscoverSatisfied, CallersType, ControllerType
<1>6. ASSUME NEW w \in Callers, DiscoverNeeded(w)
      PROVE  TypeOK'
  BY <1>6, OperationsAssumption
     DEF DiscoverNeeded, At, Reads, Progress, callerVars
<1>7. ASSUME NEW w \in Callers, PostAccepted(w)
      PROVE  TypeOK'
  BY <1>7, EffectType, OperationsAssumption
     DEF PostAccepted, Goto, PostLabels, WaitLabel, callerVars
<1>8. ASSUME NEW w \in Callers, PostRefused(w)
      PROVE  TypeOK'
  BY <1>8, OperationsAssumption
     DEF PostRefused, Ends, PostLabels, callerVars
<1>9. ASSUME NEW w \in Callers, PostAnswerLost(w)
      PROVE  TypeOK'
  BY <1>9, EffectType, OperationsAssumption
     DEF PostAnswerLost, Ends, PostLabels, callerVars
<1>10. ASSUME NEW w \in Callers, WaitCancelled(w)
      PROVE  TypeOK'
  BY <1>10, OperationsAssumption
     DEF WaitCancelled, Waits, WaitLabels, Ends, Progress, callerVars
<1>11. ASSUME NEW w \in Callers, WaitFailed(w)
      PROVE  TypeOK'
  BY <1>11, OperationsAssumption
     DEF WaitFailed, Waits, WaitLabels, ReadsAndEnds, Progress, callerVars
<1>12. ASSUME NEW w \in Callers, WaitReached(w)
      PROVE  TypeOK'
  <2>1. CallersType'
    BY <1>12, ReadsType, ReadsAndEndsType, OutcomeType DEF WaitReached, Labels
  <2>2. ControllerType'
    BY <1>12, ProgressType DEF WaitReached
  <2>. QED
    BY <1>12, <2>1, <2>2 DEF WaitReached, CallersType, ControllerType
<1>13. ASSUME NEW w \in Callers, WaitGoesOn(w)
      PROVE  TypeOK'
  BY <1>13, OperationsAssumption
     DEF WaitGoesOn, Waits, WaitLabels, Reads, Progress, callerVars
<1>14. ASSUME NEW w \in Callers, WaitTimeout(w)
      PROVE  TypeOK'
  BY <1>14, OperationsAssumption
     DEF WaitTimeout, Waits, WaitLabels, Ends, Progress, callerVars
<1>15. ASSUME NEW w \in Callers, ReloadEnds(w)
      PROVE  TypeOK'
  <2>1. CallersType'
    BY <1>15, EndsType, ReadsAndEndsType DEF ReloadEnds
  <2>. QED
    BY <1>15, <2>1 DEF ReloadEnds, CallersType
<1>16. ASSUME NEW w \in Callers, Finish(w)
      PROVE  TypeOK'
  <2>1. CallersType' /\ cancelled' \in [Callers -> BOOLEAN]
    BY <1>16, OperationsAssumption
       DEF Finish, Returns, CallersType, NoCall
  <2>2. ControllerType'
    <3>1. CASE result[w] = "ok"
      BY <1>16, <3>1 DEF Finish, ControllerType
    <3>2. CASE result[w] = "cancelled"
      BY <1>16, <3>2 DEF Finish, ControllerType
    <3>3. CASE result[w] \notin {"ok", "cancelled"}
      BY <1>16, <3>3 DEF Finish, ControllerType
    <3>. QED
      BY <3>1, <3>2, <3>3
  <2>. QED
    BY <1>16, <2>1, <2>2 DEF Finish, CallersType, ControllerType
<1>17. ASSUME NEW m \in Models, RouterStep(m)
      PROVE  TypeOK'
  BY <1>17, MovesType DEF RouterStep, callerVars
<1>18. CASE UNCHANGED vars
  BY <1>18 DEF vars, callerVars
<1>. QED
  BY <1>1, <1>2, <1>3, <1>4, <1>5, <1>6, <1>7, <1>8, <1>9, <1>10, <1>11, <1>12, <1>13, <1>14, <1>15, <1>16, <1>17, <1>18 DEF Next, CallerStep

(***************************************************************************)
(* One operation at a time is inductive beside the types: begin and finish *)
(* are single critical sections.                                           *)
(***************************************************************************)
LEMMA FlightStep ==
  ASSUME TypeOK, SingleFlight, [Next]_vars
  PROVE  SingleFlight'
<1>. USE DEF TypeOK, Labels, States, SingleFlight, Working
<1>1. ASSUME NEW w \in Callers, NEW c \in Callable, Begin(w, c)
      PROVE  SingleFlight'
  BY <1>1, OperationsAssumption DEF Begin, At, Callable
<1>2. ASSUME NEW w \in Callers, Cancel(w)
      PROVE  SingleFlight'
  BY <1>2 DEF Cancel, callerVars
<1>3. ASSUME NEW w \in Callers, SeesCancel(w)
      PROVE  SingleFlight'
  BY <1>3, OperationsAssumption
     DEF SeesCancel, ChecksCancel, Ends, callerVars
<1>4. ASSUME NEW w \in Callers, DiscoverFails(w)
      PROVE  SingleFlight'
  BY <1>4, OperationsAssumption
     DEF DiscoverFails, At, Ends, callerVars
<1>5. ASSUME NEW w \in Callers, DiscoverSatisfied(w)
      PROVE  SingleFlight'
  BY <1>5, OperationsAssumption
     DEF DiscoverSatisfied, At, Reads, ReadsAndEnds, Progress, callerVars
<1>6. ASSUME NEW w \in Callers, DiscoverNeeded(w)
      PROVE  SingleFlight'
  BY <1>6, OperationsAssumption
     DEF DiscoverNeeded, At, Reads, Progress, callerVars
<1>7. ASSUME NEW w \in Callers, PostAccepted(w)
      PROVE  SingleFlight'
  BY <1>7, OperationsAssumption
     DEF PostAccepted, Goto, PostLabels, WaitLabel, callerVars
<1>8. ASSUME NEW w \in Callers, PostRefused(w)
      PROVE  SingleFlight'
  BY <1>8, OperationsAssumption
     DEF PostRefused, Ends, PostLabels, callerVars
<1>9. ASSUME NEW w \in Callers, PostAnswerLost(w)
      PROVE  SingleFlight'
  BY <1>9, OperationsAssumption
     DEF PostAnswerLost, Ends, PostLabels, callerVars
<1>10. ASSUME NEW w \in Callers, WaitCancelled(w)
      PROVE  SingleFlight'
  BY <1>10, OperationsAssumption
     DEF WaitCancelled, Waits, WaitLabels, Ends, Progress, callerVars
<1>11. ASSUME NEW w \in Callers, WaitFailed(w)
      PROVE  SingleFlight'
  BY <1>11, OperationsAssumption
     DEF WaitFailed, Waits, WaitLabels, ReadsAndEnds, Progress, callerVars
<1>12. ASSUME NEW w \in Callers, WaitReached(w)
      PROVE  SingleFlight'
  BY <1>12, OperationsAssumption
     DEF WaitReached, Waits, WaitLabels, Reads, ReadsAndEnds, Progress, At, TargetKept, callerVars
<1>13. ASSUME NEW w \in Callers, WaitGoesOn(w)
      PROVE  SingleFlight'
  BY <1>13, OperationsAssumption
     DEF WaitGoesOn, Waits, WaitLabels, Reads, Progress, callerVars
<1>14. ASSUME NEW w \in Callers, WaitTimeout(w)
      PROVE  SingleFlight'
  BY <1>14, OperationsAssumption
     DEF WaitTimeout, Waits, WaitLabels, Ends, Progress, callerVars
<1>15. ASSUME NEW w \in Callers, ReloadEnds(w)
      PROVE  SingleFlight'
  BY <1>15, OperationsAssumption
     DEF ReloadEnds, At, Ends, ReadsAndEnds, callerVars
<1>16. ASSUME NEW w \in Callers, Finish(w)
      PROVE  SingleFlight'
  BY <1>16, OperationsAssumption
     DEF Finish, At, Returns, callerVars
<1>17. ASSUME NEW m \in Models, RouterStep(m)
      PROVE  SingleFlight'
  BY <1>17 DEF RouterStep, callerVars
<1>18. CASE UNCHANGED vars
  BY <1>18 DEF vars, callerVars
<1>. QED
  BY <1>1, <1>2, <1>3, <1>4, <1>5, <1>6, <1>7, <1>8, <1>9, <1>10, <1>11, <1>12, <1>13, <1>14, <1>15, <1>16, <1>17, <1>18 DEF Next, CallerStep

-----------------------------------------------------------------------------
(* Evidence                                                                *)

(* The part of EvidenceInv that is about one caller. *)
Evidence(w) ==
  /\ controller.call = call[w]
  /\ pc[w] \in {"postSource", "waitSource"} =>
       call[w].kind = "Switch" /\ call[w].source # call[w].target
  /\ pc[w] = "postSource" => /\ registry[w] # None
                             /\ Ready(registry[w], call[w].target)
                             /\ controller.registry = registry[w]
  /\ pc[w] = "finish" /\ result[w] = "ok" => Shows(call[w], registry[w])

(* Nobody else works while a caller does, so its step disturbs only its own *)
(* evidence.                                                                *)
LEMMA OthersIdle ==
  ASSUME TypeOK, SingleFlight, NEW w \in Callers, pc[w] # "idle",
         NEW label, pc' = [pc EXCEPT ![w] = label], Evidence(w)'
  PROVE  EvidenceInv'
  BY DEF TypeOK, SingleFlight, Working, EvidenceInv, Evidence

LEMMA WorkerEvidence ==
  ASSUME TypeOK, SingleFlight, EvidenceInv, NEW w \in Callers, pc[w] # "idle"
  PROVE  Evidence(w) /\ controller.state = "Running"
  BY DEF TypeOK, SingleFlight, Working, EvidenceInv, Evidence

(* A registry the router has answered with is not None. *)
LEMMA RegistryIsSome == ASSUME TypeOK PROVE status # None
  BY OperationsAssumption DEF TypeOK

(* What a caller sees when it has nothing to request shows its success. *)
LEMMA SatisfiedShows ==
  ASSUME TypeOK, NEW w \in Callers, Satisfied(w), Outcome(w, status) = "ok",
         ~SwitchesSource(w, status)
  PROVE  Shows(call[w], status)
<1>1. status # None /\ call[w].kind \in Kinds
  BY RegistryIsSome DEF TypeOK, Calls
<1>2. call[w].kind # "ReloadRegistry"
  BY DEF Satisfied, Loading
<1>3. CASE call[w].kind = "Switch"
  BY <1>1, <1>3 DEF Outcome, TargetKept, SwitchesSource, Shows
<1>4. CASE call[w].kind \in {"Load", "Preload"}
  BY <1>1, <1>4 DEF Satisfied, Loading, Shows
<1>5. CASE call[w].kind = "Unload"
  BY <1>1, <1>5 DEF Satisfied, Loading, Shows
<1>. QED
  BY <1>1, <1>2, <1>3, <1>4, <1>5 DEF Kinds

LEMMA EvidenceStep ==
  ASSUME TypeOK, SingleFlight, EvidenceInv, [Next]_vars
  PROVE  EvidenceInv'
<1>1. ASSUME NEW w \in Callers, NEW c \in Callable, Begin(w, c)
      PROVE  EvidenceInv'
  BY <1>1 DEF TypeOK, SingleFlight, EvidenceInv, Working, Begin, At
<1>2. ASSUME NEW w \in Callers, Cancel(w)
      PROVE  EvidenceInv'
  BY <1>2 DEF Cancel, callerVars, EvidenceInv, Working
<1>3. ASSUME NEW w \in Callers, SeesCancel(w)
      PROVE  EvidenceInv'
  <2>1. pc[w] # "idle" /\ (\E label : pc' = [pc EXCEPT ![w] = label])
    BY <1>3 DEF SeesCancel, ChecksCancel, Ends, callerVars
  <2>2. Evidence(w)'
    BY <1>3, <2>1, WorkerEvidence, RegistryIsSome
       DEF SeesCancel, ChecksCancel, Ends, callerVars, Evidence, TypeOK
  <2>. QED
    BY <2>1, <2>2, OthersIdle
<1>4. ASSUME NEW w \in Callers, DiscoverFails(w)
      PROVE  EvidenceInv'
  <2>1. pc[w] # "idle" /\ (\E label : pc' = [pc EXCEPT ![w] = label])
    BY <1>4 DEF DiscoverFails, At, Ends, callerVars
  <2>2. Evidence(w)'
    BY <1>4, <2>1, WorkerEvidence, RegistryIsSome
       DEF DiscoverFails, At, Ends, callerVars, Evidence, TypeOK
  <2>. QED
    BY <2>1, <2>2, OthersIdle
<1>5. ASSUME NEW w \in Callers, DiscoverSatisfied(w)
      PROVE  EvidenceInv'
  <2>1. pc[w] # "idle" /\ (\E label : pc' = [pc EXCEPT ![w] = label])
    BY <1>5 DEF DiscoverSatisfied, At, Reads, ReadsAndEnds, Progress, SwitchesSource, Shows, Loading, callerVars
  <2>2. Evidence(w)'
    <3>1. /\ Evidence(w) /\ Satisfied(w) /\ call' = call /\ controller'.call = controller.call
          /\ pc[w] = "discover" /\ controller'.registry = status /\ status # None
      BY <1>5, <2>1, WorkerEvidence, RegistryIsSome
         DEF DiscoverSatisfied, At, Reads, ReadsAndEnds, Progress, TypeOK
    <3>2. CASE SwitchesSource(w, status)
      <4>1. pc'[w] = "postSource" /\ registry'[w] = status
        BY <1>5, <3>2 DEF DiscoverSatisfied, Reads, TypeOK
      <4>2. Ready(status, call[w].target)
        BY <3>1, <3>2 DEF Satisfied, SwitchesSource
      <4>. QED
        BY <3>1, <3>2, <4>1, <4>2 DEF Evidence, SwitchesSource
    <3>3. CASE ~SwitchesSource(w, status)
      <4>1. /\ pc'[w] = "finish" /\ registry'[w] = status
            /\ result'[w] = Outcome(w, status)
        BY <1>5, <3>3 DEF DiscoverSatisfied, ReadsAndEnds, TypeOK
      <4>. QED
        BY <3>1, <3>3, <4>1, SatisfiedShows DEF Evidence
    <3>. QED
      BY <3>2, <3>3
  <2>. QED
    BY <2>1, <2>2, OthersIdle
<1>6. ASSUME NEW w \in Callers, DiscoverNeeded(w)
      PROVE  EvidenceInv'
  <2>1. pc[w] # "idle" /\ (\E label : pc' = [pc EXCEPT ![w] = label])
    BY <1>6 DEF DiscoverNeeded, At, Reads, Progress, callerVars
  <2>2. Evidence(w)'
    BY <1>6, <2>1, WorkerEvidence, RegistryIsSome
       DEF DiscoverNeeded, At, Reads, Progress, callerVars, Evidence, TypeOK
  <2>. QED
    BY <2>1, <2>2, OthersIdle
<1>7. ASSUME NEW w \in Callers, PostAccepted(w)
      PROVE  EvidenceInv'
  <2>1. pc[w] # "idle" /\ (\E label : pc' = [pc EXCEPT ![w] = label])
    BY <1>7 DEF PostAccepted, Goto, PostLabels, WaitLabel, callerVars
  <2>2. Evidence(w)'
    BY <1>7, <2>1, WorkerEvidence, RegistryIsSome
       DEF PostAccepted, Goto, PostLabels, WaitLabel, callerVars, Evidence, TypeOK
  <2>. QED
    BY <2>1, <2>2, OthersIdle
<1>8. ASSUME NEW w \in Callers, PostRefused(w)
      PROVE  EvidenceInv'
  <2>1. pc[w] # "idle" /\ (\E label : pc' = [pc EXCEPT ![w] = label])
    BY <1>8 DEF PostRefused, Ends, PostLabels, callerVars
  <2>2. Evidence(w)'
    BY <1>8, <2>1, WorkerEvidence, RegistryIsSome
       DEF PostRefused, Ends, PostLabels, callerVars, Evidence, TypeOK
  <2>. QED
    BY <2>1, <2>2, OthersIdle
<1>9. ASSUME NEW w \in Callers, PostAnswerLost(w)
      PROVE  EvidenceInv'
  <2>1. pc[w] # "idle" /\ (\E label : pc' = [pc EXCEPT ![w] = label])
    BY <1>9 DEF PostAnswerLost, Ends, PostLabels, callerVars
  <2>2. Evidence(w)'
    BY <1>9, <2>1, WorkerEvidence, RegistryIsSome
       DEF PostAnswerLost, Ends, PostLabels, callerVars, Evidence, TypeOK
  <2>. QED
    BY <2>1, <2>2, OthersIdle
<1>10. ASSUME NEW w \in Callers, WaitCancelled(w)
      PROVE  EvidenceInv'
  <2>1. pc[w] # "idle" /\ (\E label : pc' = [pc EXCEPT ![w] = label])
    BY <1>10 DEF WaitCancelled, Waits, WaitLabels, Ends, Progress, callerVars
  <2>2. Evidence(w)'
    BY <1>10, <2>1, WorkerEvidence, RegistryIsSome
       DEF WaitCancelled, Waits, WaitLabels, Ends, Progress, callerVars, Evidence, TypeOK
  <2>. QED
    BY <2>1, <2>2, OthersIdle
<1>11. ASSUME NEW w \in Callers, WaitFailed(w)
      PROVE  EvidenceInv'
  <2>1. pc[w] # "idle" /\ (\E label : pc' = [pc EXCEPT ![w] = label])
    BY <1>11 DEF WaitFailed, Waits, WaitLabels, ReadsAndEnds, Progress, callerVars
  <2>2. Evidence(w)'
    BY <1>11, <2>1, WorkerEvidence, RegistryIsSome
       DEF WaitFailed, Waits, WaitLabels, ReadsAndEnds, Progress, callerVars, Evidence, TypeOK
  <2>. QED
    BY <2>1, <2>2, OthersIdle
<1>12. ASSUME NEW w \in Callers, WaitReached(w)
      PROVE  EvidenceInv'
  <2>1. pc[w] # "idle" /\ (\E label : pc' = [pc EXCEPT ![w] = label])
    BY <1>12 DEF WaitReached, Waits, WaitLabels, Reads, ReadsAndEnds, Progress, At, Outcome, TargetKept, Reached, Awaited, SwitchesSource, Shows, Loading, Unloaded, IsRunning, Ready, Serves, HasFailed, Kinds, Calls, callerVars
  <2>2. Evidence(w)'
    BY <1>12, <2>1, WorkerEvidence, RegistryIsSome
       DEF WaitReached, Waits, WaitLabels, Reads, ReadsAndEnds, Progress, At, Outcome, TargetKept, Reached, Awaited, SwitchesSource, Shows, Loading, Unloaded, IsRunning, Ready, Serves, HasFailed, Kinds, Calls, callerVars, Evidence, TypeOK
  <2>. QED
    BY <2>1, <2>2, OthersIdle
<1>13. ASSUME NEW w \in Callers, WaitGoesOn(w)
      PROVE  EvidenceInv'
  <2>1. pc[w] # "idle" /\ (\E label : pc' = [pc EXCEPT ![w] = label])
    BY <1>13 DEF WaitGoesOn, Waits, WaitLabels, Reads, Progress, callerVars
  <2>2. Evidence(w)'
    BY <1>13, <2>1, WorkerEvidence, RegistryIsSome
       DEF WaitGoesOn, Waits, WaitLabels, Reads, Progress, callerVars, Evidence, TypeOK
  <2>. QED
    BY <2>1, <2>2, OthersIdle
<1>14. ASSUME NEW w \in Callers, WaitTimeout(w)
      PROVE  EvidenceInv'
  <2>1. pc[w] # "idle" /\ (\E label : pc' = [pc EXCEPT ![w] = label])
    BY <1>14 DEF WaitTimeout, Waits, WaitLabels, Ends, Progress, callerVars
  <2>2. Evidence(w)'
    BY <1>14, <2>1, WorkerEvidence, RegistryIsSome
       DEF WaitTimeout, Waits, WaitLabels, Ends, Progress, callerVars, Evidence, TypeOK
  <2>. QED
    BY <2>1, <2>2, OthersIdle
<1>15. ASSUME NEW w \in Callers, ReloadEnds(w)
      PROVE  EvidenceInv'
  <2>1. pc[w] # "idle" /\ (\E label : pc' = [pc EXCEPT ![w] = label])
    BY <1>15 DEF ReloadEnds, At, Ends, ReadsAndEnds, Shows, Loading, callerVars
  <2>2. Evidence(w)'
    BY <1>15, <2>1, WorkerEvidence, RegistryIsSome
       DEF ReloadEnds, At, Ends, ReadsAndEnds, Shows, Loading, callerVars, Evidence, TypeOK
  <2>. QED
    BY <2>1, <2>2, OthersIdle
<1>16. ASSUME NEW w \in Callers, Finish(w)
      PROVE  EvidenceInv'
  BY <1>16 DEF Finish, Returns, At, TypeOK, SingleFlight, EvidenceInv, Working
<1>17. ASSUME NEW m \in Models, RouterStep(m)
      PROVE  EvidenceInv'
  BY <1>17 DEF RouterStep, callerVars, EvidenceInv, Working
<1>18. CASE UNCHANGED vars
  BY <1>18 DEF vars, callerVars, EvidenceInv, Working
<1>. QED
  BY <1>1, <1>2, <1>3, <1>4, <1>5, <1>6, <1>7, <1>8, <1>9, <1>10, <1>11, <1>12, <1>13, <1>14, <1>15, <1>16, <1>17, <1>18 DEF Next, CallerStep

(* Only Finish makes the controller succeed, with evidence of its caller. *)
LEMMA SuccessStep ==
  ASSUME TypeOK, SingleFlight, EvidenceInv, SuccessIsObserved, [Next]_vars
  PROVE  SuccessIsObserved'
<1>1. ASSUME NEW w \in Callers, NEW c \in Callable, Begin(w, c)
      PROVE  SuccessIsObserved'
  BY <1>1 DEF Begin, SuccessIsObserved
<1>2. ASSUME NEW w \in Callers, CallerStep(w), ~Finish(w)
      PROVE  SuccessIsObserved'
  <2>1. pc[w] # "idle"
    BY <1>2 DEF CallerStep, SeesCancel, ChecksCancel, DiscoverFails, DiscoverSatisfied,
       DiscoverNeeded, PostAccepted, PostRefused, PostAnswerLost, PostLabels,
       WaitCancelled, WaitFailed, WaitReached, WaitGoesOn, WaitTimeout, Waits,
       WaitLabels, ReloadEnds, At
  <2>2. Progress(status) \/ UNCHANGED controller
    BY <1>2 DEF CallerStep, SeesCancel, ChecksCancel, DiscoverFails, DiscoverSatisfied,
       DiscoverNeeded, PostAccepted, PostRefused, PostAnswerLost,
       WaitCancelled, WaitFailed, WaitReached, WaitGoesOn, WaitTimeout,
       ReloadEnds, callerVars
  <2>3. controller'.state = "Running"
    BY <2>1, <2>2, WorkerEvidence DEF Progress, TypeOK
  <2>. QED
    BY <2>3 DEF SuccessIsObserved
<1>3. ASSUME NEW w \in Callers, Finish(w)
      PROVE  SuccessIsObserved'
  <2>1. Evidence(w) /\ pc[w] = "finish"
    BY <1>3, WorkerEvidence DEF Finish, At
  <2>2. CASE result[w] = "ok"
    BY <1>3, <2>1, <2>2 DEF Finish, Evidence, SuccessIsObserved, Shows
  <2>3. CASE result[w] # "ok"
    BY <1>3, <2>3 DEF Finish, TypeOK, SuccessIsObserved
  <2>. QED
    BY <2>2, <2>3
<1>4. ASSUME UNCHANGED controller
      PROVE  SuccessIsObserved'
  BY <1>4 DEF SuccessIsObserved
<1>. QED
  BY <1>1, <1>2, <1>3, <1>4
     DEF Next, Cancel, RouterStep, vars

-----------------------------------------------------------------------------
(* Theorems                                                                *)

LEMMA NextInv == OperationsInv /\ [Next]_vars => OperationsInv'
  BY TypeStep, FlightStep, EvidenceStep, SuccessStep DEF OperationsInv

LEMMA InvCorrect == Spec => []OperationsInv
<1>. QED
  BY InitInv, NextInv, PTL DEF Spec

(* The variables keep their types. *)
THEOREM TypeCorrect == Spec => []TypeOK
<1>1. OperationsInv => TypeOK
  BY DEF OperationsInv
<1>. QED
  BY <1>1, InvCorrect, PTL

(* However many threads share the controller, one operation runs at a time *)
(* and the controller says Running exactly while it does: begin and        *)
(* finish_success or finish_failure of router_operations.rs bracket it.    *)
THEOREM FlightCorrect == Spec => []SingleFlight
<1>1. OperationsInv => SingleFlight
  BY DEF OperationsInv
<1>. QED
  BY <1>1, InvCorrect, PTL

(* What the operations know of the router when they act and report. *)
THEOREM EvidenceCorrect == Spec => []EvidenceInv
<1>1. OperationsInv => EvidenceInv
  BY DEF OperationsInv
<1>. QED
  BY <1>1, InvCorrect, PTL

(* switch_model requests the unload of its source only for a target that   *)
(* the last registry showed ready.                                         *)
THEOREM SourceCorrect == Spec => []SourceGivenForReadyTarget
<1>1. OperationsInv => SourceGivenForReadyTarget
  BY DEF OperationsInv, EvidenceInv, SourceGivenForReadyTarget, Working, At
<1>. QED
  BY <1>1, InvCorrect, PTL

(* The evidence of a success shows what was asked for, whatever answers    *)
(* were lost and whoever else uses the router.                             *)
THEOREM SuccessCorrect == Spec => []SuccessIsObserved
<1>1. OperationsInv => SuccessIsObserved
  BY DEF OperationsInv
<1>. QED
  BY <1>1, InvCorrect, PTL

(* An operation of the shared controller begins when none runs, and ends   *)
(* with an outcome.                                                        *)
LEMMA NextImplements ==
  ASSUME TypeOK, SingleFlight, EvidenceInv, [Next]_vars
  PROVE  [Controller!Step]_(controller.state)
<1>. USE DEF Controller!Step, Controller!Begins, Controller!Ends,
             Controller!Outcomes
<1>1. ASSUME NEW w \in Callers, NEW c \in Callable, Begin(w, c)
      PROVE  Controller!Begins
  BY <1>1 DEF Begin
<1>2. ASSUME NEW w \in Callers, CallerStep(w), ~Finish(w)
      PROVE  UNCHANGED controller.state
  <2>1. Progress(status) \/ UNCHANGED controller
    BY <1>2 DEF CallerStep, SeesCancel, ChecksCancel, DiscoverFails, DiscoverSatisfied,
       DiscoverNeeded, PostAccepted, PostRefused, PostAnswerLost,
       WaitCancelled, WaitFailed, WaitReached, WaitGoesOn, WaitTimeout,
       ReloadEnds, callerVars
  <2>. QED
    BY <2>1 DEF Progress, TypeOK
<1>3. ASSUME NEW w \in Callers, Finish(w)
      PROVE  Controller!Ends
  <2>1. controller.state = "Running"
    BY <1>3, WorkerEvidence DEF Finish, At
  <2>2. controller'.state \in {"Succeeded", "Failed", "Cancelled"}
    BY <1>3 DEF Finish, TypeOK
  <2>. QED
    BY <2>1, <2>2
<1>. QED
  BY <1>1, <1>2, <1>3 DEF Next, Cancel, RouterStep, vars

(***************************************************************************)
(* The callers, the cancellations and the lost answers together keep what  *)
(* OperationController promises: RouterControl may be built on it.         *)
(***************************************************************************)
THEOREM Implements == Spec => ImplementsController
<1>1. Init => Controller!Idle
  BY DEF Init, Controller!Idle
<1>2. OperationsInv /\ [Next]_vars => [Controller!Step]_(controller.state)
  BY NextImplements DEF OperationsInv
<1>. QED
  BY <1>1, <1>2, InvCorrect, PTL
     DEF Spec, ImplementsController, Controller!Spec

-----------------------------------------------------------------------------
(* The values of a round trip                                              *)

\* What the record of each leg says, when the leg was completed.
Leg1 == [target |-> B, history |-> 0, final |-> Clear("ready")]
Leg2 == [target |-> A, history |-> 1, final |-> Clear("ready")]

BegunLegs == {<<>>, <<Leg1>>}
DoneLegs == <<Leg1, Leg2>>

Recoveries ==
  {r \in [recovered : BOOLEAN, last : Statuses \cup {None}] :
     r.recovered => r.last = Clear("ready")}

Trips ==
  [step : {"idle", "setup", "baselineUnload", "baselineLoad", "unload", "load",
           "readiness", "firstToken", "recovery", "ended"},
   loads : [Models -> Nat], history : Nat, final : Statuses \cup {None},
   legs : BegunLegs \cup {DoneLegs},
   outcome : {None, "baseline", "leg", "succeeded"},
   recovery : Recoveries \cup {None}]

\* What a run that ended looks like.
TrueRun(run) ==
  \/ run.outcome = "succeeded" /\ run.legs = DoneLegs /\ run.recovery = None
  \/ run.outcome = "baseline" /\ run.legs = <<>>
  \/ run.outcome = "leg" /\ run.legs \in BegunLegs /\ run.recovery # None

Runs ==
  {run \in [outcome : {"baseline", "leg", "succeeded"},
            legs : BegunLegs \cup {DoneLegs},
            recovery : Recoveries \cup {None}] : TrueRun(run)}

(***************************************************************************)
(* What each step of the trip has made of it.  The loads of a model are    *)
(* those of the baseline and of the legs before, which is what the history *)
(* of a leg is taken from.                                                 *)
(***************************************************************************)
Underway(t) == t.outcome = None /\ t.recovery = None

TripInv ==
  /\ trip \in Trips
  /\ trip.step = "idle" => trip = NotStarted
  /\ trip.step \in {"setup", "baselineUnload", "baselineLoad"} =>
       /\ Underway(trip) /\ trip.legs = <<>>
       /\ \A m \in Models : trip.loads[m] = 0
  /\ trip.step \in {"unload", "load"} =>
       /\ Underway(trip) /\ trip.legs \in BegunLegs
       /\ trip.loads[A] = 1 /\ trip.loads[B] = Len(trip.legs)
  /\ trip.step \in {"readiness", "firstToken"} =>
       /\ Underway(trip) /\ trip.legs \in BegunLegs
       /\ trip.loads[A] = Len(trip.legs) + 1 /\ trip.loads[B] = 1
  /\ trip.step \in {"load", "readiness", "firstToken"} =>
       trip.history = Len(trip.legs)
  /\ trip.step = "firstToken" => trip.final = Clear("ready")
  /\ trip.step = "recovery" =>
       /\ trip.legs \in BegunLegs /\ trip.recovery = None
       /\ \/ trip.outcome = "leg"
          \/ trip.outcome = "baseline" /\ trip.legs = <<>>
  /\ trip.step = "ended" => TrueRun(trip)

\* The thread works through an operation only in the steps that call one.
ThreadInv == pc[Thread] # "idle" => trip.step \in CallSteps

BenchmarkInv == OperationsInv /\ TripInv /\ ThreadInv /\ stored \in Seq(Runs)

LEMMA Apart == A \in Models /\ B \in Models /\ A # B /\ None \notin Models
  BY BenchmarkAssumption, OperationsAssumption
  DEF BenchmarkAssumption, OperationsAssumption

\* The leg under way, as long as the trip is not over.
LEMMA LegOf ==
  ASSUME trip.legs \in BegunLegs
  PROVE  \/ /\ trip.legs = <<>> /\ Len(trip.legs) = 0
            /\ Leg.source = A /\ Leg.target = B
         \/ /\ trip.legs = <<Leg1>> /\ Len(trip.legs) = 1
            /\ Leg.source = B /\ Leg.target = A
<1>1. CASE trip.legs = <<>>
  <2>1. Leg = Trip[1]
    BY <1>1 DEF Leg
  <2>2. Leg.source = A /\ Leg.target = B
    BY <2>1 DEF Trip
  <2>. QED
    BY <1>1, <2>2
<1>2. CASE trip.legs = <<Leg1>>
  <2>1. Leg = Trip[2]
    BY <1>2 DEF Leg
  <2>2. Leg.source = B /\ Leg.target = A
    BY <2>1 DEF Trip
  <2>. QED
    BY <1>2, <2>2
<1>. QED
  BY <1>1, <1>2 DEF BegunLegs

LEMMA LegsApart == <<>> # <<Leg1>>
  OBVIOUS

LEMMA PairAppended ==
  ASSUME NEW x, NEW y PROVE Append(<<x>>, y) = <<x, y>>
<1>. DEFINE S == {x, y}
            s == Append(<<x>>, y)
            t == <<x, y>>
<1>1. s \in Seq(S) /\ t \in Seq(S) /\ Len(s) = 2 /\ Len(t) = 2
  OBVIOUS
<1>2. s[1] = t[1] /\ s[2] = t[2]
  OBVIOUS
<1>. HIDE DEF S, s, t
<1>3. \A i \in 1 .. Len(s) : s[i] = t[i]
  BY <1>1, <1>2
<1>4. s = t
  BY <1>1, <1>3, SeqEqual
<1>. QED
  BY <1>4 DEF s, t

LEMMA NotStartedFields ==
  /\ NotStarted \in Trips
  /\ NotStarted.step = "idle" /\ NotStarted.legs = <<>>
  /\ NotStarted.outcome = None /\ NotStarted.recovery = None
  /\ \A m \in Models : NotStarted.loads[m] = 0
  BY DEF NotStarted, Trips, BegunLegs

LEMMA InitBenchmark == BenchmarkInit => BenchmarkInv
<1>. SUFFICES ASSUME BenchmarkInit PROVE BenchmarkInv
  OBVIOUS
<1>1. OperationsInv
  BY InitInv DEF BenchmarkInit
<1>2. TripInv
  <2>1. trip = NotStarted
    BY DEF BenchmarkInit
  <2>. QED
    BY <2>1, NotStartedFields DEF TripInv
<1>3. stored \in Seq(Runs)
  BY DEF BenchmarkInit
<1>4. ThreadInv
  BY BenchmarkAssumption
  DEF BenchmarkAssumption, BenchmarkInit, Init, ThreadInv
<1>. QED
  BY <1>1, <1>2, <1>3, <1>4 DEF BenchmarkInv

-----------------------------------------------------------------------------
(* The thread is a caller of the controller, and no more                   *)

LEMMA AskedIsCallable ==
  ASSUME TripInv, trip.step \in CallSteps
  PROVE  Asked(trip.step) \in Callable
<1>1. /\ \A m \in Models : Unloads(m) \in Callable
      /\ \A m \in Models : Loads(m) \in Callable
  BY Apart DEF Unloads, Loads, Callable, Calls, Kinds, Loading
<1>2. trip.step \in {"unload", "load"} => Leg.source \in Models /\ Leg.target \in Models
  BY LegOf, Apart DEF TripInv
<1>. QED
  BY <1>1, <1>2, Apart DEF Asked, CallSteps

\* A request that makes the router load a model is what another client's
\* request does.
LEMMA LoadIsRouterStep ==
  ASSUME OperationsInv, NEW m \in Models, LoadAccepted(m),
         UNCHANGED <<controller, callerVars, cancelled, calls>>
  PROVE  RouterStep(m) \/ UNCHANGED vars
<1>. status \in [Models -> Statuses]
  BY DEF OperationsInv, TypeOK, Registries
<1>1. CASE status[m].phase = "ready"
  BY <1>1 DEF LoadAccepted, Ready, vars
<1>2. CASE status[m].phase # "ready"
  BY <1>2 DEF LoadAccepted, Ready, RouterStep, RouterMoves
<1>. QED
  BY <1>1, <1>2

LEMMA BenchmarkRefines ==
  ASSUME OperationsInv, TripInv, [BenchmarkNext]_allVars
  PROVE  [Next]_vars
<1>1. Thread \in Callers
  BY BenchmarkAssumption DEF BenchmarkAssumption
<1>2. CASE Call
  <2>1. Asked(trip.step) \in Callable
    BY <1>2, AskedIsCallable DEF Call
  <2>. QED
    BY <1>1, <1>2, <2>1 DEF Call, Next
<1>3. CASE Operate
  BY <1>1, <1>3 DEF Operate, Next
<1>4. CASE Return
  BY <1>1, <1>4 DEF Return, Next, CallerStep
<1>5. CASE Token
  <2>1. Leg.target \in Models
    BY <1>5, LegOf, Apart DEF Token, TripInv
  <2>2. CASE UNCHANGED status
    BY <1>5, <2>2 DEF Token, vars
  <2>3. CASE LoadAccepted(Leg.target)
    BY <1>5, <2>1, <2>3, LoadIsRouterStep DEF Token, Next
  <2>. QED
    BY <1>5, <2>2, <2>3 DEF Token
<1>6. CASE World
  BY <1>6 DEF World, Next
<1>7. CASE UNCHANGED vars
  BY <1>7
<1>. QED
  BY <1>2, <1>3, <1>4, <1>5, <1>6, <1>7
  DEF BenchmarkNext, Bench, Start, Prepare, Confirm, Store, allVars

-----------------------------------------------------------------------------
(* The steps of the trip                                                   *)

\* What a failure makes of a trip under way.
LEMMA FailsInv ==
  ASSUME TripInv, trip' = Fails, Underway(trip), trip.legs \in BegunLegs,
         trip.step \in {"setup", "baselineUnload", "baselineLoad"} =>
           trip.legs = <<>>
  PROVE  TripInv'
<1>1. /\ trip' \in Trips
      /\ trip'.step = "recovery" /\ trip'.outcome = Phase(trip.step)
      /\ trip'.legs = trip.legs /\ trip'.recovery = None
  BY NotStartedFields DEF Fails, Phase, Trips, Underway
<1>2. \/ Phase(trip.step) = "leg"
      \/ Phase(trip.step) = "baseline" /\ trip.legs = <<>>
  BY DEF Phase
<1>. QED
  BY <1>1, <1>2 DEF TripInv

LEMMA StartInv == ASSUME TripInv, Start PROVE TripInv'
<1>1. trip' = [NotStarted EXCEPT !.step = "setup"]
  BY DEF Start
<1>2. /\ trip' \in Trips
      /\ trip'.step = "setup" /\ trip'.legs = <<>> /\ Underway(trip')
      /\ trip'.loads = NotStarted.loads
  BY <1>1, NotStartedFields DEF Trips, Underway
<1>. QED
  BY <1>2, NotStartedFields DEF TripInv, Underway

LEMMA PrepareInv == ASSUME TripInv, Prepare PROVE TripInv'
<1>1. /\ trip.step = "setup" /\ trip \in Trips
      /\ Underway(trip) /\ trip.legs = <<>>
      /\ \A m \in Models : trip.loads[m] = 0
  BY DEF Prepare, TripInv
<1>2. CASE trip' = [trip EXCEPT !.step = "baselineUnload"]
  <2>1. /\ trip' \in Trips /\ trip'.step = "baselineUnload"
        /\ trip'.legs = <<>> /\ trip'.loads = trip.loads
        /\ trip'.outcome = None /\ trip'.recovery = None
    BY <1>1, <1>2 DEF Trips, Underway
  <2>. QED
    BY <1>1, <2>1 DEF TripInv, Underway
<1>3. CASE trip' = [trip EXCEPT !.step = "ended", !.outcome = Phase("setup")]
  <2>1. /\ trip' \in Trips /\ trip'.step = "ended"
        /\ trip'.legs = <<>> /\ trip'.outcome = "baseline"
    BY <1>1, <1>3 DEF Trips, Phase
  <2>. QED
    BY <2>1 DEF TripInv, TrueRun
<1>. QED
  BY <1>2, <1>3 DEF Prepare

LEMMA SucceedsInv ==
  ASSUME TripInv, trip.step \in CallSteps \ {"recovery"}, trip' = Succeeds
  PROVE  TripInv'
<1>. USE Apart
<1>1. trip \in Trips /\ Underway(trip) /\ trip.legs \in BegunLegs
  BY DEF TripInv, CallSteps, BegunLegs
<1>2. CASE trip.step = "baselineUnload"
  <2>1. /\ trip' \in Trips /\ trip'.step = "baselineLoad"
        /\ trip'.legs = trip.legs /\ trip'.loads = trip.loads
        /\ trip'.outcome = None /\ trip'.recovery = None
    BY <1>1, <1>2 DEF Succeeds, Trips, Underway
  <2>. QED
    BY <1>2, <2>1 DEF TripInv, Underway
<1>3. CASE trip.step = "baselineLoad"
  <2>1. trip' = [trip EXCEPT !.step = "unload", !.loads[A] = 1]
    BY <1>3 DEF Succeeds
  <2>2. /\ trip' \in Trips /\ trip'.step = "unload"
        /\ trip'.legs = trip.legs
        /\ trip'.loads = [trip.loads EXCEPT ![A] = 1]
        /\ trip'.outcome = None /\ trip'.recovery = None
    <3>. DEFINE loads == [trip.loads EXCEPT ![A] = 1]
    <3>1. loads \in [Models -> Nat]
      BY <1>1 DEF Trips
    <3>2. trip' = [trip EXCEPT !.step = "unload", !.loads = loads]
      BY <1>1, <2>1 DEF Trips
    <3>. HIDE DEF loads
    <3>3. /\ trip' \in Trips /\ trip'.step = "unload"
          /\ trip'.legs = trip.legs /\ trip'.loads = loads
          /\ trip'.outcome = None /\ trip'.recovery = None
      BY <1>1, <3>1, <3>2 DEF Trips, Underway
    <3>. QED
      BY <3>3 DEF loads
  <2>3. trip.legs = <<>> /\ trip.loads[B] = 0 /\ trip.loads \in [Models -> Nat]
    BY <1>1, <1>3 DEF TripInv, Trips
  <2>4. trip'.loads[A] = 1 /\ trip'.loads[B] = 0
    BY <2>2, <2>3
  <2>. QED
    BY <1>1, <2>2, <2>3, <2>4 DEF TripInv, Underway
<1>4. CASE trip.step = "unload"
  <2>1. trip' = [trip EXCEPT !.step = "load", !.history = trip.loads[Leg.target]]
    BY <1>4 DEF Succeeds
  <2>2. /\ trip.loads[A] = 1 /\ trip.loads[B] = Len(trip.legs)
        /\ Len(trip.legs) \in {0, 1}
    BY <1>1, <1>4, LegOf DEF TripInv
  <2>3. trip.loads[Leg.target] = Len(trip.legs)
    BY <1>1, <2>2, LegOf
  <2>4. /\ trip' \in Trips /\ trip'.step = "load"
        /\ trip'.legs = trip.legs /\ trip'.loads = trip.loads
        /\ trip'.history = Len(trip.legs)
        /\ trip'.outcome = None /\ trip'.recovery = None
    <3>. DEFINE n == Len(trip.legs)
    <3>1. n \in Nat /\ trip' = [trip EXCEPT !.step = "load", !.history = n]
      BY <2>1, <2>2, <2>3
    <3>. HIDE DEF n
    <3>2. /\ trip' \in Trips /\ trip'.step = "load"
          /\ trip'.legs = trip.legs /\ trip'.loads = trip.loads
          /\ trip'.history = n
          /\ trip'.outcome = None /\ trip'.recovery = None
      BY <1>1, <3>1 DEF Trips, Underway
    <3>. QED
      BY <3>2 DEF n
  <2>. QED
    BY <1>1, <2>2, <2>4 DEF TripInv, Underway
<1>5. CASE trip.step = "load"
  <2>1. trip' = [trip EXCEPT !.step = "readiness", !.loads = Counted(Leg.target)]
    BY <1>5 DEF Succeeds
  <2>2. /\ trip.loads[A] = 1 /\ trip.loads[B] = Len(trip.legs)
        /\ trip.loads \in [Models -> Nat]
        /\ trip.history = Len(trip.legs)
    BY <1>1, <1>5 DEF TripInv, Trips
  <2>3. /\ Counted(Leg.target) \in [Models -> Nat]
        /\ Counted(Leg.target)[A] = Len(trip.legs) + 1
        /\ Counted(Leg.target)[B] = 1
    <3>1. CASE Leg.target = B /\ Len(trip.legs) = 0
      BY <2>2, <3>1 DEF Counted
    <3>2. CASE Leg.target = A /\ Len(trip.legs) = 1
      BY <2>2, <3>2 DEF Counted
    <3>. QED
      BY <1>1, <3>1, <3>2, LegOf
  <2>4. /\ trip' \in Trips /\ trip'.step = "readiness"
        /\ trip'.legs = trip.legs /\ trip'.loads = Counted(Leg.target)
        /\ trip'.history = trip.history
        /\ trip'.outcome = None /\ trip'.recovery = None
    BY <1>1, <2>1, <2>3 DEF Trips, Underway
  <2>. QED
    BY <1>1, <2>2, <2>3, <2>4 DEF TripInv, Underway
<1>. QED
  BY <1>2, <1>3, <1>4, <1>5 DEF CallSteps

\* The registry that recover_a keeps is one the router has answered with.
LEMMA RecoveredInv ==
  ASSUME OperationsInv, TripInv, trip.step = "recovery", Finish(Thread),
         NEW last \in IF result[Thread] = "ok" THEN {registry[Thread][A]}
                      ELSE {None, status[A]},
         trip' = Recovered(last)
  PROVE  TripInv'
<1>1. Thread \in Callers /\ A \in Models
  BY Apart, BenchmarkAssumption DEF BenchmarkAssumption
<1>2. last \in Statuses \cup {None}
  <2>1. CASE result[Thread] = "ok"
    <3>1. registry[Thread] # None
      <4>1. Thread \in Working /\ pc[Thread] = "finish"
        BY <1>1 DEF Finish, At, Working
      <4>. QED
        BY <2>1, <4>1 DEF OperationsInv, EvidenceInv, Shows
    <3>2. registry[Thread] \in Registries
      BY <1>1, <3>1 DEF OperationsInv, TypeOK
    <3>. QED
      BY <1>1, <2>1, <3>2 DEF Registries
  <2>2. CASE result[Thread] # "ok"
    BY <1>1, <2>2 DEF OperationsInv, TypeOK, Registries
  <2>. QED
    BY <2>1, <2>2
<1>. DEFINE recovery ==
       [recovered |-> result[Thread] = "ok" /\ last = Clear("ready"), last |-> last]
<1>3. recovery \in Recoveries
  BY <1>2 DEF Recoveries
<1>4. trip \in Trips
  BY DEF TripInv
<1>5. /\ trip' \in Trips /\ trip'.step = "ended"
      /\ trip'.legs = trip.legs /\ trip'.outcome = trip.outcome
      /\ trip'.recovery = recovery
  <2>. HIDE DEF recovery
  <2>1. trip' = [trip EXCEPT !.step = "ended", !.recovery = recovery]
    BY DEF Recovered, recovery
  <2>. QED
    BY <1>3, <1>4, <2>1 DEF Trips
<1>6. recovery # None
  BY <1>3, BenchmarkAssumption DEF BenchmarkAssumption, Recoveries
<1>7. /\ trip.legs \in BegunLegs
      /\ \/ trip.outcome = "leg"
         \/ trip.outcome = "baseline" /\ trip.legs = <<>>
  BY DEF TripInv
<1>. HIDE DEF recovery
<1>. QED
  BY <1>5, <1>6, <1>7 DEF TripInv, TrueRun

LEMMA ReturnInv == ASSUME OperationsInv, TripInv, ThreadInv, Return PROVE TripInv'
<1>1. CASE trip.step = "recovery"
  BY <1>1, RecoveredInv DEF Return
<1>2. CASE trip.step # "recovery"
  <2>1. trip.step \in CallSteps \ {"recovery"}
    BY <1>2 DEF Return, Finish, At, ThreadInv
  <2>2. CASE trip' = Succeeds
    BY <2>1, <2>2, SucceedsInv
  <2>3. CASE trip' = Fails
    <3>1. Underway(trip) /\ trip.legs \in BegunLegs
      BY <2>1 DEF TripInv, CallSteps, BegunLegs
    <3>2. trip.step \in {"setup", "baselineUnload", "baselineLoad"} =>
            trip.legs = <<>>
      BY DEF TripInv
    <3>. QED
      BY <2>3, <3>1, <3>2, FailsInv
  <2>. QED
    BY <1>2, <2>2, <2>3 DEF Return
<1>. QED
  BY <1>1, <1>2

LEMMA ConfirmInv == ASSUME OperationsInv, TripInv, Confirm PROVE TripInv'
<1>1. /\ trip.step = "readiness" /\ trip \in Trips
      /\ Underway(trip) /\ trip.legs \in BegunLegs
  BY DEF Confirm, TripInv
<1>2. CASE trip' = Fails
  BY <1>1, <1>2, FailsInv
<1>3. CASE /\ Serves(status, Leg.target)
           /\ trip' = [trip EXCEPT !.step = "firstToken",
                                   !.final = status[Leg.target]]
  <2>1. status[Leg.target] = Clear("ready")
    <3>1. status[Leg.target] \in Statuses
      BY <1>1, LegOf, Apart DEF OperationsInv, TypeOK, Registries, TripInv
    <3>2. \A s \in Statuses : s.phase = "ready" /\ ~s.failed => s = Clear("ready")
      BY DEF Clear, Statuses
    <3>. QED
      BY <1>3, <3>1, <3>2 DEF Serves, Ready, HasFailed
  <2>2. /\ trip' \in Trips /\ trip'.step = "firstToken"
        /\ trip'.final = Clear("ready") /\ trip'.history = trip.history
        /\ trip'.legs = trip.legs /\ trip'.loads = trip.loads
        /\ trip'.outcome = None /\ trip'.recovery = None
    BY <1>1, <1>3, <2>1, ClearType DEF Trips, Underway
  <2>. QED
    BY <1>1, <2>2 DEF TripInv, Underway
<1>. QED
  BY <1>2, <1>3 DEF Confirm

LEMMA TokenInv == ASSUME TripInv, Token PROVE TripInv'
<1>1. /\ trip.step = "firstToken" /\ trip \in Trips
      /\ Underway(trip) /\ trip.legs \in BegunLegs
      /\ trip.final = Clear("ready") /\ trip.history = Len(trip.legs)
      /\ trip.loads[A] = Len(trip.legs) + 1 /\ trip.loads[B] = 1
  BY DEF Token, TripInv
<1>2. CASE trip' = Fails
  BY <1>1, <1>2, FailsInv
<1>. DEFINE last == Len(trip.legs) + 1 = Len(Trip)
            legs == Append(trip.legs,
                           [target |-> Leg.target, history |-> trip.history,
                            final |-> trip.final])
<1>3. CASE trip' = [trip EXCEPT !.legs = legs, !.final = None, !.history = 0,
                                !.step = IF last THEN "ended" ELSE "unload",
                                !.outcome = IF last THEN "succeeded" ELSE None]
  <2>1. Len(Trip) = 2
    BY DEF Trip
  <2>2. CASE trip.legs = <<>>
    <3>1. legs = <<Leg1>> /\ Len(legs) = 1 /\ ~last
      BY <1>1, <2>1, <2>2, LegOf DEF Leg1
    <3>. HIDE DEF legs, last
    <3>2. /\ trip' \in Trips /\ trip'.step = "unload"
          /\ trip'.legs = legs /\ trip'.loads = trip.loads
          /\ trip'.outcome = None /\ trip'.recovery = None
      BY <1>1, <1>3, <3>1 DEF Trips, BegunLegs, Underway
    <3>. QED
      BY <1>1, <2>2, <3>1, <3>2 DEF TripInv, Underway, BegunLegs
  <2>3. CASE trip.legs = <<Leg1>>
    <3>1. legs = DoneLegs /\ last
      <4>1. Leg.target = A /\ trip.history = 1 /\ Len(trip.legs) = 1
        BY <1>1, <2>3, LegOf, LegsApart
      <4>2. legs = Append(<<Leg1>>, Leg2)
        BY <1>1, <2>3, <4>1 DEF Leg2
      <4>3. Append(<<Leg1>>, Leg2) = <<Leg1, Leg2>>
        BY PairAppended
      <4>4. legs = DoneLegs
        BY <4>2, <4>3 DEF DoneLegs
      <4>. HIDE DEF legs
      <4>. QED
        BY <2>1, <4>1, <4>4
    <3>. HIDE DEF legs, last
    <3>2. /\ trip' \in Trips /\ trip'.step = "ended"
          /\ trip'.legs = DoneLegs
          /\ trip'.outcome = "succeeded" /\ trip'.recovery = None
      BY <1>1, <1>3, <3>1 DEF Trips, Underway
    <3>. QED
      BY <3>2 DEF TripInv, TrueRun
  <2>. QED
    BY <1>1, <2>2, <2>3 DEF BegunLegs
<1>. QED
  BY <1>2, <1>3 DEF Token

\* Only a run that says what happened is stored.
LEMMA StoreInv ==
  ASSUME TripInv, stored \in Seq(Runs), Store
  PROVE  TripInv' /\ stored' \in Seq(Runs)
<1>1. trip' = NotStarted
  BY DEF Store
<1>2. TripInv'
  BY <1>1, NotStartedFields DEF TripInv
<1>. DEFINE run == [outcome |-> trip.outcome, legs |-> trip.legs,
                    recovery |-> trip.recovery]
<1>3. run \in Runs
  <2>1. TrueRun(trip) /\ trip \in Trips
    BY DEF Store, TripInv
  <2>2. trip.outcome \in {"baseline", "leg", "succeeded"}
    BY <2>1 DEF TrueRun
  <2>. QED
    BY <2>1, <2>2 DEF Runs, Trips, TrueRun
<1>4. stored' \in Seq(Runs)
  <2>. HIDE DEF run
  <2>1. stored' = Append(stored, run) \/ stored' = stored
    BY DEF Store, run
  <2>. QED
    BY <1>3, <2>1, AppendProperties
<1>. QED
  BY <1>2, <1>4

LEMMA ThreadStep ==
  ASSUME OperationsInv, ThreadInv, [BenchmarkNext]_allVars
  PROVE  ThreadInv'
<1>1. Thread \in Callers /\ pc \in [Callers -> Labels]
  BY BenchmarkAssumption DEF BenchmarkAssumption, OperationsInv, TypeOK
<1>2. CASE Call
  BY <1>2 DEF Call, ThreadInv
<1>3. CASE Operate
  <2>1. pc[Thread] # "idle"
    BY <1>3 DEF Operate, CallerStep, SeesCancel, ChecksCancel, DiscoverFails,
       DiscoverSatisfied, DiscoverNeeded, PostAccepted, PostRefused,
       PostAnswerLost, PostLabels, WaitCancelled, WaitFailed, WaitReached,
       WaitGoesOn, WaitTimeout, Waits, WaitLabels, ReloadEnds, Finish, At
  <2>. QED
    BY <1>3, <2>1 DEF Operate, ThreadInv
<1>4. CASE Return
  BY <1>1, <1>4 DEF Return, Finish, Returns, ThreadInv
<1>5. CASE UNCHANGED pc /\ trip.step \notin CallSteps
  BY <1>5 DEF ThreadInv
<1>6. CASE UNCHANGED <<pc, trip>>
  BY <1>6 DEF ThreadInv
<1>. QED
  BY <1>2, <1>3, <1>4, <1>5, <1>6
  DEF BenchmarkNext, Bench, Start, Prepare, Confirm, Token, Store, World,
      RouterStep, CallSteps, callerVars, vars, allVars

LEMMA NextBenchmark == BenchmarkInv /\ [BenchmarkNext]_allVars => BenchmarkInv'
<1>. SUFFICES ASSUME BenchmarkInv, [BenchmarkNext]_allVars PROVE BenchmarkInv'
  OBVIOUS
<1>. USE DEF BenchmarkInv
<1>1. OperationsInv'
  BY BenchmarkRefines, NextInv
<1>2. ThreadInv'
  BY ThreadStep
<1>3. TripInv' /\ stored' \in Seq(Runs)
  <2>1. CASE Store
    BY <2>1, StoreInv
  <2>2. CASE Start
    BY <2>2, StartInv DEF Start
  <2>3. CASE Prepare
    BY <2>3, PrepareInv DEF Prepare
  <2>4. CASE Return
    BY <2>4, ReturnInv DEF Return
  <2>5. CASE Confirm
    BY <2>5, ConfirmInv DEF Confirm
  <2>6. CASE Token
    BY <2>6, TokenInv DEF Token
  <2>7. CASE UNCHANGED <<trip, stored>>
    BY <2>7 DEF TripInv, Underway, TrueRun
  <2>. QED
    BY <2>1, <2>2, <2>3, <2>4, <2>5, <2>6, <2>7
    DEF BenchmarkNext, Bench, Call, Operate, World, allVars
<1>. QED
  BY <1>1, <1>2, <1>3

LEMMA BenchmarkInvCorrect == BenchmarkSpec => []BenchmarkInv
  BY InitBenchmark, NextBenchmark, PTL DEF BenchmarkSpec

-----------------------------------------------------------------------------
(* Theorems                                                                *)

(***************************************************************************)
(* The benchmark is one of the controller's callers and nothing else: the  *)
(* thread's calls, the requests for a token that make the router load a    *)
(* model and the other clients are steps of RouterOperations, so what is   *)
(* proved of every caller there holds during a round trip.                 *)
(***************************************************************************)
THEOREM RunsAreOperations == BenchmarkSpec => Spec
<1>1. BenchmarkInit => Init
  BY DEF BenchmarkInit
<1>2. BenchmarkInv /\ [BenchmarkNext]_allVars => [Next]_vars
  BY BenchmarkRefines DEF BenchmarkInv
<1>. QED
  BY <1>1, <1>2, BenchmarkInvCorrect, PTL DEF BenchmarkSpec, Spec

(***************************************************************************)
(* The stored record of a round trip says what happened: success is two    *)
(* legs in order, each with its target seen ready and the loads before it  *)
(* counted; a failed leg was followed by a recovery, and recovered means a *)
(* registry that showed A ready (run_switch_round_trip, recover_a).        *)
(***************************************************************************)
THEOREM RunCorrect == BenchmarkSpec => []RunIsWhatItSays
<1>1. BenchmarkInv => RunIsWhatItSays
  <2>. SUFFICES ASSUME stored \in Seq(Runs), NEW i \in DOMAIN stored,
                       NEW run, run = stored[i]
                PROVE  /\ run.outcome = "succeeded" <=> Len(run.legs) = Len(Trip)
                       /\ Compared(run, run) => run.recovery = None
                       /\ \A j \in DOMAIN run.legs :
                            /\ run.legs[j].target = Trip[j].target
                            /\ run.legs[j].history = j - 1
                            /\ run.legs[j].final = Clear("ready")
                       /\ run.outcome = "leg" => run.recovery # None
                       /\ run.recovery # None =>
                            (run.recovery.recovered => run.recovery.last = Clear("ready"))
    BY DEF BenchmarkInv, RunIsWhatItSays
  <2>1. run \in Runs /\ TrueRun(run)
    BY ElementOfSeq DEF Runs
  <2>2. Len(Trip) = 2 /\ Trip[1].target = B /\ Trip[2].target = A
    BY DEF Trip
  <2>3. run.legs \in {<<>>, <<Leg1>>, DoneLegs}
    BY <2>1 DEF Runs, BegunLegs
  <2>4. \A j \in DOMAIN run.legs : /\ run.legs[j].target = Trip[j].target
                                   /\ run.legs[j].history = j - 1
                                   /\ run.legs[j].final = Clear("ready")
    <3>1. CASE run.legs = <<>>
      BY <3>1
    <3>2. CASE run.legs = <<Leg1>>
      BY <2>2, <3>2 DEF Leg1
    <3>3. CASE run.legs = DoneLegs
      BY <2>2, <3>3 DEF DoneLegs, Leg1, Leg2
    <3>. QED
      BY <2>3, <3>1, <3>2, <3>3
  <2>5. run.outcome = "succeeded" <=> Len(run.legs) = Len(Trip)
    <3>1. Len(DoneLegs) = 2
      BY DEF DoneLegs
    <3>2. \A legs \in BegunLegs : Len(legs) # 2
      BY DEF BegunLegs
    <3>. QED
      BY <2>1, <2>2, <3>1, <3>2 DEF TrueRun, BegunLegs
  <2>6. run.recovery # None =>
          (run.recovery.recovered => run.recovery.last = Clear("ready"))
    BY <2>1 DEF Runs, Recoveries
  <2>. QED
    BY <2>1, <2>4, <2>5, <2>6 DEF TrueRun, Compared
<1>. QED
  BY <1>1, BenchmarkInvCorrect, PTL

(***************************************************************************)
(* During a round trip the controller keeps what it promises everyone who  *)
(* shares it, and its successes are observed: no leg rests on a request    *)
(* that was merely accepted.                                               *)
(***************************************************************************)
THEOREM LegsAreObserved ==
  BenchmarkSpec => ImplementsController /\ []SuccessIsObserved
  BY RunsAreOperations, Implements, SuccessCorrect, PTL
=============================================================================
