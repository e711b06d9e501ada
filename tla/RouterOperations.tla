-------------------------- MODULE RouterOperations --------------------------
(***************************************************************************)
(* RouterOperationController (router_operations.rs): the threads that call *)
(* it, the operation it lets through, and the requests that operation      *)
(* sends to a router it does not own.                                      *)
(*                                                                         *)
(* Each step is one exchange with the router or one critical section of    *)
(* the controller's state.  A request can fail without effect, be accepted *)
(* and answered, or be accepted and its answer lost.                       *)
(***************************************************************************)
EXTENDS RouterServer, Naturals

CONSTANTS
  Callers,      \* the threads that share the controller
  None,
  MaxCalls      \* bound: operations that are called

ASSUME OperationsAssumption ==
  /\ None \notin Models \cup Registries
  /\ MaxCalls \in Nat

VARIABLES
  controller,   \* RouterOperationState, its kind and its last registry
  pc,           \* where each caller is
  call,         \* the operation of each caller
  registry,     \* the registry each caller read last
  result,       \* how the operation of each caller ended
  cancelled,    \* the cancellation each caller was given
  calls

callerVars == <<pc, call, registry, result>>
vars == <<status, controller, callerVars, cancelled, calls>>

Kinds == {"ReloadRegistry", "Load", "Preload", "Unload", "Switch"}
Loading == {"Load", "Preload", "Switch"}
States == {"Idle", "Running", "Succeeded", "Failed", "Cancelled"}
Labels == {"idle", "discover", "post", "wait", "postSource", "waitSource",
           "finish"}
Results == {"none", "ok", "error", "cancelled"}

\* Load and Preload have a target, Unload a source, Switch has both.
Calls ==
  [kind : Kinds, source : Models \cup {None}, target : Models \cup {None}]
Callable ==
  {c \in Calls : /\ (c.source # None) <=> c.kind \in {"Unload", "Switch"}
                 /\ (c.target # None) <=> c.kind \in Loading}

NoCall == [kind |-> "ReloadRegistry", source |-> None, target |-> None]

TypeOK ==
  /\ status \in Registries
  /\ controller \in [state : States, call : Calls,
                     registry : Registries \cup {None}]
  /\ pc \in [Callers -> Labels]
  /\ call \in [Callers -> Calls]
  /\ registry \in [Callers -> Registries \cup {None}]
  /\ result \in [Callers -> Results]
  /\ cancelled \in [Callers -> BOOLEAN]
  /\ calls \in 0..MaxCalls

Init ==
  /\ RouterInit
  /\ controller = [state |-> "Idle", call |-> NoCall, registry |-> None]
  /\ pc = [w \in Callers |-> "idle"]
  /\ call = [w \in Callers |-> NoCall]
  /\ registry = [w \in Callers |-> None]
  /\ result = [w \in Callers |-> "none"]
  /\ cancelled = [w \in Callers |-> FALSE]
  /\ calls = 0

-----------------------------------------------------------------------------
(* Steps of a caller                                                       *)

At(w, label) == pc[w] = label

Goto(w, label) ==
  /\ pc' = [pc EXCEPT ![w] = label]
  /\ UNCHANGED <<call, registry, result>>

Ends(w, outcome) ==
  /\ pc' = [pc EXCEPT ![w] = "finish"]
  /\ result' = [result EXCEPT ![w] = outcome]
  /\ UNCHANGED <<call, registry>>

\* The locals are gone when the operation has returned.
Returns(w) ==
  /\ pc' = [pc EXCEPT ![w] = "idle"]
  /\ call' = [call EXCEPT ![w] = NoCall]
  /\ registry' = [registry EXCEPT ![w] = None]
  /\ result' = [result EXCEPT ![w] = "none"]
  /\ cancelled' = [cancelled EXCEPT ![w] = FALSE]

\* Mutant: progress moves the state on.
ProgressMisfiled(r) ==
  controller' = [controller EXCEPT !.state = "Waiting", !.registry = r]

\* progress: the controller keeps the registry an operation read last.
Progress(r) == controller' = [controller EXCEPT !.registry = r]

\* discover_router_registry, then a decision on what was read
Reads(w, label) ==
  /\ registry' = [registry EXCEPT ![w] = status]
  /\ pc' = [pc EXCEPT ![w] = label]
  /\ UNCHANGED <<call, result>>
ReadsAndEnds(w, outcome) ==
  /\ registry' = [registry EXCEPT ![w] = status]
  /\ pc' = [pc EXCEPT ![w] = "finish"]
  /\ result' = [result EXCEPT ![w] = outcome]
  /\ UNCHANGED call

\* Mutant: begin does not look at the state.
BeginUnguarded(w, c) ==
  /\ At(w, "idle")
  /\ calls < MaxCalls
  /\ calls' = calls + 1
  /\ controller' = [state |-> "Running", call |-> c, registry |-> None]
  /\ pc' = [pc EXCEPT ![w] = "discover"]
  /\ call' = [call EXCEPT ![w] = c]
  /\ UNCHANGED <<status, registry, result, cancelled>>

\* begin, for an operation the state lets through, with a cancellation that
\* was just reset.  Another caller gets Busy and changes nothing.
Begin(w, c) ==
  /\ At(w, "idle")
  /\ calls < MaxCalls
  /\ calls' = calls + 1
  /\ controller.state # "Running"
  /\ controller' = [state |-> "Running", call |-> c, registry |-> None]
  /\ pc' = [pc EXCEPT ![w] = "discover"]
  /\ call' = [call EXCEPT ![w] = c]
  /\ UNCHANGED <<status, registry, result, cancelled>>

\* The caller's cancellation, from another thread, at any time.
Cancel(w) ==
  /\ pc[w] # "idle"
  /\ ~cancelled[w]
  /\ cancelled' = [cancelled EXCEPT ![w] = TRUE]
  /\ UNCHANGED <<status, controller, callerVars, calls>>

\* cancelled(...)? before the discovery and before each request, but not
\* between the discovery of a reload and its request
ChecksCancel(w) ==
  /\ pc[w] \in {"discover", "post", "postSource"}
  /\ At(w, "post") => call[w].kind # "ReloadRegistry"

SeesCancel(w) ==
  /\ ChecksCancel(w)
  /\ cancelled[w]
  /\ Ends(w, "cancelled")
  /\ UNCHANGED <<status, controller, cancelled, calls>>

-----------------------------------------------------------------------------
(* The first discovery and what it decides                                 *)

\* Mutant: a switch to the model that is active unloads it.
SwitchesItself(w, r) ==
  call[w].kind = "Switch" /\ IsRunning(r, call[w].source)

SwitchesSource(w, r) ==
  /\ call[w].kind = "Switch"
  /\ call[w].source # call[w].target
  /\ IsRunning(r, call[w].source)

\* Mutant: the target that was ready once is taken to be ready still.
TargetKeptAssumed(w, r) == "ok"

\* the end of switch_model, once nothing is left to unload
TargetKept(w, r) == IF Serves(r, call[w].target) THEN "ok" ELSE "error"

\* The endpoint does not answer, is no router or does not have the model; or
\* the target is not compatible with the installed runtime.
DiscoverFails(w) ==
  /\ At(w, "discover")
  /\ ~cancelled[w]
  /\ Ends(w, "error")
  /\ UNCHANGED <<status, controller, cancelled, calls>>

\* Nothing has to be requested for the target, or for the source of an
\* unload.  A switch does not look at the failed flag of its target here.
Satisfied(w) ==
  \/ call[w].kind = "Switch" /\ Ready(status, call[w].target)
  \/ call[w].kind \in {"Load", "Preload"} /\ Serves(status, call[w].target)
  \/ call[w].kind = "Unload" /\ Unloaded(status, call[w].source)

\* how an operation ends that has nothing left to request
Outcome(w, r) == IF call[w].kind = "Switch" THEN TargetKept(w, r) ELSE "ok"

DiscoverSatisfied(w) ==
  /\ At(w, "discover")
  /\ ~cancelled[w]
  /\ Satisfied(w)
  /\ IF SwitchesSource(w, status) THEN Reads(w, "postSource")
                                  ELSE ReadsAndEnds(w, Outcome(w, status))
  /\ Progress(status)
  /\ UNCHANGED <<status, cancelled, calls>>

DiscoverNeeded(w) ==
  /\ At(w, "discover")
  /\ ~cancelled[w]
  /\ ~Satisfied(w)
  /\ Reads(w, "post")
  /\ Progress(status)
  /\ UNCHANGED <<status, cancelled, calls>>

-----------------------------------------------------------------------------
(* Requests                                                                *)

\* What the request at a label asks of the router.
Effect(w, label) ==
  CASE label = "postSource"               -> UnloadAccepted(call[w].source)
    [] label = "post" /\ call[w].kind = "Unload"
                                          -> UnloadAccepted(call[w].source)
    [] label = "post" /\ call[w].kind \in Loading
                                          -> LoadAccepted(call[w].target)
    [] OTHER                              -> UNCHANGED status

PostLabels == {"post", "postSource"}
WaitLabel(label) == IF label = "post" THEN "wait" ELSE "waitSource"

PostAccepted(w) ==
  /\ pc[w] \in PostLabels
  /\ ChecksCancel(w) => ~cancelled[w]
  /\ Effect(w, pc[w])
  /\ Goto(w, WaitLabel(pc[w]))
  /\ UNCHANGED <<controller, cancelled, calls>>

\* refused, unsupported, rejected, or without {"success": true}
PostRefused(w) ==
  /\ pc[w] \in PostLabels
  /\ ChecksCancel(w) => ~cancelled[w]
  /\ Ends(w, "error")
  /\ UNCHANGED <<status, controller, cancelled, calls>>

\* The router acts, the client never learns it.
PostAnswerLost(w) ==
  /\ pc[w] \in PostLabels
  /\ ChecksCancel(w) => ~cancelled[w]
  /\ Effect(w, pc[w])
  /\ Ends(w, "error")
  /\ UNCHANGED <<controller, cancelled, calls>>

-----------------------------------------------------------------------------
(* wait_for_model, and the re-read that ends reload_registry               *)

WaitLabels == {"wait", "waitSource"}

Waits(w) == pc[w] \in WaitLabels /\ call[w].kind # "ReloadRegistry"

\* the model a caller waits for
Awaited(w) == IF At(w, "wait") /\ call[w].kind \in Loading
              THEN call[w].target ELSE call[w].source

\* Mutant: a loading target is taken for a ready one.
ReachedEarly(w) ==
  IF At(w, "wait") /\ call[w].kind \in Loading
  THEN IsRunning(status, Awaited(w)) ELSE Unloaded(status, Awaited(w))

Reached(w) ==
  IF At(w, "wait") /\ call[w].kind \in Loading
  THEN Ready(status, Awaited(w)) ELSE Unloaded(status, Awaited(w))

\* The registry is captured once more, if the router answers.
WaitCancelled(w) ==
  /\ Waits(w)
  /\ cancelled[w]
  /\ Progress(status) \/ UNCHANGED controller
  /\ Ends(w, "cancelled")
  /\ UNCHANGED <<status, cancelled, calls>>

\* A failed model ends the wait, whatever it waits for.
WaitFailed(w) ==
  /\ Waits(w)
  /\ ~cancelled[w]
  /\ HasFailed(status, Awaited(w))
  /\ Progress(status)
  /\ ReadsAndEnds(w, "error")
  /\ UNCHANGED <<status, cancelled, calls>>

WaitReached(w) ==
  /\ Waits(w)
  /\ ~cancelled[w]
  /\ ~HasFailed(status, Awaited(w))
  /\ Reached(w)
  /\ Progress(status)
  /\ IF At(w, "wait") /\ SwitchesSource(w, status)
     THEN Reads(w, "postSource")
     ELSE ReadsAndEnds(w, Outcome(w, status))
  /\ UNCHANGED <<status, cancelled, calls>>

WaitGoesOn(w) ==
  /\ Waits(w)
  /\ ~cancelled[w]
  /\ ~HasFailed(status, Awaited(w)) /\ ~Reached(w)
  /\ Progress(status)
  /\ Reads(w, pc[w])
  /\ UNCHANGED <<status, cancelled, calls>>

\* Mutant: the wait has no deadline.
WaitForever(w) == FALSE

\* The deadline passes at a registry that shows no end, or the discovery
\* fails.
WaitTimeout(w) ==
  /\ Waits(w)
  /\ ~cancelled[w]
  /\ \/ ~HasFailed(status, Awaited(w)) /\ ~Reached(w) /\ Progress(status)
     \/ UNCHANGED controller
  /\ Ends(w, "error")
  /\ UNCHANGED <<status, cancelled, calls>>

ReloadEnds(w) ==
  /\ At(w, "wait")
  /\ call[w].kind = "ReloadRegistry"
  /\ IF cancelled[w] THEN Ends(w, "cancelled")
     ELSE Ends(w, "error") \/ ReadsAndEnds(w, "ok")
  /\ UNCHANGED <<status, controller, cancelled, calls>>

-----------------------------------------------------------------------------
\* Mutant: a cancelled operation returns without finish_failure.
FinishForgotten(w) ==
  /\ At(w, "finish")
  /\ Returns(w)
  /\ controller' =
       CASE result[w] = "ok" ->
              [state |-> "Succeeded", call |-> call[w],
               registry |-> registry[w]]
         [] result[w] = "cancelled" -> controller
         [] OTHER -> [controller EXCEPT !.state = "Failed"]
  /\ UNCHANGED <<status, calls>>

\* finish_success writes the evidence; finish_failure keeps the registry of
\* the last progress.
Finish(w) ==
  /\ At(w, "finish")
  /\ Returns(w)
  /\ controller' =
       CASE result[w] = "ok" ->
              [state |-> "Succeeded", call |-> call[w],
               registry |-> registry[w]]
         [] result[w] = "cancelled" ->
              [controller EXCEPT !.state = "Cancelled"]
         [] OTHER -> [controller EXCEPT !.state = "Failed"]
  /\ UNCHANGED <<status, calls>>

CallerStep(w) ==
  \/ SeesCancel(w) \/ DiscoverFails(w) \/ DiscoverSatisfied(w)
  \/ DiscoverNeeded(w) \/ PostAccepted(w) \/ PostRefused(w)
  \/ PostAnswerLost(w) \/ WaitCancelled(w) \/ WaitFailed(w)
  \/ WaitReached(w) \/ WaitGoesOn(w) \/ WaitTimeout(w) \/ ReloadEnds(w)
  \/ Finish(w)

RouterStep(m) ==
  /\ RouterMoves(m)
  /\ UNCHANGED <<controller, callerVars, cancelled, calls>>

Next ==
  \/ \E w \in Callers : \/ CallerStep(w)
                        \/ Cancel(w)
                        \/ \E c \in Callable : Begin(w, c)
  \/ \E m \in Models : RouterStep(m)

Spec == Init /\ [][Next]_vars

-----------------------------------------------------------------------------
(* Properties                                                              *)

Working == {w \in Callers : pc[w] # "idle"}

(***************************************************************************)
(* One operation at a time: the controller says Running exactly while one  *)
(* caller works through an operation, however callers, cancellations and   *)
(* failures meet; it is neither left Running nor shared.                   *)
(***************************************************************************)
SingleFlight ==
  /\ \A v, w \in Working : v = w
  /\ controller.state = "Running" <=> Working # {}

(***************************************************************************)
(* A switch asks the router to unload its source only for a target it has  *)
(* seen ready, in the registry the controller holds as its last evidence.  *)
(***************************************************************************)
SourceGivenForReadyTarget ==
  \A w \in Callers :
    At(w, "postSource") => /\ registry[w] # None
                           /\ Ready(registry[w], call[w].target)
                           /\ controller.registry = registry[w]

\* what a registry must show for an operation to have succeeded
Shows(c, r) ==
  /\ r # None
  /\ c.kind \in Loading => Serves(r, c.target)
  /\ c.kind = "Unload" => Unloaded(r, c.source)
  /\ c.kind = "Switch" /\ c.source # c.target => ~IsRunning(r, c.source)

(***************************************************************************)
(* Success is observed, never inferred from an accepted request: the       *)
(* registry in the evidence shows the target ready, the source of an       *)
(* unload unloaded, and after a switch no other source running.            *)
(***************************************************************************)
SuccessIsObserved ==
  controller.state = "Succeeded" => Shows(controller.call, controller.registry)

(***************************************************************************)
(* What SourceGivenForReadyTarget and SuccessIsObserved rest on: the       *)
(* controller names the operation at work, only a switch between two       *)
(* models has a source to unload, and a caller that is about to report     *)
(* success holds a registry that shows it.                                 *)
(***************************************************************************)
EvidenceInv ==
  \A w \in Working :
    /\ controller.call = call[w]
    /\ pc[w] \in {"postSource", "waitSource"} =>
         call[w].kind = "Switch" /\ call[w].source # call[w].target
    /\ pc[w] = "postSource" => /\ registry[w] # None
                               /\ Ready(registry[w], call[w].target)
                               /\ controller.registry = registry[w]
    /\ pc[w] = "finish" /\ result[w] = "ok" => Shows(call[w], registry[w])

Controller == INSTANCE OperationController WITH operation <- controller.state

(***************************************************************************)
(* Shared between callers, the operations keep the controller's promise.   *)
(***************************************************************************)
ImplementsController == Controller!Spec
=============================================================================
