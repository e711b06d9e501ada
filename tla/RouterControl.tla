---------------------------- MODULE RouterControl ----------------------------
(***************************************************************************)
(* The Router Control surface (router_management_ui.rs) with its snapshot  *)
(* tracker (router_observability.rs): the event handlers of the view, the  *)
(* threads that refresh the snapshot or the runtime, and the dispatcher of *)
(* one router operation.                                                   *)
(*                                                                         *)
(* The handlers run one after the other on the thread of the view.  The    *)
(* handler of a button copies the state, decides on the copy and writes    *)
(* later; the other threads write the state in between.  A control is      *)
(* disabled by what was rendered last, so that an event can come through a *)
(* control that the state of now would have disabled.                      *)
(*                                                                         *)
(* The registry inside a snapshot does not matter here, only what it was   *)
(* observed from: the address, the authentication (API key and LAN opt-in) *)
(* and the runtime.                                                        *)
(***************************************************************************)

EXTENDS Naturals

CONSTANTS
  Addresses,        \* host and port the user may type
  Auths,            \* API key and LAN opt-in the user may choose
  Runtimes,         \* llama.cpp installations
  Threads,          \* the threads that refresh
  None,
  MaxEvents         \* bound: clicks and edits

Snapshots == [address : Addresses, auth : Auths, runtime : Runtimes]

ASSUME ControlAssumption ==
  /\ None \notin Runtimes \cup Snapshots
  /\ MaxEvents \in Nat

VARIABLES
  ui,           \* ControlState: target, runtime, tracker, operation
  shown,        \* busy(), as rendered last
  handler,      \* what the handler of a button copied and has yet to write
  controller,   \* the controller's state, a promise of OperationController
  job,          \* what each refreshing thread is at
  dispatch,     \* the thread of run_action
  operator,     \* the thread that works through the operation
  installed,    \* the installation persisted in the database
  events

vars == <<ui, shown, handler, controller, job, dispatch, operator, installed, events>>

Controller == INSTANCE OperationController WITH operation <- controller

Trackers ==
  [current : Snapshots \cup {None}, error : BOOLEAN, loading : BOOLEAN]
Answers == Snapshots \cup {None}

\* what a thread captured when it was started
Targets ==
  [address : Addresses, auth : Auths, runtime : Runtimes \cup {None}]

Handlers ==
  [click : {"reconcile", "runtime", "action"}, target : Targets, tracker : Trackers]

Jobs ==
  [at : {"off", "ask", "write", "askRuntime", "writeRuntime", "panicked"},
   target : Targets, answer : Answers \cup Runtimes, previous : Trackers]

TypeOK ==
  /\ ui \in [address : Addresses, auth : Auths, runtime : Runtimes \cup {None},
             tracker : Trackers, pending : BOOLEAN,
             operation : Controller!OperationStates]
  /\ shown \in BOOLEAN
  /\ handler \in Handlers \cup {None}
  /\ controller \in Controller!OperationStates
  /\ job \in [Threads -> Jobs]
  /\ dispatch \in [at : {"off", "poll", "ask", "write", "panicked"}, target : Targets,
                   answer : Answers, final : Controller!OperationStates]
  /\ operator \in {"off", "open", "begin", "run", "failed", "done", "panicked"}
  /\ installed \in Runtimes \cup {None}
  /\ events \in 0..MaxEvents

-----------------------------------------------------------------------------
(* RouterObservabilityTracker                                              *)

EmptyTracker == [current |-> None, error |-> FALSE, loading |-> FALSE]

BeginRefresh(tracker) == [tracker EXCEPT !.loading = TRUE, !.error = FALSE]

Reconcile(tracker, answer) ==
  IF answer # None
  THEN [current |-> answer, error |-> FALSE, loading |-> FALSE]
  ELSE [tracker EXCEPT !.error = TRUE, !.loading = FALSE]

\* invalidate_router_evidence
Invalidate(tracker) ==
  [tracker EXCEPT !.loading = FALSE,
                  !.error = IF tracker.current # None THEN TRUE ELSE @]

IsLive(tracker) ==
  ~tracker.loading /\ ~tracker.error /\ tracker.current # None

Busy == ui.pending \/ ui.operation = "Running" \/ ui.tracker.loading

\* evidence_identity_error: authentication is not compared
SameIdentity ==
  /\ ui.tracker.current.address = ui.address
  /\ ui.tracker.current.runtime = ui.runtime

Target == [address |-> ui.address, auth |-> ui.auth, runtime |-> ui.runtime]

-----------------------------------------------------------------------------
NoTarget == [address |-> ui.address, auth |-> ui.auth, runtime |-> None]
NoJob(target) == [at |-> "off", target |-> target, answer |-> None,
                  previous |-> EmptyTracker]

Init ==
  /\ installed \in Runtimes \cup {None}
  /\ \E a \in Addresses, k \in Auths :
       /\ ui = [address |-> a, auth |-> k, runtime |-> installed,
                tracker |-> EmptyTracker, pending |-> FALSE,
                operation |-> "Idle"]
       /\ LET nowhere == [address |-> a, auth |-> k, runtime |-> None]
          IN  /\ job = [t \in Threads |-> NoJob(nowhere)]
              /\ dispatch = [at |-> "off", target |-> nowhere,
                             answer |-> None, final |-> "Idle"]
  /\ shown = FALSE
  /\ handler = None
  /\ Controller!Idle
  /\ operator = "off"
  /\ events = 0

-----------------------------------------------------------------------------
(* Event handlers                                                          *)

\* A control that busy() disables lets an event through until the state it
\* meets is rendered; one handler runs at a time.
Enabled == ~shown /\ handler = None

Event == Enabled /\ events < MaxEvents /\ events' = events + 1

threadVars == <<controller, dispatch, operator, installed>>

Render ==
  /\ shown # Busy
  /\ shown' = Busy
  /\ UNCHANGED <<ui, handler, threadVars, job, events>>

\* What the handlers of the buttons copy; they look at busy() again.
Copies(click) ==
  /\ Event /\ ~Busy
  /\ handler' = [click |-> click, target |-> Target, tracker |-> ui.tracker]
  /\ UNCHANGED <<ui, shown, job, threadVars>>

\* refresh_router
ClickReconcile == ui.runtime # None /\ Copies("reconcile")
BeginReconcile(t) ==
  /\ handler # None /\ handler.click = "reconcile"
  /\ job[t].at = "off"
  /\ job' = [job EXCEPT ![t] = [NoJob(handler.target) EXCEPT !.at = "ask"]]
  /\ ui' = [ui EXCEPT !.tracker = BeginRefresh(@)]
  /\ handler' = None
  /\ UNCHANGED <<shown, threadVars, events>>

\* Mutant: the tracker is copied after it was set to loading.
BeginRuntimeCopiedLate(t) ==
  /\ handler # None /\ handler.click = "runtime"
  /\ job[t].at = "off"
  /\ ui' = [ui EXCEPT !.tracker.loading = TRUE]
  /\ job' = [job EXCEPT ![t] = [NoJob(NoTarget) EXCEPT
                                  !.at = "askRuntime", !.previous = ui'.tracker]]
  /\ handler' = None
  /\ UNCHANGED <<shown, threadVars, events>>

\* refresh_runtime keeps the tracker it may have to restore.
ClickRuntime == Copies("runtime")
BeginRuntime(t) ==
  /\ handler # None /\ handler.click = "runtime"
  /\ job[t].at = "off"
  /\ ui' = [ui EXCEPT !.tracker.loading = TRUE]
  /\ job' = [job EXCEPT ![t] = [NoJob(NoTarget) EXCEPT
                                  !.at = "askRuntime", !.previous = handler.tracker]]
  /\ handler' = None
  /\ UNCHANGED <<shown, threadVars, events>>

\* The inputs do not look at busy() again.
EditAddress(a) ==
  /\ Event
  /\ a # ui.address
  /\ ui' = [ui EXCEPT !.address = a, !.tracker = Invalidate(@)]
  /\ UNCHANGED <<shown, handler, job, threadVars>>

EditAuth(k) ==
  /\ Event
  /\ k # ui.auth
  /\ ui' = [ui EXCEPT !.auth = k, !.tracker = Invalidate(@)]
  /\ UNCHANGED <<shown, handler, job, threadVars>>

\* Mutant: the target is read when the operation is dispatched.
BeginActionRetargeted ==
  /\ handler # None /\ handler.click = "action"
  /\ dispatch' = [dispatch EXCEPT !.at = "poll", !.target = Target]
  /\ operator' = "open"
  /\ ui' = [ui EXCEPT !.pending = TRUE]
  /\ handler' = None
  /\ UNCHANGED <<shown, controller, job, installed, events>>

\* run_action, for an action the snapshot supports (action_support)
ClickAction == IsLive(ui.tracker) /\ SameIdentity /\ Copies("action")
BeginAction ==
  /\ handler # None /\ handler.click = "action"
  /\ dispatch' = [dispatch EXCEPT !.at = "poll", !.target = handler.target]
  /\ operator' = "open"
  /\ ui' = [ui EXCEPT !.pending = TRUE]
  /\ handler' = None
  /\ UNCHANGED <<shown, controller, job, installed, events>>

\* Another surface selects another installation.
SelectInstallation(r) ==
  /\ installed' = r
  /\ UNCHANGED <<ui, shown, handler, controller, job, dispatch, operator, events>>

-----------------------------------------------------------------------------
(* The refreshing threads                                                  *)

\* discover_router_observability, with the target of the click
AskRouter(t) ==
  /\ job[t].at = "ask"
  /\ \E answer \in {job[t].target, None} :
       job' = [job EXCEPT ![t].at = "write", ![t].answer = answer]
  /\ UNCHANGED <<ui, shown, handler, threadVars, events>>

WriteRefresh(t) ==
  /\ job[t].at = "write"
  /\ ui' = [ui EXCEPT !.tracker = Reconcile(@, job[t].answer)]
  /\ job' = [job EXCEPT ![t] = NoJob(NoTarget)]
  /\ UNCHANGED <<shown, handler, threadVars, events>>

AskRuntime(t) ==
  /\ job[t].at = "askRuntime"
  /\ job' = [job EXCEPT ![t].at = "writeRuntime", ![t].answer = installed]
  /\ UNCHANGED <<ui, shown, handler, threadVars, events>>

WriteRuntime(t) ==
  /\ job[t].at = "writeRuntime"
  /\ \/ ui' = [ui EXCEPT !.runtime = job[t].answer, !.tracker = Invalidate(@)]
     \/ ui' = [ui EXCEPT !.tracker = job[t].previous]
  /\ job' = [job EXCEPT ![t] = NoJob(NoTarget)]
  /\ UNCHANGED <<shown, handler, threadVars, events>>

\* A panic of the thread: nothing is written, and nothing catches it.
RefreshPanics(t) ==
  /\ job[t].at \in {"ask", "askRuntime"}
  /\ job' = [job EXCEPT ![t] = [NoJob(NoTarget) EXCEPT !.at = "panicked"]]
  /\ UNCHANGED <<ui, shown, handler, threadVars, events>>

-----------------------------------------------------------------------------
(* The dispatcher and the thread of the operation                          *)

\* the store is opened before the controller is asked
OpenStore ==
  /\ operator = "open"
  /\ operator' \in {"begin", "failed"}
  /\ UNCHANGED <<ui, shown, handler, controller, job, dispatch, installed, events>>

BeginOperation ==
  /\ operator = "begin"
  /\ Controller!Begins
  /\ operator' = "run"
  /\ UNCHANGED <<ui, shown, handler, job, dispatch, installed, events>>

EndOperation ==
  /\ operator = "run"
  /\ Controller!Ends
  /\ operator' = IF controller' = "Succeeded" THEN "done" ELSE "failed"
  /\ UNCHANGED <<ui, shown, handler, job, dispatch, installed, events>>

\* The operation panics, and the controller stays Running.
OperatorPanics ==
  /\ operator \in {"open", "begin", "run"}
  /\ operator' = "panicked"
  /\ UNCHANGED <<ui, shown, handler, controller, job, dispatch, installed, events>>

PollController ==
  /\ dispatch.at = "poll"
  /\ ui.operation # controller
  /\ ui' = [ui EXCEPT !.operation = controller]
  /\ UNCHANGED <<shown, handler, controller, job, dispatch, operator, installed, events>>

\* Mutant: a panic leaves the state as the worker left it.
RecoveredNothing == controller

\* recover_worker_panic
Recovered ==
  IF operator = "panicked" /\ controller = "Running" THEN "Failed"
  ELSE controller

\* The operation's thread is joined.
JoinOperator ==
  /\ dispatch.at = "poll"
  /\ operator \in {"failed", "done", "panicked"}
  /\ dispatch' = [dispatch EXCEPT !.at = "ask", !.final = Recovered]
  /\ UNCHANGED <<ui, shown, handler, controller, job, operator, installed, events>>

AskAfterOperation ==
  /\ dispatch.at = "ask"
  /\ \E answer \in {dispatch.target, None} :
       dispatch' = [dispatch EXCEPT !.at = "write", !.answer = answer]
  /\ UNCHANGED <<ui, shown, handler, controller, job, operator, installed, events>>

\* A panic of the dispatcher itself, which nothing catches.
DispatcherPanics ==
  /\ dispatch.at = "ask"
  /\ dispatch' = [dispatch EXCEPT !.at = "panicked"]
  /\ UNCHANGED <<ui, shown, handler, controller, job, operator, installed, events>>

\* After a panic controller and cancellation are replaced.
WriteAction ==
  /\ dispatch.at = "write"
  /\ ui' = [ui EXCEPT !.pending = FALSE, !.operation = dispatch.final,
                      !.tracker = Reconcile(@, dispatch.answer)]
  /\ controller' = IF operator = "panicked" THEN "Idle" ELSE controller
  /\ dispatch' = [at |-> "off", target |-> NoTarget, answer |-> None,
                  final |-> "Idle"]
  /\ operator' = "off"
  /\ UNCHANGED <<shown, handler, job, installed, events>>

-----------------------------------------------------------------------------
Refreshing(t) ==
  AskRouter(t) \/ WriteRefresh(t) \/ AskRuntime(t) \/ WriteRuntime(t)

Operating == OpenStore \/ BeginOperation \/ EndOperation \/ OperatorPanics
Dispatching == JoinOperator \/ AskAfterOperation \/ WriteAction

\* The handler goes on to its write.
Writing == (\E t \in Threads : BeginReconcile(t) \/ BeginRuntime(t)) \/ BeginAction

Events ==
  \/ ClickReconcile \/ ClickRuntime \/ ClickAction
  \/ \E a \in Addresses : EditAddress(a)
  \/ \E k \in Auths : EditAuth(k)

Next ==
  \/ Events \/ Writing
  \/ Render
  \/ \E t \in Threads : Refreshing(t) \/ RefreshPanics(t)
  \/ Operating \/ Dispatching \/ PollController \/ DispatcherPanics
  \/ \E r \in Runtimes : SelectInstallation(r)

Spec == Init /\ [][Next]_vars

(***************************************************************************)
(* Threads run; the operation ends, as RouterOperations shows.  The user   *)
(* owes nothing.                                                           *)
(***************************************************************************)
Fairness ==
  /\ \A t \in Threads : WF_vars(Refreshing(t))
  /\ WF_vars(Operating)
  /\ WF_vars(Dispatching)

FairSpec == Spec /\ Fairness

-----------------------------------------------------------------------------
(* Properties                                                              *)

\* a refreshing thread that is at work, or that a panic ended
Refreshes == {t \in Threads : job[t].at # "off"}
Panicked == dispatch.at = "panicked" \/ \E t \in Threads : job[t].at = "panicked"

(***************************************************************************)
(* The view is busy only while a thread has yet to end it, or a panic that *)
(* nothing catches ended that thread: not for an operation that is over,   *)
(* whether it succeeded, failed or panicked, nor for the tracker that a    *)
(* failed refresh of the runtime restores, however refreshes overlap after *)
(* an edit that reset the flag of the first (busy, run_action,             *)
(* refresh_runtime, refresh_router, invalidate_router_evidence).  And no   *)
(* operation is left Running in the controller, which would refuse every   *)
(* later one.                                                              *)
(***************************************************************************)
BusyIsServed ==
  /\ ui.pending \/ ui.operation = "Running" \/ controller = "Running" =>
       dispatch.at # "off"
  /\ ui.tracker.loading => Refreshes # {}

(***************************************************************************)
(* An operation works on the endpoint and with the runtime of the snapshot *)
(* that authorized it, and that snapshot was live: also when a refresh of  *)
(* the runtime or an answer from another endpoint, late behind an edit,    *)
(* lands between the look at the state and the dispatch (run_action,       *)
(* evidence_identity_error).                                               *)
(***************************************************************************)
MutationIsOfSnapshot ==
  [][dispatch.at # "poll" /\ dispatch'.at = "poll" =>
       /\ IsLive(handler.tracker)
       /\ handler.tracker.current.address = dispatch'.target.address
       /\ handler.tracker.current.runtime = dispatch'.target.runtime]_vars

(***************************************************************************)
(* docs/evidence/M5_ROUTER_SWITCHING_2026-08-18.md:41:                     *)
(* "endpoint/runtime/auth/LAN identity changes invalidate retained live    *)
(* authorization before mutation": no operation is dispatched on the       *)
(* authority of a snapshot of another endpoint, authentication or runtime. *)
(* An edit during a refresh resets its loading flag, and its late answer   *)
(* is live over the new authentication, which nothing compares             *)
(* (invalidate_router_evidence, refresh_router, evidence_identity_error).  *)
(***************************************************************************)
MutationIsAuthorized ==
  [][dispatch.at # "poll" /\ dispatch'.at = "poll" =>
       /\ handler.tracker.current.auth = dispatch'.target.auth
       /\ handler.tracker.current.address = dispatch'.target.address
       /\ handler.tracker.current.runtime = dispatch'.target.runtime]_vars

(***************************************************************************)
(* The same document, :42: "runtime-evidence refresh and live              *)
(* reconciliation are serialized with router work".  A known deviation,    *)
(* for the same reason: after the edit a second refresh or an operation    *)
(* begins next to the first refresh, and the later write stands.           *)
(***************************************************************************)
Serialized ==
  /\ \A s, t \in Refreshes : s = t
  /\ Refreshes # {} => dispatch.at = "off" /\ ui.tracker.loading

(***************************************************************************)
(* "... instead of permanently wedging the UI busy state": a busy view     *)
(* becomes free again, panics of the operation included.  A panic of a     *)
(* refreshing thread or of the dispatcher is caught by nobody: then it     *)
(* need not (run_action, recover_worker_panic).                            *)
(***************************************************************************)
BusyEnds == Busy ~> ~Busy \/ Panicked
=============================================================================
