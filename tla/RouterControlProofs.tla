------------------------- MODULE RouterControlProofs -------------------------
(***************************************************************************)
(* Proofs about RouterControl, for any targets, threads and number of      *)
(* events, whatever was rendered last and whoever panics.                  *)
(***************************************************************************)
EXTENDS RouterControl, TLAPS

\* the variables the properties are about, apart for the provers
UiType ==
  ui \in [address : Addresses, auth : Auths, runtime : Runtimes \cup {None},
          tracker : Trackers, pending : BOOLEAN,
          operation : Controller!OperationStates]
JobType == job \in [Threads -> Jobs]
DispatchType ==
  dispatch \in [at : {"off", "poll", "ask", "write", "panicked"}, target : Targets,
                answer : Answers, final : Controller!OperationStates]
HandlerType == handler \in Handlers \cup {None}
OtherTypes ==
  /\ shown \in BOOLEAN
  /\ controller \in Controller!OperationStates
  /\ operator \in {"off", "open", "begin", "run", "failed", "done", "panicked"}
  /\ installed \in Runtimes \cup {None}
  /\ events \in 0..MaxEvents

LEMMA Types == TypeOK <=> UiType /\ JobType /\ DispatchType /\ HandlerType /\ OtherTypes
  BY DEF TypeOK, UiType, JobType, DispatchType, HandlerType, OtherTypes

-----------------------------------------------------------------------------
(* The inductive invariant                                                 *)

\* What a handler copied, on a view that was free: nobody dispatches until it
\* has written, because it runs alone.
HandlerInv ==
  handler # None =>
    /\ ~handler.tracker.loading
    /\ dispatch.at = "off"
    /\ handler.click \in {"reconcile", "action"} => handler.target.runtime # None
    /\ handler.click = "action" =>
         /\ IsLive(handler.tracker)
         /\ handler.tracker.current.address = handler.target.address
         /\ handler.tracker.current.runtime = handler.target.runtime

\* What a refreshing thread works with, and what it may restore.
JobInv ==
  \A t \in Threads :
    /\ job[t].at = "ask" => job[t].target.runtime # None
    /\ job[t].at = "write" => job[t].answer \in Answers
    /\ job[t].at = "writeRuntime" => job[t].answer \in Runtimes \cup {None}
    /\ job[t].at \in {"askRuntime", "writeRuntime"} => ~job[t].previous.loading

\* The dispatcher and the thread it started: the controller runs only while that
\* thread does, or after its panic.
DispatchInv ==
  /\ ui.pending <=> dispatch.at # "off"
  /\ dispatch.at # "off" => dispatch.target.runtime # None
  /\ dispatch.at = "off" =>
       operator = "off" /\ controller # "Running" /\ ui.operation # "Running"
  /\ dispatch.at \in {"ask", "write", "panicked"} =>
       operator \in {"failed", "done", "panicked"} /\ dispatch.final # "Running"
  /\ controller = "Running" => operator \in {"run", "panicked"}

LoadingIsServed == ui.tracker.loading => Refreshes # {}

SafetyInv == HandlerInv /\ JobInv /\ DispatchInv /\ LoadingIsServed

Inv == TypeOK /\ SafetyInv

LEMMA InitInv == Init => Inv
<1>. SUFFICES ASSUME Init PROVE Inv
  OBVIOUS
<1>. USE DEF Init, Controller!Idle, EmptyTracker, NoJob
<1>1. PICK a \in Addresses, k \in Auths :
        /\ ui = [address |-> a, auth |-> k, runtime |-> installed,
                 tracker |-> EmptyTracker, pending |-> FALSE,
                 operation |-> "Idle"]
        /\ LET nowhere == [address |-> a, auth |-> k, runtime |-> None]
           IN  /\ job = [t \in Threads |-> NoJob(nowhere)]
               /\ dispatch = [at |-> "off", target |-> nowhere,
                              answer |-> None, final |-> "Idle"]
  OBVIOUS
<1>2. TypeOK
  <2>1. UiType
    BY <1>1 DEF UiType, Trackers, Controller!OperationStates
  <2>2. JobType
    BY <1>1 DEF JobType, Jobs, Trackers, Targets, Answers
  <2>3. DispatchType
    BY <1>1 DEF DispatchType, Targets, Answers, Controller!OperationStates
  <2>4. HandlerType
    BY DEF HandlerType
  <2>5. OtherTypes
    <3>1. controller \in Controller!OperationStates
      BY DEF Controller!OperationStates
    <3>2. events \in 0..MaxEvents
      BY ControlAssumption
    <3>. QED
      BY <3>1, <3>2 DEF OtherTypes
  <2>. QED
    BY <2>1, <2>2, <2>3, <2>4, <2>5, Types
<1>3. SafetyInv
  BY <1>1 DEF SafetyInv, HandlerInv, JobInv, DispatchInv, LoadingIsServed
<1>. QED
  BY <1>2, <1>3 DEF Inv

-----------------------------------------------------------------------------
(* The records                                                             *)

LEMMA TargetType ==
  ASSUME TypeOK
  PROVE  /\ Target \in Targets /\ NoTarget \in Targets
         /\ Target.address = ui.address /\ Target.runtime = ui.runtime
  BY DEF Target, NoTarget, Targets, TypeOK

LEMMA AnswerType ==
  ASSUME NEW target \in Targets, target.runtime # None
  PROVE  {target, None} \subseteq Answers
  BY DEF Targets, Answers, Snapshots

LEMMA TrackerType ==
  ASSUME NEW tracker \in Trackers, NEW answer \in Answers
  PROVE  /\ BeginRefresh(tracker) \in Trackers
         /\ Invalidate(tracker) \in Trackers /\ ~Invalidate(tracker).loading
         /\ Reconcile(tracker, answer) \in Trackers /\ ~Reconcile(tracker, answer).loading
         /\ [tracker EXCEPT !.loading = TRUE] \in Trackers
  BY DEF BeginRefresh, Invalidate, Reconcile, Trackers, Answers

LEMMA NoJobType ==
  ASSUME NEW target \in Targets
  PROVE  /\ NoJob(target) \in Jobs /\ NoJob(target).at = "off"
         /\ [NoJob(target) EXCEPT !.at = "panicked"] \in Jobs
         /\ [NoJob(target) EXCEPT !.at = "panicked"].at = "panicked"
         /\ [NoJob(target) EXCEPT !.at = "ask"] \in Jobs
         /\ [NoJob(target) EXCEPT !.at = "ask"].at = "ask"
         /\ [NoJob(target) EXCEPT !.at = "ask"].target = target
  BY DEF NoJob, EmptyTracker, Jobs, Trackers, Answers

LEMMA RuntimeJob ==
  ASSUME NEW target \in Targets, NEW tracker \in Trackers,
         NEW j, j = [NoJob(target) EXCEPT !.at = "askRuntime", !.previous = tracker]
  PROVE  j \in Jobs /\ j.at = "askRuntime" /\ j.previous = tracker
  BY DEF NoJob, EmptyTracker, Jobs, Trackers, Answers

-----------------------------------------------------------------------------
(* The steps                                                               *)

\* A thread whose job becomes j, while the view keeps its tracker or gets one that
\* is not loading.
LEMMA JobSteps ==
  ASSUME Inv, NEW t \in Threads, NEW j \in Jobs, job' = [job EXCEPT ![t] = j],
         UNCHANGED <<shown, handler, threadVars, events>>,
         UiType', ui'.pending = ui.pending, ui'.operation = ui.operation,
         j.at = "ask" => j.target.runtime # None,
         j.at = "write" => j.answer \in Answers,
         j.at = "writeRuntime" => j.answer \in Runtimes \cup {None},
         j.at \in {"askRuntime", "writeRuntime"} => ~j.previous.loading,
         ui'.tracker.loading => ui.tracker.loading /\ j.at # "off"
  PROVE  Inv'
<1>. USE DEF threadVars
<1>1. JobType /\ DispatchType /\ HandlerType /\ OtherTypes
  BY Types DEF Inv
<1>2. TypeOK'
  BY <1>1 DEF TypeOK, UiType, JobType, DispatchType, HandlerType, OtherTypes
<1>3. HandlerInv' /\ DispatchInv'
  BY DEF Inv, SafetyInv, HandlerInv, DispatchInv, IsLive
<1>4. \A s \in Threads : job'[s] = IF s = t THEN j ELSE job[s]
  BY <1>1 DEF JobType
<1>5. JobInv'
  BY <1>4 DEF Inv, SafetyInv, JobInv
<1>6. LoadingIsServed'
  BY <1>4 DEF Inv, SafetyInv, LoadingIsServed, Refreshes
<1>. QED
  BY <1>2, <1>3, <1>5, <1>6 DEF Inv, SafetyInv

LEMMA RefreshingStep ==
  ASSUME Inv, NEW t \in Threads, Refreshing(t) \/ RefreshPanics(t)
  PROVE  Inv'
<1>1. UiType /\ JobType /\ TypeOK /\ OtherTypes /\ job[t] \in Jobs
  BY Types DEF Inv, JobType
<1>2. JobInv /\ ui.tracker \in Trackers /\ NoTarget \in Targets
  BY <1>1, TargetType DEF Inv, SafetyInv, UiType
<1>3. CASE AskRouter(t)
  <2>1. PICK answer \in {job[t].target, None} :
          job' = [job EXCEPT ![t] = [job[t] EXCEPT !.at = "write", !.answer = answer]]
    BY <1>1, <1>3 DEF AskRouter, JobType
  <2>2. answer \in Answers
    BY <1>1, <1>2, <1>3, AnswerType DEF AskRouter, JobInv, Jobs
  <2>3. PICK j : j = [job[t] EXCEPT !.at = "write", !.answer = answer]
    OBVIOUS
  <2>4. j \in Jobs /\ j.at = "write" /\ j.answer = answer
    BY <1>1, <2>2, <2>3 DEF Jobs
  <2>5. UNCHANGED <<ui, shown, handler, threadVars, events>>
    BY <1>3 DEF AskRouter
  <2>6. UiType'
    BY <1>1, <2>5 DEF UiType
  <2>. QED
    BY <2>1, <2>2, <2>3, <2>4, <2>5, <2>6, JobSteps
<1>4. CASE WriteRefresh(t)
  <2>1. job[t].answer \in Answers
    BY <1>2, <1>4 DEF WriteRefresh, JobInv
  <2>2. ui' = [ui EXCEPT !.tracker = Reconcile(ui.tracker, job[t].answer)]
    BY <1>4 DEF WriteRefresh
  <2>3. /\ UiType' /\ ui'.pending = ui.pending /\ ui'.operation = ui.operation
        /\ ~ui'.tracker.loading
    BY <1>1, <1>2, <2>1, <2>2, TrackerType DEF UiType
  <2>4. job' = [job EXCEPT ![t] = NoJob(NoTarget)]
    BY <1>4 DEF WriteRefresh
  <2>5. UNCHANGED <<shown, handler, threadVars, events>>
    BY <1>4 DEF WriteRefresh
  <2>. QED
    BY <1>2, <2>3, <2>4, <2>5, NoJobType, JobSteps
<1>5. CASE AskRuntime(t)
  <2>1. PICK j : j = [job[t] EXCEPT !.at = "writeRuntime", !.answer = installed]
    OBVIOUS
  <2>2. job' = [job EXCEPT ![t] = j]
    BY <1>1, <1>5, <2>1 DEF AskRuntime, JobType
  <2>3. /\ j \in Jobs /\ j.at = "writeRuntime" /\ j.answer \in Runtimes \cup {None}
        /\ j.previous = job[t].previous
    BY <1>1, <2>1 DEF Jobs, Answers, OtherTypes
  <2>4. ~job[t].previous.loading
    BY <1>2, <1>5 DEF AskRuntime, JobInv
  <2>5. UNCHANGED <<ui, shown, handler, threadVars, events>>
    BY <1>5 DEF AskRuntime
  <2>6. UiType'
    BY <1>1, <2>5 DEF UiType
  <2>. QED
    BY <2>2, <2>3, <2>4, <2>5, <2>6, JobSteps
<1>6. CASE WriteRuntime(t)
  <2>1. /\ job[t].answer \in Runtimes \cup {None} /\ job[t].previous \in Trackers
        /\ ~job[t].previous.loading
    BY <1>1, <1>2, <1>6 DEF WriteRuntime, JobInv, Jobs
  <2>2. \/ ui' = [ui EXCEPT !.runtime = job[t].answer, !.tracker = Invalidate(ui.tracker)]
        \/ ui' = [ui EXCEPT !.tracker = job[t].previous]
    BY <1>6 DEF WriteRuntime
  <2>3. Invalidate(ui.tracker) \in Trackers /\ ~Invalidate(ui.tracker).loading
    BY <1>2, TrackerType DEF Answers
  <2>4. /\ UiType' /\ ui'.pending = ui.pending /\ ui'.operation = ui.operation
        /\ ~ui'.tracker.loading
    BY <1>1, <2>1, <2>2, <2>3 DEF UiType
  <2>5. job' = [job EXCEPT ![t] = NoJob(NoTarget)]
    BY <1>6 DEF WriteRuntime
  <2>6. UNCHANGED <<shown, handler, threadVars, events>>
    BY <1>6 DEF WriteRuntime
  <2>. QED
    BY <1>2, <2>4, <2>5, <2>6, NoJobType, JobSteps
<1>7. CASE RefreshPanics(t)
  <2>1. PICK j : j = [NoJob(NoTarget) EXCEPT !.at = "panicked"]
    OBVIOUS
  <2>2. j \in Jobs /\ j.at = "panicked"
    BY <1>2, <2>1, NoJobType
  <2>3. job' = [job EXCEPT ![t] = j]
    BY <1>7, <2>1 DEF RefreshPanics
  <2>4. UNCHANGED <<ui, shown, handler, threadVars, events>>
    BY <1>7 DEF RefreshPanics
  <2>5. UiType'
    BY <1>1, <2>4 DEF UiType
  <2>. QED
    BY <2>2, <2>3, <2>4, <2>5, JobSteps
<1>. QED
  BY <1>3, <1>4, <1>5, <1>6, <1>7 DEF Refreshing

\* The clicks, and the inputs.
LEMMA EventsStep ==
  ASSUME Inv, Events
  PROVE  Inv'
<1>. USE DEF threadVars
<1>1. /\ UiType /\ JobType /\ DispatchType /\ HandlerType /\ OtherTypes /\ TypeOK
      /\ ui.tracker \in Trackers
  BY Types DEF Inv, UiType
<1>2. HandlerInv /\ JobInv /\ DispatchInv /\ LoadingIsServed
  BY DEF Inv, SafetyInv
<1>3. events' \in 0..MaxEvents /\ handler = None
  <2>1. Event
    BY DEF Events, ClickReconcile, ClickRuntime, ClickAction, EditAddress, EditAuth, Copies
  <2>2. handler = None /\ events < MaxEvents /\ events' = events + 1
    BY <2>1 DEF Event, Enabled
  <2>3. events \in 0..MaxEvents /\ MaxEvents \in Nat
    BY <1>1, ControlAssumption DEF OtherTypes
  <2>. QED
    BY <2>2, <2>3
<1>4. ASSUME NEW click \in {"reconcile", "runtime", "action"}, Copies(click),
             click \in {"reconcile", "action"} => ui.runtime # None,
             click = "action" => IsLive(ui.tracker) /\ SameIdentity
      PROVE  Inv'
  <2>1. /\ handler' = [click |-> click, target |-> Target, tracker |-> ui.tracker]
        /\ UNCHANGED <<ui, shown, job, threadVars>> /\ ~Busy
    BY <1>4 DEF Copies
  <2>2. Target \in Targets /\ Target.address = ui.address /\ Target.runtime = ui.runtime
    BY <1>1, TargetType
  <2>3. HandlerType'
    BY <1>1, <2>1, <2>2 DEF HandlerType, Handlers
  <2>4. TypeOK'
    BY <1>1, <1>3, <2>1, <2>3 DEF TypeOK, UiType, JobType, DispatchType, HandlerType, OtherTypes
  <2>5. ~ui.tracker.loading /\ dispatch.at = "off"
    BY <1>2, <2>1 DEF Busy, DispatchInv
  <2>6. HandlerInv'
    BY <1>4, <2>1, <2>2, <2>5 DEF HandlerInv, SameIdentity, IsLive
  <2>7. JobInv' /\ DispatchInv' /\ LoadingIsServed'
    BY <1>2, <2>1 DEF JobInv, DispatchInv, LoadingIsServed, Refreshes
  <2>. QED
    BY <2>4, <2>6, <2>7 DEF Inv, SafetyInv
<1>5. CASE ClickReconcile
  BY <1>4, <1>5 DEF ClickReconcile
<1>6. CASE ClickRuntime
  BY <1>4, <1>6 DEF ClickRuntime
<1>7. CASE ClickAction
  <2>1. ui.runtime # None
    BY <1>1, <1>7, ControlAssumption
       DEF ClickAction, IsLive, SameIdentity, UiType, Trackers, Snapshots
  <2>. QED
    BY <1>4, <1>7, <2>1 DEF ClickAction
<1>8. CASE (\E a \in Addresses : EditAddress(a)) \/ (\E k \in Auths : EditAuth(k))
  <2>1. UNCHANGED <<shown, handler, job, threadVars>>
    BY <1>8 DEF EditAddress, EditAuth
  <2>2. Invalidate(ui.tracker) \in Trackers /\ ~Invalidate(ui.tracker).loading
    BY <1>1, TrackerType DEF Answers
  <2>3. \/ \E a \in Addresses : ui' = [ui EXCEPT !.address = a, !.tracker = Invalidate(ui.tracker)]
        \/ \E k \in Auths : ui' = [ui EXCEPT !.auth = k, !.tracker = Invalidate(ui.tracker)]
    BY <1>8 DEF EditAddress, EditAuth
  <2>4. /\ UiType' /\ ui'.pending = ui.pending /\ ui'.operation = ui.operation
        /\ ~ui'.tracker.loading
    BY <1>1, <2>2, <2>3 DEF UiType
  <2>5. TypeOK'
    BY <1>1, <1>3, <2>1, <2>4 DEF TypeOK, UiType, JobType, DispatchType, HandlerType, OtherTypes
  <2>6. SafetyInv'
    BY <1>2, <1>3, <2>1, <2>4
       DEF SafetyInv, HandlerInv, JobInv, DispatchInv, LoadingIsServed
  <2>. QED
    BY <2>5, <2>6 DEF Inv
<1>. QED
  BY <1>5, <1>6, <1>7, <1>8 DEF Events

\* A handler writes what it copied.
LEMMA WritingStep ==
  ASSUME Inv, Writing
  PROVE  Inv'
<1>. USE DEF threadVars
<1>1. /\ UiType /\ JobType /\ DispatchType /\ HandlerType /\ OtherTypes /\ TypeOK
      /\ ui.tracker \in Trackers
  BY Types DEF Inv, UiType
<1>2. HandlerInv /\ JobInv /\ DispatchInv
  BY DEF Inv, SafetyInv
<1>3. handler # None /\ handler' = None
  BY DEF Writing, BeginReconcile, BeginRuntime, BeginAction
<1>4. handler.target \in Targets /\ handler.tracker \in Trackers /\ NoTarget \in Targets
  BY <1>1, <1>3, TargetType DEF HandlerType, Handlers
<1>5. ASSUME NEW t \in Threads, NEW j \in Jobs, job' = [job EXCEPT ![t] = j],
             NEW tracker \in Trackers, ui' = [ui EXCEPT !.tracker = tracker],
             UNCHANGED <<shown, threadVars, events>>,
             \/ j.at = "ask" /\ j.target.runtime # None
             \/ j.at = "askRuntime" /\ ~j.previous.loading
      PROVE  Inv'
  <2>1. \A s \in Threads : job'[s] = IF s = t THEN j ELSE job[s]
    BY <1>1, <1>5 DEF JobType
  <2>2. UiType' /\ ui'.pending = ui.pending /\ ui'.operation = ui.operation
    BY <1>1, <1>5 DEF UiType
  <2>3. TypeOK'
    BY <1>1, <1>3, <1>5, <2>2
       DEF TypeOK, UiType, JobType, DispatchType, HandlerType, OtherTypes
  <2>4. HandlerInv' /\ DispatchInv'
    BY <1>2, <1>3, <1>5, <2>2 DEF HandlerInv, DispatchInv
  <2>5. JobInv' /\ LoadingIsServed'
    BY <1>2, <1>5, <2>1 DEF JobInv, LoadingIsServed, Refreshes
  <2>. QED
    BY <2>3, <2>4, <2>5 DEF Inv, SafetyInv
<1>6. ASSUME NEW t \in Threads, BeginReconcile(t)
      PROVE  Inv'
  <2>1. PICK j : j = [NoJob(handler.target) EXCEPT !.at = "ask"]
    OBVIOUS
  <2>2. j \in Jobs /\ j.at = "ask" /\ j.target = handler.target
    BY <1>4, <2>1, NoJobType
  <2>3. handler.target.runtime # None
    BY <1>2, <1>6 DEF HandlerInv, BeginReconcile
  <2>4. BeginRefresh(ui.tracker) \in Trackers
    BY <1>1, TrackerType DEF Answers
  <2>5. /\ job' = [job EXCEPT ![t] = j]
        /\ ui' = [ui EXCEPT !.tracker = BeginRefresh(ui.tracker)]
        /\ UNCHANGED <<shown, threadVars, events>>
    BY <1>6, <2>1 DEF BeginReconcile
  <2>. QED
    BY <1>5, <2>2, <2>3, <2>4, <2>5
<1>7. ASSUME NEW t \in Threads, BeginRuntime(t)
      PROVE  Inv'
  <2>1. PICK j : j = [NoJob(NoTarget) EXCEPT !.at = "askRuntime", !.previous = handler.tracker]
    OBVIOUS
  <2>2. j \in Jobs /\ j.at = "askRuntime" /\ j.previous = handler.tracker
    BY <1>4, <2>1 DEF NoJob, EmptyTracker, Jobs, Answers
  <2>3. ~handler.tracker.loading
    BY <1>2, <1>3 DEF HandlerInv
  <2>4. [ui.tracker EXCEPT !.loading = TRUE] \in Trackers
    BY <1>1, TrackerType DEF Answers
  <2>5. /\ job' = [job EXCEPT ![t] = j]
        /\ ui' = [ui EXCEPT !.tracker = [ui.tracker EXCEPT !.loading = TRUE]]
        /\ UNCHANGED <<shown, threadVars, events>>
    BY <1>7, <2>1 DEF BeginRuntime
  <2>. QED
    BY <1>5, <2>2, <2>3, <2>4, <2>5
<1>8. CASE BeginAction
  <2>1. /\ dispatch' = [dispatch EXCEPT !.at = "poll", !.target = handler.target]
        /\ operator' = "open" /\ ui' = [ui EXCEPT !.pending = TRUE]
        /\ UNCHANGED <<shown, controller, job, installed, events>>
    BY <1>8 DEF BeginAction
  <2>2. handler.target.runtime # None /\ dispatch.at = "off"
    BY <1>2, <1>3, <1>8 DEF HandlerInv, BeginAction
  <2>3. DispatchType' /\ dispatch'.at = "poll" /\ dispatch'.target = handler.target
    BY <1>1, <1>4, <2>1 DEF DispatchType
  <2>4. UiType' /\ ui'.pending /\ ui'.tracker = ui.tracker /\ ui'.operation = ui.operation
    BY <1>1, <2>1 DEF UiType
  <2>5. TypeOK'
    BY <1>1, <1>3, <2>1, <2>3, <2>4
       DEF TypeOK, UiType, JobType, DispatchType, HandlerType, OtherTypes
  <2>6. DispatchInv'
    BY <1>2, <2>1, <2>2, <2>3, <2>4 DEF DispatchInv
  <2>7. HandlerInv' /\ JobInv' /\ LoadingIsServed'
    BY <1>2, <1>3, <2>1, <2>4 DEF HandlerInv, JobInv, LoadingIsServed, Refreshes, Inv, SafetyInv
  <2>. QED
    BY <2>5, <2>6, <2>7 DEF Inv, SafetyInv
<1>. QED
  BY <1>6, <1>7, <1>8 DEF Writing

\* The thread of the operation and the dispatcher.
LEMMA DispatchStep ==
  ASSUME Inv, Operating \/ Dispatching \/ PollController \/ DispatcherPanics
  PROVE  Inv'
<1>1. /\ UiType /\ JobType /\ DispatchType /\ HandlerType /\ OtherTypes /\ TypeOK
      /\ ui.tracker \in Trackers
  BY Types DEF Inv, UiType
<1>2. HandlerInv /\ JobInv /\ DispatchInv /\ LoadingIsServed
  BY DEF Inv, SafetyInv
<1>3. dispatch.at # "off"
  BY <1>2 DEF DispatchInv, Operating, Dispatching, OpenStore, BeginOperation, EndOperation,
              OperatorPanics, JoinOperator, AskAfterOperation, WriteAction, PollController,
              DispatcherPanics
<1>4. handler = None /\ UNCHANGED <<shown, handler, job, installed, events>>
  BY <1>2, <1>3 DEF HandlerInv, Operating, Dispatching, OpenStore, BeginOperation, EndOperation,
                    OperatorPanics, JoinOperator, AskAfterOperation, WriteAction, PollController,
                    DispatcherPanics
<1>5. HandlerInv' /\ JobInv' /\ JobType' /\ HandlerType'
  BY <1>1, <1>2, <1>4 DEF HandlerInv, JobInv, JobType, HandlerType
<1>6. SUFFICES UiType' /\ DispatchType' /\ OtherTypes' /\ DispatchInv' /\ LoadingIsServed'
  BY <1>5 DEF Inv, SafetyInv, TypeOK, UiType, JobType, DispatchType, HandlerType, OtherTypes
<1>7. CASE Operating
  <2>1. UNCHANGED <<ui, dispatch>>
    BY <1>7 DEF Operating, OpenStore, BeginOperation, EndOperation, OperatorPanics
  <2>2. /\ controller' \in Controller!OperationStates
        /\ operator' \in {"begin", "failed", "run", "done", "panicked"}
        /\ controller' = "Running" => operator' \in {"run", "panicked"}
        /\ operator \in {"open", "begin", "run"}
    BY <1>1, <1>2, <1>7
       DEF Operating, OpenStore, BeginOperation, EndOperation, OperatorPanics, OtherTypes,
           Controller!Begins, Controller!Ends, Controller!Outcomes, Controller!OperationStates,
           DispatchInv
  <2>3. dispatch.at = "poll"
    BY <1>1, <1>2, <1>3, <2>2 DEF DispatchInv, DispatchType
  <2>. QED
    BY <1>1, <1>2, <1>4, <2>1, <2>2, <2>3
       DEF UiType, DispatchType, OtherTypes, DispatchInv, LoadingIsServed, Refreshes
<1>8. CASE PollController
  <2>1. /\ ui' = [ui EXCEPT !.operation = controller] /\ UNCHANGED <<controller, dispatch, operator>>
        /\ dispatch.at = "poll"
    BY <1>8 DEF PollController
  <2>2. UiType' /\ ui'.pending = ui.pending /\ ui'.tracker = ui.tracker
    BY <1>1, <2>1 DEF UiType, OtherTypes
  <2>. QED
    BY <1>1, <1>2, <1>4, <2>1, <2>2
       DEF DispatchType, OtherTypes, DispatchInv, LoadingIsServed, Refreshes
<1>9. CASE JoinOperator
  <2>1. /\ dispatch' = [dispatch EXCEPT !.at = "ask", !.final = Recovered]
        /\ UNCHANGED <<ui, controller, operator>>
        /\ operator \in {"failed", "done", "panicked"}
    BY <1>9 DEF JoinOperator
  <2>2. Recovered \in Controller!OperationStates /\ Recovered # "Running"
    BY <1>1, <1>2, <2>1
       DEF Recovered, OtherTypes, DispatchInv, Controller!OperationStates, Controller!Outcomes
  <2>3. /\ DispatchType' /\ dispatch'.at = "ask" /\ dispatch'.final = Recovered
        /\ dispatch'.target = dispatch.target
    BY <1>1, <2>1, <2>2 DEF DispatchType
  <2>. QED
    BY <1>1, <1>2, <1>3, <1>4, <2>1, <2>2, <2>3
       DEF UiType, OtherTypes, DispatchInv, LoadingIsServed, Refreshes
<1>10. CASE AskAfterOperation
  <2>1. PICK answer \in {dispatch.target, None} :
          dispatch' = [dispatch EXCEPT !.at = "write", !.answer = answer]
    BY <1>10 DEF AskAfterOperation
  <2>2. answer \in Answers
    BY <1>1, <1>2, <1>3, AnswerType DEF DispatchInv, DispatchType
  <2>3. /\ DispatchType' /\ dispatch'.at = "write" /\ dispatch'.final = dispatch.final
        /\ dispatch'.target = dispatch.target
    BY <1>1, <2>1, <2>2 DEF DispatchType
  <2>4. UNCHANGED <<ui, controller, operator>> /\ dispatch.at = "ask"
    BY <1>10 DEF AskAfterOperation
  <2>. QED
    BY <1>1, <1>2, <1>4, <2>3, <2>4 DEF UiType, OtherTypes, DispatchInv, LoadingIsServed, Refreshes
<1>11. CASE DispatcherPanics
  <2>1. dispatch' = [dispatch EXCEPT !.at = "panicked"] /\ dispatch.at = "ask"
    BY <1>11 DEF DispatcherPanics
  <2>2. /\ DispatchType' /\ dispatch'.at = "panicked" /\ dispatch'.final = dispatch.final
        /\ dispatch'.target = dispatch.target
    BY <1>1, <2>1 DEF DispatchType
  <2>3. UNCHANGED <<ui, controller, operator>>
    BY <1>11 DEF DispatcherPanics
  <2>. QED
    BY <1>1, <1>2, <1>4, <2>1, <2>2, <2>3
       DEF UiType, OtherTypes, DispatchInv, LoadingIsServed, Refreshes
<1>12. CASE WriteAction
  <2>1. /\ ui' = [ui EXCEPT !.pending = FALSE, !.operation = dispatch.final,
                            !.tracker = Reconcile(ui.tracker, dispatch.answer)]
        /\ controller' = (IF operator = "panicked" THEN "Idle" ELSE controller)
        /\ dispatch' = [at |-> "off", target |-> NoTarget, answer |-> None, final |-> "Idle"]
        /\ operator' = "off" /\ dispatch.at = "write"
    BY <1>12 DEF WriteAction
  <2>2. /\ Reconcile(ui.tracker, dispatch.answer) \in Trackers
        /\ ~Reconcile(ui.tracker, dispatch.answer).loading
    BY <1>1, TrackerType DEF DispatchType
  <2>3. /\ UiType' /\ ~ui'.pending /\ ui'.operation = dispatch.final /\ ~ui'.tracker.loading
    BY <1>1, <2>1, <2>2 DEF UiType, DispatchType
  <2>4. DispatchType' /\ dispatch'.at = "off"
    BY <1>1, <2>1, TargetType DEF DispatchType, Answers, Controller!OperationStates
  <2>5. controller' \in Controller!OperationStates /\ controller' # "Running"
    BY <1>1, <1>2, <2>1 DEF OtherTypes, DispatchInv, Controller!OperationStates
  <2>6. dispatch.final # "Running"
    BY <1>2, <2>1 DEF DispatchInv
  <2>. QED
    BY <1>1, <1>4, <2>1, <2>3, <2>4, <2>5, <2>6 DEF OtherTypes, DispatchInv, LoadingIsServed
<1>. QED
  BY <1>7, <1>8, <1>9, <1>10, <1>11, <1>12 DEF Dispatching

LEMMA Step == Inv /\ [Next]_vars => Inv'
<1>. SUFFICES ASSUME Inv, [Next]_vars PROVE Inv'
  OBVIOUS
<1>1. /\ UiType /\ JobType /\ DispatchType /\ HandlerType /\ OtherTypes
  BY Types DEF Inv
<1>2. ASSUME UNCHANGED <<ui, handler, controller, job, dispatch, operator, events>>,
             shown' \in BOOLEAN, installed' \in Runtimes \cup {None}
      PROVE  Inv'
  BY <1>1, <1>2 DEF Inv, TypeOK, UiType, JobType, DispatchType, HandlerType, OtherTypes,
     SafetyInv, HandlerInv, JobInv, DispatchInv, LoadingIsServed, Refreshes, IsLive
<1>3. CASE UNCHANGED vars
  BY <1>1, <1>2, <1>3 DEF vars, OtherTypes
<1>4. CASE Render
  BY <1>1, <1>2, <1>4 DEF Render, threadVars, OtherTypes, Busy, UiType, Trackers
<1>5. CASE \E r \in Runtimes : SelectInstallation(r)
  BY <1>1, <1>2, <1>5 DEF SelectInstallation, OtherTypes
<1>. QED
  BY <1>3, <1>4, <1>5, EventsStep, WritingStep, RefreshingStep, DispatchStep DEF Next

LEMMA Invariant == Spec => []Inv
  BY InitInv, Step, PTL DEF Spec

-----------------------------------------------------------------------------

(* The variables have their types: what a late thread writes into the view *)
(* is a snapshot of the target it was started with, or a tracker.          *)
THEOREM TypeCorrect == Spec => []TypeOK
<1>1. Inv => TypeOK
  BY DEF Inv
<1>. QED
  BY <1>1, Invariant, PTL

(* The view is busy only while a thread has yet to end it, however         *)
(* refreshes, edits and operations overlap and whoever panics.             *)
THEOREM BusyServed == Spec => []BusyIsServed
<1>1. Inv => BusyIsServed
  BY DEF Inv, SafetyInv, DispatchInv, LoadingIsServed, BusyIsServed
<1>. QED
  BY <1>1, Invariant, PTL

(* An operation is dispatched to the endpoint and runtime of the live      *)
(* snapshot it was decided on, whatever was written meanwhile.             *)
THEOREM MutationOfSnapshot == Spec => MutationIsOfSnapshot
<1>1. ASSUME Inv, [Next]_vars, dispatch.at # "poll", dispatch'.at = "poll"
      PROVE  /\ IsLive(handler.tracker)
             /\ handler.tracker.current.address = dispatch'.target.address
             /\ handler.tracker.current.runtime = dispatch'.target.runtime
  <2>1. DispatchType /\ HandlerType
    BY <1>1, Types DEF Inv
  <2>2. dispatch' # dispatch
    BY <1>1
  <2>3. ~Events /\ ~Render /\ ~PollController /\ vars' # vars
    BY <2>2
       DEF vars, Events, Copies, ClickReconcile, ClickRuntime, ClickAction, EditAddress, EditAuth,
           threadVars, Render, PollController
  <2>4. /\ ~(\E t \in Threads : BeginReconcile(t) \/ BeginRuntime(t))
        /\ ~(\E r \in Runtimes : SelectInstallation(r))
    BY <2>2 DEF BeginReconcile, BeginRuntime, SelectInstallation, threadVars
  <2>5. ~(\E t \in Threads : Refreshing(t) \/ RefreshPanics(t))
    BY <2>2
       DEF Refreshing, RefreshPanics, AskRouter, WriteRefresh, AskRuntime, WriteRuntime, threadVars
  <2>6. ~Operating
    BY <2>2 DEF Operating, OpenStore, BeginOperation, EndOperation, OperatorPanics
  <2>7. ~JoinOperator /\ ~AskAfterOperation /\ ~WriteAction /\ ~DispatcherPanics
    <3>1. /\ JoinOperator => dispatch'.at = "ask"
          /\ AskAfterOperation => dispatch'.at = "write"
          /\ DispatcherPanics => dispatch'.at = "panicked"
      BY <2>1 DEF JoinOperator, AskAfterOperation, DispatcherPanics, DispatchType
    <3>2. WriteAction => dispatch'.at = "off"
      BY DEF WriteAction
    <3>. QED
      BY <1>1, <3>1, <3>2
  <2>8. BeginAction
    BY <1>1, <2>3, <2>4, <2>5, <2>6, <2>7 DEF Next, Writing, Dispatching
  <2>9. handler # None /\ handler.click = "action" /\ dispatch'.target = handler.target
    BY <2>1, <2>8 DEF BeginAction, DispatchType
  <2>. QED
    BY <1>1, <2>9 DEF Inv, SafetyInv, HandlerInv
<1>2. Inv /\ [Next]_vars =>
        [dispatch.at # "poll" /\ dispatch'.at = "poll" =>
           /\ IsLive(handler.tracker)
           /\ handler.tracker.current.address = dispatch'.target.address
           /\ handler.tracker.current.runtime = dispatch'.target.runtime]_vars
  BY <1>1
<1>. QED
  BY <1>2, Invariant, PTL DEF Spec, MutationIsOfSnapshot
=============================================================================
