---------------------------- MODULE SwitchBenchmark ----------------------------
(***************************************************************************)
(* run_switch_round_trip (router_switch_benchmark.rs): one thread that     *)
(* takes a router from model A to model B and back with the operations of  *)
(* a controller of its own (RouterOperations), asks the target of each leg *)
(* for a token, and brings A back when something fails.  Other clients use *)
(* the router all the while.  A run that has ended may be stored.          *)
(***************************************************************************)
EXTENDS RouterOperations, Sequences

CONSTANTS
  A, B,         \* config.model_a, config.model_b
  Thread,       \* the caller; the controller is its own
  MaxRuns,      \* bound: round trips
  MaxIntrusions \* bound: loads and unloads that are not of this program

CallsPerRun == 7

ASSUME BenchmarkAssumption ==
  /\ {A, B} \subseteq Models /\ A # B
  /\ Thread \in Callers
  /\ None \notin [recovered : BOOLEAN, last : Statuses \cup {None}]
  /\ MaxIntrusions \in Nat /\ MaxRuns \in Nat /\ MaxCalls >= CallsPerRun * MaxRuns

VARIABLES
  trip,         \* the round trip under way
  stored,       \* RouterSwitchBenchmarkStore, in the order of the runs
  intrusions

allVars == <<vars, trip, stored, intrusions>>

Trip == <<[source |-> A, target |-> B], [source |-> B, target |-> A]>>

NotStarted ==
  [step |-> "idle", loads |-> [m \in Models |-> 0], history |-> 0,
   final |-> None, legs |-> <<>>, outcome |-> None, recovery |-> None]

BenchmarkInit == Init /\ trip = NotStarted /\ stored = <<>> /\ intrusions = 0

Leg == Trip[Len(trip.legs) + 1]

\* The operation each step calls.
Unloads(m) == [kind |-> "Unload", source |-> m, target |-> None]
Loads(m) == [kind |-> "Load", source |-> None, target |-> m]
Asked(step) ==
  CASE step = "baselineUnload" -> Unloads(B)
    [] step = "baselineLoad"   -> Loads(A)
    [] step = "unload"         -> Unloads(Leg.source)
    [] step = "load"           -> Loads(Leg.target)
    [] step = "recovery"       -> Loads(A)
CallSteps == {"baselineUnload", "baselineLoad", "unload", "load", "recovery"}
\* The phase of a failure, as far as it matters: during the setup and the
\* baseline, or in a leg.
Phase(step) ==
  IF step \in {"setup", "baselineUnload", "baselineLoad"} THEN "baseline" ELSE "leg"

-----------------------------------------------------------------------------
(* Steps of the round trip                                                 *)

Counted(m) == [trip.loads EXCEPT ![m] = @ + 1]

\* A failure is recorded with its phase, then A is brought back; what the
\* leg has measured so far is lost.
Fails ==
  [NotStarted EXCEPT !.step = "recovery", !.outcome = Phase(trip.step),
                     !.legs = trip.legs]

\* What follows an operation that succeeded.
Succeeds ==
  CASE trip.step = "baselineUnload" -> [trip EXCEPT !.step = "baselineLoad"]
    [] trip.step = "baselineLoad" ->
         [trip EXCEPT !.step = "unload", !.loads[A] = 1]
    [] trip.step = "unload" ->
         [trip EXCEPT !.step = "load", !.history = trip.loads[Leg.target]]
    [] trip.step = "load" ->
         [trip EXCEPT !.step = "readiness", !.loads = Counted(Leg.target)]

\* recover_a; last is A in the registry that is kept as evidence.
Recovered(last) ==
  [trip EXCEPT !.step = "ended",
     !.recovery = [recovered |-> result[Thread] = "ok" /\ last = Clear("ready"),
                   last |-> last]]

Start ==
  /\ trip.step = "idle"
  /\ Len(stored) < MaxRuns /\ calls + CallsPerRun <= MaxCalls
  /\ trip' = [NotStarted EXCEPT !.step = "setup"]
  /\ UNCHANGED <<vars, stored, intrusions>>

\* prepare_envelope: without an envelope nothing was changed, and nothing is
\* brought back.
Prepare ==
  /\ trip.step = "setup"
  /\ \/ trip' = [trip EXCEPT !.step = "baselineUnload"]
     \/ trip' = [trip EXCEPT !.step = "ended", !.outcome = Phase("setup")]
  /\ UNCHANGED <<vars, stored, intrusions>>

Call ==
  /\ trip.step \in CallSteps
  /\ Begin(Thread, Asked(trip.step))
  /\ UNCHANGED <<trip, stored, intrusions>>

Operate ==
  /\ ~At(Thread, "finish")
  /\ CallerStep(Thread)
  /\ UNCHANGED <<trip, stored, intrusions>>

Return ==
  /\ Finish(Thread)
  /\ \/ /\ trip.step = "recovery"
        /\ \E last \in IF result[Thread] = "ok" THEN {registry[Thread][A]}
                       ELSE {None, status[A]} :
             trip' = Recovered(last)
     \/ /\ trip.step # "recovery"
        /\ trip' = IF result[Thread] = "ok" THEN Succeeds ELSE Fails
  /\ UNCHANGED <<stored, intrusions>>

\* Mutant: the load that returned is confirmation enough.
ConfirmAnyway ==
  /\ trip.step = "readiness"
  /\ trip' = [trip EXCEPT !.step = "firstToken", !.final = status[Leg.target]]
  /\ UNCHANGED <<vars, stored, intrusions>>

\* run_leg reads the registry again: another client may have been quicker.
Confirm ==
  /\ trip.step = "readiness"
  /\ \/ /\ Serves(status, Leg.target)
        /\ trip' = [trip EXCEPT !.step = "firstToken", !.final = status[Leg.target]]
     \/ trip' = Fails
  /\ UNCHANGED <<vars, stored, intrusions>>

\* measure_first_token.  A request for a model that is not there may make
\* the router load it.
Token ==
  /\ trip.step = "firstToken"
  /\ \/ LET last == Len(trip.legs) + 1 = Len(Trip) IN
        trip' = [trip EXCEPT
           !.legs = Append(@, [target |-> Leg.target, history |-> trip.history,
                               final |-> trip.final]),
           !.final = None, !.history = 0,
           !.step = IF last THEN "ended" ELSE "unload",
           !.outcome = IF last THEN "succeeded" ELSE None]
     \/ trip' = Fails
  /\ UNCHANGED status \/ LoadAccepted(Leg.target)
  /\ UNCHANGED <<controller, callerVars, cancelled, calls, stored, intrusions>>

\* The run is returned to the caller, who stores it, or cannot.
Store ==
  /\ trip.step = "ended"
  /\ trip' = NotStarted
  /\ \/ stored' = Append(stored, [outcome |-> trip.outcome, legs |-> trip.legs,
                                  recovery |-> trip.recovery])
     \/ UNCHANGED stored
  /\ UNCHANGED <<vars, intrusions>>

Bench == Start \/ Prepare \/ Call \/ Operate \/ Return \/ Confirm \/ Token \/ Store

World ==
  \E m \in Models :
    /\ RouterStep(m)
    /\ IF status[m].phase = "loading" /\ status'[m] # Clear("unloaded") THEN UNCHANGED intrusions
       ELSE intrusions < MaxIntrusions /\ intrusions' = intrusions + 1
    /\ UNCHANGED <<trip, stored>>

BenchmarkNext == Bench \/ World

BenchmarkSpec == BenchmarkInit /\ [][BenchmarkNext]_allVars

(***************************************************************************)
(* The thread goes on, every exchange has a timeout, and the deadline of a *)
(* wait comes.                                                             *)
(***************************************************************************)
FairBenchmarkSpec ==
  /\ BenchmarkSpec
  /\ WF_allVars(Bench)
  /\ WF_allVars(WaitTimeout(Thread) /\ UNCHANGED <<trip, stored, intrusions>>)

-----------------------------------------------------------------------------
(* compare_switch_runs: only two round trips that both succeeded.          *)
Compared(left, right) ==
  /\ left.outcome = "succeeded" /\ right.outcome = "succeeded"
  /\ Len(left.legs) = 2 /\ Len(right.legs) = 2

(***************************************************************************)
(* A run is what its record says, whoever else used the router: it         *)
(* succeeded with both legs, from A to B and back, each with a registry    *)
(* that shows its target ready and the loads of that target the run had    *)
(* made before; a run that failed after its setup tried to bring A back,   *)
(* and says it did only with a registry that shows A ready.                *)
(***************************************************************************)
RunIsWhatItSays ==
  \A i \in DOMAIN stored :
    LET run == stored[i] IN
    /\ run.outcome = "succeeded" <=> Len(run.legs) = Len(Trip)
    /\ Compared(run, run) => run.recovery = None
    /\ \A j \in DOMAIN run.legs :
         /\ run.legs[j].target = Trip[j].target
         /\ run.legs[j].history = j - 1
         /\ run.legs[j].final = Clear("ready")
    /\ run.outcome = "leg" => run.recovery # None
    /\ run.recovery # None =>
         (run.recovery.recovered => run.recovery.last = Clear("ready"))

(***************************************************************************)
(* Every round trip ends, whether the router answers, stalls or undoes     *)
(* what was done: a failure is followed by one recovery, never by another. *)
(***************************************************************************)
TripEnds == trip.step # "idle" ~> trip.step = "idle"
=============================================================================
