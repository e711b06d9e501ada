------------------------- MODULE InferenceTelemetry -------------------------
(***************************************************************************)
(* The inference panel (inference_telemetry_ui_live.rs): a monitor that    *)
(* polls the metrics of the attached endpoint (passive_inference_metrics.rs*)
(* ) and probes that send a request to it (streaming_inference_probe.rs,   *)
(* streaming_inference_probe_router.rs), each on a thread, while behind the*)
(* endpoint a router loads, unloads and chooses among models, every one    *)
(* served by a child process with a port of its own.                       *)
(***************************************************************************)
EXTENDS InferenceEvidence, FiniteSets, FiniteSetsExt

CONSTANTS
    None,
    Endpoints, Router,  \* what the user can name; one of them is a router
    CanStop,            \* endpoints that may go down
    Denied,             \* endpoints refused without the LAN opt-in
    Models,
    Preloaded, Occupied,    \* models loaded and busy at the start
    TellsPort,          \* models whose entry in the router's list has a port
    Streams,            \* what a server may answer a completion with
    Probes,             \* threads
    RetryAttempts,      \* RETRY_ATTEMPTS
    MaxClicks,          \* bound: buttons pressed
    MaxIncidents        \* bound: changes behind the endpoints, timeouts

ASSUME InferenceAssumption ==
    /\ Router \in Endpoints /\ Denied \cup CanStop \subseteq Endpoints
    /\ RetryAttempts \in Nat \ {0}
    /\ Preloaded \in Seq(Models) /\ IsInjective(Preloaded) /\ Occupied \subseteq Range(Preloaded)
    /\ None \notin Endpoints \cup Models
    /\ None \notin [ok : {TRUE}, reachable : {TRUE}, model : Models \cup {None},
                    source : Endpoints \cup Nat, via : Endpoints]

VARIABLES
    world,      \* [up, children, owners]
    form,       \* the endpoint in the fields of the panel
    panel,      \* InferenceUiState
    monitor,    \* the monitor's thread
    probes,     \* probe -> its thread
    spent       \* [clicks, incidents]

vars == <<world, form, panel, monitor, probes, spent>>

IdleMonitor == [pc |-> "read", endpoint |-> None, generation |-> 0, attempt |-> 0,
                target |-> None, outcome |-> None]
IdleProbe == [pc |-> "idle", endpoint |-> None, model |-> None, target |-> None,
              result |-> None]

Init ==
    /\ world = [up |-> Endpoints, owners |-> Preloaded,
                children |-> [m \in Models |->
                    IF m \notin Range(Preloaded) THEN None
                    ELSE LET at == CHOOSE i \in DOMAIN Preloaded : Preloaded[i] = m
                         IN [port |-> at, used |-> at, busy |-> m \in Occupied]]]
    /\ form = Router
    /\ panel = [endpoint |-> None, generation |-> 0, passive |-> None, passiveStale |-> FALSE,
                reachable |-> None, request |-> None, requestStale |-> FALSE, probing |-> FALSE]
    /\ monitor = IdleMonitor
    /\ probes = [p \in Probes |-> IdleProbe]
    /\ spent = [clicks |-> 0, incidents |-> 0]

-----------------------------------------------------------------------------
(* Behind the endpoints.  A child has a port no other child had: owners    *)
(* remembers whose it was.                                                 *)

Incident(new) ==
    /\ spent.incidents < MaxIncidents
    /\ spent' = [spent EXCEPT !.incidents = @ + 1]
    /\ world' = new
    /\ UNCHANGED <<form, panel, monitor, probes>>

Loaded == {m \in Models : world.children[m] # None}
Newest == Max({0} \cup {world.children[m].used : m \in Loaded})

Load ==
    \E m \in Models \ Loaded, used \in {Newest, Newest + 1} :
        Incident([world EXCEPT
            !.children[m] = [port |-> Len(world.owners) + 1, used |-> used, busy |-> FALSE],
            !.owners = Append(@, m)])
Unload == \E m \in Loaded : Incident([world EXCEPT !.children[m] = None])
Use == \E m \in Loaded :
        /\ world.children[m].used < Newest
        /\ Incident([world EXCEPT !.children[m].used = Newest + 1])
Occupy == \E m \in Loaded : Incident([world EXCEPT !.children[m].busy = ~@])
GoDown == \E e \in world.up \cap CanStop :
        Incident([world EXCEPT !.up = @ \ {e},
            !.children = IF e = Router THEN [m \in Models |-> None] ELSE @])
ComeUp == \E e \in Endpoints \ world.up : Incident([world EXCEPT !.up = @ \cup {e}])

(* The process behind a target, an endpoint or a port, answers.            *)
Serves(port) == \E m \in Loaded : world.children[m].port = port
Alive(target) == IF target \in Endpoints THEN target \in world.up ELSE Serves(target)
ModelAt(port) == world.owners[port]

(* A request takes too long.                                               *)
TimesOut ==
    /\ spent.incidents < MaxIncidents
    /\ spent' = [spent EXCEPT !.incidents = @ + 1]

(* select_router_child, select_loaded_router_model: the only one, or the   *)
(* only one that was used last.                                            *)
Selected ==
    LET newest == {m \in Loaded : world.children[m].used = Newest} IN
    CASE Cardinality(Loaded) = 1 -> CHOOSE m \in Loaded : TRUE
      [] Cardinality(Loaded) > 1 /\ Cardinality(newest) = 1 -> CHOOSE m \in newest : TRUE
      [] OTHER -> None

PortOf(m) == world.children[m].port

-----------------------------------------------------------------------------
(* The panel.                                                              *)

Click == spent' = [spent EXCEPT !.clicks = @ + 1]

EditForm ==
    /\ ~panel.probing /\ spent.clicks < MaxClicks
    /\ \E e \in Endpoints \ {form} : form' = e
    /\ UNCHANGED <<world, panel, monitor, probes, spent>>

(* attach_monitor *)
Attached(e) ==
    LET changed == panel.endpoint \notin {None, e} IN
    [panel EXCEPT
        !.endpoint = e, !.reachable = None, !.generation = @ + 1,
        !.passive = IF changed THEN None ELSE @,
        !.passiveStale = IF changed THEN FALSE ELSE @,
        !.requestStale = @ \/ (changed /\ panel.request # None)]

Attach ==
    /\ spent.clicks < MaxClicks /\ Click
    /\ panel' = Attached(form)
    /\ UNCHANGED <<world, form, monitor, probes>>

(* RUN 4-TOKEN PROBE: a thread for each click the button still allows.     *)
(* Threads have no identity, so the first free one stands for a new one.   *)
RunProbe(p) ==
    /\ ~panel.probing /\ probes[p].pc = "idle"
    /\ p = CHOOSE q \in Probes : probes[q].pc = "idle"
    /\ spent.clicks < MaxClicks /\ Click
    /\ probes' = [probes EXCEPT ![p] = [IdleProbe EXCEPT !.pc = "attach", !.endpoint = form]]
    /\ UNCHANGED <<world, form, panel, monitor>>

-----------------------------------------------------------------------------
(* The monitor.  It reads the endpoint and its generation, then asks: what *)
(* happens between the two might as well have happened before, or throws   *)
(* the outcome away.                                                       *)

MonitorReads ==
    [IdleMonitor EXCEPT !.endpoint = panel.endpoint, !.generation = panel.generation]

(* resolve_passive_metrics_target: no answer, no router or no choice means *)
(* the endpoint itself.                                                    *)
MonitorDiscovers ==
    LET polling == IF monitor.pc = "read" THEN MonitorReads ELSE monitor
        e == polling.endpoint
        Target(at, m) == [polling EXCEPT !.pc = "poll", !.target = [at |-> at, model |-> m]]
    IN  /\ monitor.pc \in {"read", "discover"} /\ panel.endpoint # None
        /\ \/ /\ monitor' =
                    IF e \in Denied THEN [polling EXCEPT !.pc = "reach"]
                    ELSE IF e # Router \/ e \notin world.up \/ Selected = None
                    THEN Target(e, None)
                    ELSE Target(IF Selected \in TellsPort THEN PortOf(Selected) ELSE e, Selected)
              /\ UNCHANGED spent
           \/ e = Router /\ e \notin Denied /\ TimesOut /\ monitor' = Target(e, None)
        /\ UNCHANGED <<world, form, panel, probes>>

(* should_retry: after a failed connection, a timeout or the refusal of a  *)
(* router all begins again with the discovery.                             *)
Retried ==
    IF monitor.attempt + 1 < RetryAttempts
    THEN [monitor EXCEPT !.pc = "discover", !.attempt = @ + 1, !.target = None]
    ELSE [monitor EXCEPT !.pc = "reach", !.target = None]

(* poll_once after its discovery: a router does not answer /metrics for    *)
(* its children.                                                           *)
MonitorPolls ==
    LET target == monitor.target IN
    /\ monitor.pc = "poll"
    /\ \/ /\ Alive(target.at) /\ target.at # Router
          /\ monitor' = [monitor EXCEPT !.pc = "write", !.target = None, !.outcome =
                [ok |-> TRUE, reachable |-> TRUE, model |-> target.model, source |-> target.at,
                 via |-> monitor.endpoint]]
          /\ UNCHANGED spent
       \/ /\ ~Alive(target.at) \/ target.at = Router
          /\ monitor' = Retried /\ UNCHANGED spent
       \/ Alive(target.at) /\ TimesOut /\ monitor' = Retried
    /\ UNCHANGED <<world, form, panel, probes>>

(* check_endpoint_reachable: only a connection.                            *)
MonitorReaches ==
    /\ monitor.pc = "reach"
    /\ monitor' = [monitor EXCEPT !.pc = "write", !.outcome =
            [ok |-> FALSE, reachable |-> monitor.endpoint \in world.up \ Denied]]
    /\ UNCHANGED <<world, form, panel, probes, spent>>

(* What the poll writes into the panel.  The last two fields of a request  *)
(* are history: the sources of the samples since it was shown, and whether *)
(* the endpoint could not be reached since then, kept while it is fresh.   *)
Seen(request, outcome) ==
    IF request = None \/ panel.requestStale THEN request
    ELSE IF outcome.ok THEN [request EXCEPT !.sources = @ \cup {outcome.source}]
    ELSE [request EXCEPT !.lost = @ \/ ~outcome.reachable]

(* Mutant: a source is known by the name of its model only.                *)
WithPollByModel(outcome) ==
    IF outcome.ok
    THEN [panel EXCEPT
            !.reachable = TRUE, !.passive = outcome, !.passiveStale = FALSE,
            !.request = Seen(@, outcome),
            !.requestStale = @ \/ (/\ panel.request # None /\ panel.passive # None
                                  /\ ~ (panel.passive # None
                                        /\ panel.passive.model = outcome.model))]
    ELSE [panel EXCEPT
            !.reachable = outcome.reachable, !.passiveStale = panel.passive # None,
            !.request = Seen(@, outcome),
            !.requestStale = @ \/ (panel.request # None /\ ~outcome.reachable)]

WithPoll(outcome) ==
    IF outcome.ok
    THEN [panel EXCEPT
            !.reachable = TRUE, !.passive = outcome, !.passiveStale = FALSE,
            !.request = Seen(@, outcome),
            !.requestStale = @ \/ (/\ panel.request # None /\ panel.passive # None
                                  /\ ~ (panel.passive # None
                                        /\ panel.passive.source = outcome.source))]
    ELSE [panel EXCEPT
            !.reachable = outcome.reachable, !.passiveStale = panel.passive # None,
            !.request = Seen(@, outcome),
            !.requestStale = @ \/ (panel.request # None /\ ~outcome.reachable)]

MonitorWrites ==
    /\ monitor.pc = "write"
    /\ panel' = IF monitor.generation = panel.generation /\ monitor.endpoint = panel.endpoint
                THEN WithPoll(monitor.outcome) ELSE panel
    /\ monitor' = IdleMonitor
    /\ UNCHANGED <<world, form, probes, spent>>

Monitor == MonitorDiscovers \/ MonitorPolls \/ MonitorReaches \/ MonitorWrites

-----------------------------------------------------------------------------
(* The probes.                                                             *)

Evidence(p, process, events) ==
    [kind |-> "Evidence", model |-> probes[p].model, process |-> process,
     via |-> probes[p].endpoint, events |-> events, sources |-> {}, lost |-> FALSE]
Busy == [kind |-> "Busy"]
(* failed_probe_reachability                                               *)
Error(reachable) == [kind |-> "Error", reachable |-> reachable]

Step(p, pc) == probes' = [probes EXCEPT ![p].pc = pc]
Ends(p, result) == probes' = [probes EXCEPT ![p].pc = "report", ![p].result = result]

(* run_probe: the endpoint is attached before the probe finds another one  *)
(* running.                                                                *)
ProbeAttaches(p) ==
    /\ probes[p].pc = "attach"
    /\ panel' = Attached(probes[p].endpoint)
    /\ Step(p, "begin")
    /\ UNCHANGED <<world, form, monitor, spent>>
ProbeBegins(p) ==
    /\ probes[p].pc = "begin"
    /\ panel' = [panel EXCEPT !.probing = TRUE]
    /\ IF panel.probing THEN probes' = [probes EXCEPT ![p] = IdleProbe]
       ELSE Step(p, "discover")
    /\ UNCHANGED <<world, form, monitor, spent>>

(* discover_router_model *)
ProbeDiscovers(p) ==
    LET e == probes[p].endpoint IN
    /\ probes[p].pc = "discover"
    /\ \/ /\ CASE e \in Denied -> Ends(p, Error(None))
                [] e \notin Denied /\ e \notin world.up -> Ends(p, Error(FALSE))
                [] e \in world.up \ Denied /\ e # Router ->
                     probes' = [probes EXCEPT ![p].pc = "complete", ![p].target = e]
                [] e \in world.up \ Denied /\ e = Router ->
                     IF Selected = None THEN Ends(p, Error(TRUE))
                     ELSE probes' = [probes EXCEPT ![p].pc = "slots", ![p].model = Selected]
          /\ UNCHANGED spent
       \/ e \in world.up \ Denied /\ TimesOut /\ Ends(p, Error(None))
    /\ UNCHANGED <<world, form, panel, monitor>>

(* ensure_router_slot_available: asking the router for the slots of a busy *)
(* child may time out, which is the failure the fallback is for.           *)
ProbeSlots(p) ==
    LET m == probes[p].model IN
    /\ probes[p].pc = "slots"
    /\ \/ /\ Router \notin world.up /\ Ends(p, Error(FALSE))
       \/ /\ Router \in world.up /\ m \notin Loaded /\ Ends(p, Error(TRUE))
       \/ /\ m \in Loaded /\ ~world.children[m].busy
          /\ probes' = [probes EXCEPT ![p].pc = "complete", ![p].target = Router]
       \/ /\ m \in Loaded /\ world.children[m].busy
          /\ Ends(p, Busy) \/ Step(p, "fallback")
    /\ UNCHANGED <<world, form, panel, monitor, spent>>

(* Mutant: the child's evidence names the model the router chose before.   *)
ProbeFallsBackUnnamed(p) ==
    /\ probes[p].pc = "fallback"
    /\ IF Router \in world.up /\ Selected # None /\ Selected \in TellsPort
       THEN probes' = [probes EXCEPT ![p].pc = "childSlot", ![p].target = PortOf(Selected)]
       ELSE Ends(p, Error(None))
    /\ UNCHANGED <<world, form, panel, monitor, spent>>

(* discover_loopback_router_child: without a child the first error stands. *)
ProbeFallsBack(p) ==
    /\ probes[p].pc = "fallback"
    /\ IF Router \in world.up /\ Selected # None /\ Selected \in TellsPort
       THEN probes' = [probes EXCEPT ![p].pc = "childSlot", ![p].model = Selected,
                                     ![p].target = PortOf(Selected)]
       ELSE Ends(p, Error(None))
    /\ UNCHANGED <<world, form, panel, monitor, spent>>

(* check_child_slot: only a busy child stops the probe.                    *)
ProbeChildSlot(p) ==
    LET port == probes[p].target IN
    /\ probes[p].pc = "childSlot"
    /\ IF Serves(port) /\ world.children[ModelAt(port)].busy THEN Ends(p, Busy)
       ELSE Step(p, "complete")
    /\ UNCHANGED <<world, form, panel, monitor, spent>>

(* The completion itself, and for a child the discovery that finds no      *)
(* router behind its port: the router passes it on to the child of the     *)
(* model the request names.                                                *)
Process(p) ==
    LET target == probes[p].target IN
    IF target # Router THEN target
    ELSE IF probes[p].model \in Loaded THEN PortOf(probes[p].model) ELSE None

ProbeCompletes(p) ==
    LET target == probes[p].target
        process == Process(p)
    IN  /\ probes[p].pc = "complete"
        /\ \/ /\ CASE ~Alive(target) -> Ends(p, Error(FALSE))
                    [] Alive(target) /\ process = None -> Ends(p, Error(TRUE))
                    [] OTHER -> \E events \in Streams :
                         Ends(p, IF StreamOutcome(events) = "Evidence"
                                 THEN Evidence(p, process, events) ELSE Error(TRUE))
              /\ UNCHANGED spent
           \/ Alive(target) /\ TimesOut /\ Ends(p, Error(None))
        /\ UNCHANGED <<world, form, panel, monitor>>

(* run_probe after the answer.                                             *)
WithResult(result) ==
    LET done == [panel EXCEPT !.probing = FALSE, !.generation = @ + 1] IN
    CASE result.kind = "Evidence" ->
            [done EXCEPT !.reachable = TRUE, !.requestStale = FALSE, !.request = result]
      [] result.kind = "Busy" -> [done EXCEPT !.reachable = TRUE]
      [] result.kind = "Error" ->
            [done EXCEPT
                !.reachable = IF result.reachable = None THEN @ ELSE result.reachable,
                !.request = IF @ # None /\ result.reachable = FALSE
                            THEN [@ EXCEPT !.lost = TRUE] ELSE @,
                !.requestStale = @ \/ (panel.request # None /\ result.reachable = FALSE)]

(* Mutant: the endpoint is not compared.                                   *)
ProbeReportsAnyway(p) ==
    /\ probes[p].pc = "report"
    /\ panel' = WithResult(probes[p].result)
    /\ probes' = [probes EXCEPT ![p] = IdleProbe]
    /\ UNCHANGED <<world, form, monitor, spent>>

(* Mutant: a result that came too late is dropped with the flag set.       *)
ProbeReportsOrLeaves(p) ==
    /\ probes[p].pc = "report"
    /\ panel' = IF panel.endpoint = probes[p].endpoint THEN WithResult(probes[p].result) ELSE panel
    /\ probes' = [probes EXCEPT ![p] = IdleProbe]
    /\ UNCHANGED <<world, form, monitor, spent>>

ProbeReports(p) ==
    /\ probes[p].pc = "report"
    /\ panel' = IF panel.endpoint = probes[p].endpoint THEN WithResult(probes[p].result)
                ELSE [panel EXCEPT !.probing = FALSE]
    /\ probes' = [probes EXCEPT ![p] = IdleProbe]
    /\ UNCHANGED <<world, form, monitor, spent>>

Probe(p) ==
    \/ ProbeAttaches(p) \/ ProbeBegins(p) \/ ProbeDiscovers(p) \/ ProbeSlots(p)
    \/ ProbeFallsBack(p) \/ ProbeChildSlot(p) \/ ProbeCompletes(p) \/ ProbeReports(p)

Next ==
    \/ Load \/ Unload \/ Use \/ Occupy \/ GoDown \/ ComeUp
    \/ EditForm \/ Attach \/ Monitor
    \/ \E p \in Probes : RunProbe(p) \/ Probe(p)

Spec == Init /\ [][Next]_vars

(* A thread that was spawned is scheduled, and its requests time out.      *)
FairSpec == Spec /\ WF_vars(Monitor) /\ \A p \in Probes : WF_vars(Probe(p))

-----------------------------------------------------------------------------
(* What the cards of the panel say.                                        *)
PassiveCards ==
    IF panel.passive = None THEN {} ELSE {PassiveLabel(0, panel.passiveStale)}
ShownRequestCards ==
    IF panel.request = None THEN {}
    ELSE LET events == panel.request.events
             final == FinalIndex(events)
         IN RequestCards(SnapshotOf(events[final].final, TokenIndex(events), final),
                         panel.requestStale)

(* No card says LIVE of an endpoint the panel is not attached to, whatever *)
(* was attached while a poll or a probe was on its way                     *)
(* (attach_monitor, the generation, the comparison in run_probe).          *)
LiveCardsAreOfAttached ==
    /\ panel.passive # None /\ panel.passive.via # panel.endpoint =>
            "LIVE" \notin PassiveCards
    /\ panel.request # None /\ panel.request.via # panel.endpoint =>
            "LIVE" \notin ShownRequestCards

(* Request evidence that still says LIVE is of one unbroken run: when since*)
(* it was shown the samples came from two processes, or a poll or a probe  *)
(* found the endpoint unreachable, no card says LIVE until a new probe     *)
(* succeeds (request_stale in the monitor and in run_probe).               *)
LiveRequestIsUnbroken ==
    panel.request # None /\ (panel.request.lost \/ Cardinality(panel.request.sources) > 1) =>
        "LIVE" \notin ShownRequestCards

(* Evidence and samples carry the name of the model that produced them,    *)
(* although children come and go between the router's answer and the       *)
(* request that follows it (select_router_child, probe_llama_cpp_streaming)*)
EvidenceIsAttributed ==
    /\ panel.request # None /\ panel.request.model # None =>
            panel.request.model = ModelAt(panel.request.process)
    /\ panel.passive # None /\ panel.passive.model # None =>
            panel.passive.model = ModelAt(panel.passive.source)

(* A probe ends, and the button comes back: no error, no late result and   *)
(* no second probe leaves the panel probing (run_probe).                   *)
ProbeEnds == panel.probing ~> ~panel.probing
=============================================================================
