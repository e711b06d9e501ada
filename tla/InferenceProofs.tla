---------------------------- MODULE InferenceProofs ----------------------------
(***************************************************************************)
(* Proofs about InferenceTelemetry, for any endpoints, models, streams and *)
(* probes, and any number of clicks and of incidents behind the endpoints. *)
(***************************************************************************)
EXTENDS InferenceTelemetry, FiniteSetTheorems, SequenceTheorems, TLAPS

-----------------------------------------------------------------------------
(* Types                                                                   *)

\* What a request goes to: an endpoint, or the port of a child.
Targets == Endpoints \cup Nat

Samples ==
  [ok : {TRUE}, reachable : {TRUE}, model : Models \cup {None},
   source : Targets, via : Endpoints]
Misses == [ok : {FALSE}, reachable : BOOLEAN]

Requests ==
  [kind : {"Evidence"}, model : Models \cup {None}, process : Targets,
   via : Endpoints, events : Streams, sources : SUBSET Targets,
   lost : BOOLEAN]
Results ==
  Requests \cup [kind : {"Busy"}]
           \cup [kind : {"Error"}, reachable : BOOLEAN \cup {None}]

Panels ==
  [endpoint : Endpoints \cup {None}, generation : Nat,
   passive : Samples \cup {None}, passiveStale : BOOLEAN,
   reachable : BOOLEAN \cup {None}, request : Requests \cup {None},
   requestStale : BOOLEAN, probing : BOOLEAN]

Monitors ==
  [pc : {"read", "discover", "poll", "reach", "write"},
   endpoint : Endpoints \cup {None}, generation : Nat, attempt : Nat,
   target : [at : Targets, model : Models \cup {None}] \cup {None},
   outcome : Samples \cup Misses \cup {None}]

Threads ==
  [pc : {"idle", "attach", "begin", "discover", "slots", "fallback",
         "childSlot", "complete", "report"},
   endpoint : Endpoints \cup {None}, model : Models \cup {None},
   target : Targets \cup {None}, result : Results \cup {None}]

\* The times of use are compared and never shown; they have no type here.
WorldType ==
  /\ DOMAIN world = {"up", "owners", "children"}
  /\ world.owners \in Seq(Models)
  /\ DOMAIN world.children = Models
  /\ \A m \in Loaded : DOMAIN world.children[m] = {"port", "used", "busy"}

TypeInv ==
  /\ WorldType
  /\ form \in Endpoints
  /\ panel \in Panels
  /\ monitor \in Monitors
  /\ probes \in [Probes -> Threads]

-----------------------------------------------------------------------------
(* The inductive invariant                                                 *)

\* A port names the model whose child was started with it, also when the
\* child is gone.
Named(at, m) == at \in DOMAIN world.owners /\ ModelAt(at) = m

WorldInv == \A m \in Loaded : Named(world.children[m].port, m)

\* The monitor's poll, and what it will write.
SampleOk(sample, endpoint) ==
  /\ sample \in Samples
  /\ sample.via = endpoint
  /\ sample.model # None => Named(sample.source, sample.model)

MonitorOk(poll) ==
  /\ poll.pc # "read" => poll.endpoint \in Endpoints
  /\ poll.pc = "poll" =>
       /\ poll.target \in [at : Targets, model : Models \cup {None}]
       /\ poll.target.model # None =>
            \/ poll.target.at = Router
            \/ Named(poll.target.at, poll.target.model)
  /\ poll.pc = "write" =>
       \/ poll.outcome \in Misses
       \/ SampleOk(poll.outcome, poll.endpoint)

MonitorInv == MonitorOk(monitor)

\* A probe, and what it will report.
ResultOk(result, endpoint) ==
  /\ result \in Results
  /\ result.kind = "Evidence" =>
       /\ result \in Requests
       /\ result.via = endpoint
       /\ result.sources = {} /\ ~result.lost
       /\ result.model # None => Named(result.process, result.model)

ThreadInv(thread) ==
  /\ thread.pc # "idle" => thread.endpoint \in Endpoints
  /\ thread.pc \in {"attach", "begin", "discover"} => thread.model = None
  /\ thread.pc \in {"slots", "fallback"} => thread.model \in Models
  /\ thread.pc \in {"childSlot", "complete"} =>
       /\ thread.target \in Targets
       /\ thread.model # None =>
            \/ thread.target = Router
            \/ Named(thread.target, thread.model)
  /\ thread.pc = "report" => ResultOk(thread.result, thread.endpoint)

ProbesInv == \A p \in Probes : ThreadInv(probes[p])

\* What the panel shows: the sample is of the attached endpoint; a request
\* that is not stale is too, and its samples all came from the process of
\* the sample that is shown.
PanelOk(shown) ==
  /\ shown.passive # None =>
       /\ shown.passive.via = shown.endpoint
       /\ shown.passive.model # None => Named(shown.passive.source, shown.passive.model)
  /\ shown.request # None /\ shown.request.model # None =>
       Named(shown.request.process, shown.request.model)
  /\ shown.endpoint = None => shown.passive = None /\ shown.request = None
  /\ shown.request # None /\ ~shown.requestStale =>
       /\ shown.request.via = shown.endpoint
       /\ ~shown.request.lost
       /\ shown.request.sources \subseteq
            IF shown.passive = None THEN {} ELSE {shown.passive.source}

PanelInv == PanelOk(panel)

TelemetryInv == TypeInv /\ WorldInv /\ MonitorInv /\ ProbesInv /\ PanelInv

-----------------------------------------------------------------------------
(* Lemmas about the operators                                              *)

\* Every metric of a snapshot is live, unavailable or an error.
IsMetric(metric) == metric.state \in {"live", "unavailable", "error"}

LEMMA MetricStates ==
  /\ \A value : IsMetric(Live(value))
  /\ IsMetric(Unavailable)
  /\ IsMetric(Failed)
BY DEF IsMetric, Live, Unavailable, Failed, Metric

LEMMA FoundIsMetric ==
  ASSUME NEW found
  PROVE  IsMetric(CASE found = Absent -> Unavailable
                    [] found = Malformed -> Failed
                    [] OTHER -> Live(found))
BY MetricStates

LEMMA FirstIsMetric ==
  ASSUME NEW response, NEW paths
  PROVE  IsMetric(FirstOf(response, paths))
BY FoundIsMetric DEF FirstOf

LEMMA ObservedIsMetric ==
  ASSUME NEW value
  PROVE  IsMetric(Observed(value))
BY MetricStates DEF Observed

LEMMA ContextIsMetric ==
  ASSUME NEW cached, NEW prompt, NEW predicted
  PROVE  IsMetric(ContextTokens(cached, prompt, predicted))
BY MetricStates DEF ContextTokens

LEMMA AcceptanceIsMetric ==
  ASSUME NEW direct, NEW generated, NEW accepted
  PROVE  IsMetric(Acceptance(direct, generated, accepted))
BY MetricStates DEF Acceptance, IsMetric, IsLive

\* A quotient of naturals, by its defining bounds.
LEMMA QuotientBounds ==
  ASSUME NEW a \in Nat, NEW b \in Nat, b # 0
  PROVE  /\ a \div b \in Nat
         /\ (a \div b) * b <= a
         /\ a < (a \div b + 1) * b
OBVIOUS

\* Per mille, rounded down, and at most the whole.
IsRatio(q, a, b) == q \in 0 .. 1000 /\ q * b <= 1000 * a /\ 1000 * a < (q + 1) * b

LEMMA RatioBounds ==
  ASSUME NEW a \in Nat, NEW b \in Nat, b # 0, a <= b
  PROVE  IsRatio((1000 * a) \div b, a, b)
<1> DEFINE n == 1000 * a
<1>1. n \in Nat /\ n <= 1000 * b
  OBVIOUS
<1> HIDE DEF n
<1>2. PICK q \in Nat : q = n \div b /\ q * b <= n /\ n < (q + 1) * b
  BY <1>1, QuotientBounds
<1>3. q <= 1000
  <2>1. SUFFICES ASSUME q >= 1001 PROVE FALSE
    OBVIOUS
  <2>2. 1001 * b <= q * b
    BY <2>1
  <2> QED BY <1>1, <1>2, <2>2
<1>4. IsRatio(q, a, b)
  BY <1>2, <1>3 DEF IsRatio, n
<1> QED BY <1>2, <1>4 DEF n

\* What the completion of a model says of its speculation, each number a natural
\* or not there, is shown as an acceptance of at most the whole, and one that
\* the client computes is the ratio of its counters, rounded down; a ratio or
\* counters that cannot be are an error (speculative_acceptance_metric).
THEOREM AcceptanceIsRatio ==
  ASSUME NEW direct, NEW generated, NEW accepted,
         \A metric \in {direct, generated, accepted} :
           IsMetric(metric) /\ (IsLive(metric) => metric.value \in Nat)
  PROVE  LET shown == Acceptance(direct, generated, accepted) IN
         /\ IsLive(shown) => shown.value \in 0 .. 1000
         /\ IsLive(shown) /\ ~IsLive(direct) =>
              IsRatio(shown.value, accepted.value, generated.value)
         /\ IsLive(direct) /\ direct.value > 1000 => shown = Failed
         /\ direct.state = "error" => shown.state = "error"
         /\ direct.state = "unavailable" /\ IsLive(generated) /\ IsLive(accepted)
              /\ generated.value # 0 /\ accepted.value > generated.value => shown = Failed
<1> DEFINE shown == Acceptance(direct, generated, accepted)
<1> USE DEF IsLive, IsMetric, Unavailable, Failed, Live, Metric
<1>1. CASE IsLive(direct)
  BY <1>1 DEF Acceptance
<1>2. CASE direct.state = "error"
  BY <1>2 DEF Acceptance
<1>3. CASE direct.state = "unavailable"
  <2>1. CASE IsLive(generated) /\ generated.value # 0 /\ IsLive(accepted)
    <3>1. CASE accepted.value <= generated.value
      <4>1. shown = Live((1000 * accepted.value) \div generated.value)
        BY <1>3, <2>1, <3>1 DEF Acceptance
      <4>2. accepted.value \in Nat /\ generated.value \in Nat /\ generated.value # 0
        BY <2>1
      <4>3. IsRatio((1000 * accepted.value) \div generated.value,
                    accepted.value, generated.value)
        BY <3>1, <4>2, RatioBounds
      <4>4. IsLive(shown) /\ IsRatio(shown.value, accepted.value, generated.value)
        BY <4>1, <4>3
      <4>5. shown.value \in 0 .. 1000
        BY <4>4 DEF IsRatio
      <4> HIDE DEF shown
      <4> QED BY <1>3, <2>1, <3>1, <4>2, <4>4, <4>5 DEF shown
    <3>2. CASE ~(accepted.value <= generated.value)
      <4>1. shown = Failed
        BY <1>3, <2>1, <3>2 DEF Acceptance
      <4> QED BY <1>3, <2>1, <4>1
    <3> QED BY <3>1, <3>2
  <2>2. CASE ~(IsLive(generated) /\ generated.value # 0 /\ IsLive(accepted))
    <3>1. shown = Unavailable
      BY <1>3, <2>2 DEF Acceptance
    <3> QED BY <1>3, <2>2, <3>1
  <2> QED BY <2>1, <2>2
<1> QED BY <1>1, <1>2, <1>3

LEMMA MtpIsMetric ==
  ASSUME NEW speculative, NEW mode, IsMetric(speculative)
  PROVE  IsMetric(MtpMetric(speculative, mode))
BY MetricStates DEF MtpMetric

\* A card drawn from stale evidence does not say LIVE.
LEMMA StaleLabel ==
  ASSUME NEW metric, IsMetric(metric)
  PROVE  RequestLabel(metric, TRUE) # "LIVE"
BY DEF RequestLabel, Label, IsLive, IsMetric

LEMMA StaleCards ==
  ASSUME NEW response, NEW ttft, NEW latency
  PROVE  "LIVE" \notin RequestCards(SnapshotOf(response, ttft, latency), TRUE)
<1> DEFINE snapshot == SnapshotOf(response, ttft, latency)
<1>1. \A name \in {"prompt_tps", "decode_tps", "ttft", "latency", "context"} :
        IsMetric(snapshot[name])
  BY FirstIsMetric, ObservedIsMetric, ContextIsMetric DEF SnapshotOf
<1>2. \A s \in Speculative : IsMetric(snapshot.mtp[s])
  <2>1. \A s \in Speculative : IsMetric(snapshot.speculative[s])
    BY FirstIsMetric, AcceptanceIsMetric DEF SnapshotOf, Speculative
  <2>2. \A s \in Speculative : snapshot.mtp[s] =
          MtpMetric(snapshot.speculative[s], MtpMode(response))
    BY DEF SnapshotOf
  <2> QED BY <2>1, <2>2, MtpIsMetric
<1> HIDE DEF snapshot
<1> QED BY <1>1, <1>2, StaleLabel DEF RequestCards, snapshot

LEMMA StaleIsNotLive ==
  ASSUME panel.requestStale = TRUE
  PROVE  "LIVE" \notin ShownRequestCards
BY StaleCards DEF ShownRequestCards

\* The router chooses a child it has, or none.
LEMMA SelectedIsLoaded ==
  /\ Selected # None => Selected \in Loaded
  /\ Selected \in Models \cup {None}
<1>1. ASSUME NEW S, Cardinality(S) = 1
      PROVE  (CHOOSE m \in S : TRUE) \in S
  BY <1>1, FS_EmptySet
<1> QED BY <1>1 DEF Selected, Loaded

LEMMA FewSources ==
  ASSUME NEW S, NEW x, S \subseteq {x}
  PROVE  IsFiniteSet(S) /\ Cardinality(S) <= 1
<1>1. CASE S = {} BY <1>1, FS_EmptySet
<1>2. CASE S = {x}
  <2>1. IsFiniteSet({x}) /\ Cardinality({x}) = 1
    BY FS_Singleton
  <2> QED BY <1>2, <2>1
<1> QED BY <1>1, <1>2

\* A port keeps its name when the next child gets the next port.
LEMMA OwnersGrow ==
  ASSUME WorldType, world'.owners = world.owners
                    \/ \E m \in Models : world'.owners = Append(world.owners, m)
  PROVE  /\ world'.owners \in Seq(Models)
         /\ \A at, m : Named(at, m) => Named(at, m)'
<1>1. CASE world'.owners = world.owners
  BY <1>1 DEF WorldType, Named, ModelAt
<1>2. ASSUME NEW m \in Models, world'.owners = Append(world.owners, m)
      PROVE  /\ world'.owners \in Seq(Models)
             /\ \A at, n : Named(at, n) => Named(at, n)'
  <2> DEFINE o == world.owners  o1 == world'.owners
  <2>1. /\ o \in Seq(Models)
        /\ o1 \in Seq(Models)
        /\ Len(o1) = Len(o) + 1
        /\ \A i \in 1 .. Len(o) : o1[i] = o[i]
    BY <1>2, AppendProperties DEF WorldType
  <2>2. DOMAIN o = 1 .. Len(o) /\ DOMAIN o1 = 1 .. Len(o1) /\ Len(o) \in Nat
    BY <2>1
  <2> HIDE DEF o, o1
  <2>3. \A at \in DOMAIN o : at \in DOMAIN o1 /\ o1[at] = o[at]
    BY <2>1, <2>2
  <2> QED BY <2>1, <2>3 DEF o, o1, Named, ModelAt
<1> QED BY <1>1, <1>2

LEMMA NoSampleIsNone == None \notin Samples
BY InferenceAssumption DEF InferenceAssumption, Samples, Targets

-----------------------------------------------------------------------------
(* Behind the endpoints                                                    *)

\* What happens there leaves the panel and its threads as they are, so only
\* the names of the ports matter.
LEMMA BehindKept ==
  ASSUME TelemetryInv, UNCHANGED <<form, panel, monitor, probes>>,
         WorldType', WorldInv', \A at, m : Named(at, m) => Named(at, m)'
  PROVE  TelemetryInv'
<1>1. TypeInv'
  BY DEF TelemetryInv, TypeInv
<1>2. MonitorInv'
  BY DEF TelemetryInv, MonitorInv, MonitorOk, SampleOk
<1>3. ProbesInv'
  BY DEF TelemetryInv, ProbesInv, ThreadInv, ResultOk
<1>4. PanelInv'
  BY DEF TelemetryInv, PanelInv, PanelOk
<1> QED BY <1>1, <1>2, <1>3, <1>4 DEF TelemetryInv

\* The children change and no port is given away.
LEMMA ChildrenChange ==
  ASSUME TelemetryInv, NEW children, world' = [world EXCEPT !.children = children],
         UNCHANGED <<form, panel, monitor, probes>>,
         DOMAIN children = Models,
         \A m \in Models : children[m] # None =>
           /\ world.children[m] # None
           /\ DOMAIN children[m] = {"port", "used", "busy"}
           /\ children[m].port = world.children[m].port
  PROVE  TelemetryInv'
<1>1. WorldType
  BY DEF TelemetryInv, TypeInv
<1>2. /\ DOMAIN world' = {"up", "owners", "children"}
      /\ world'.owners = world.owners
      /\ world'.children = children
  BY <1>1 DEF WorldType
<1>3. \A at, m : Named(at, m) => Named(at, m)'
  BY <1>1, <1>2, OwnersGrow
<1>4. WorldType'
  BY <1>1, <1>2 DEF WorldType, Loaded
<1>5. WorldInv'
  BY <1>2, <1>3 DEF TelemetryInv, WorldInv, Loaded
<1> QED BY <1>3, <1>4, <1>5, BehindKept

LEMMA LoadKeeps ==
  ASSUME TelemetryInv, Load
  PROVE  TelemetryInv'
<1> PICK m, child :
      /\ m \in Models \ Loaded
      /\ child.port = Len(world.owners) + 1
      /\ DOMAIN child = {"port", "used", "busy"}
      /\ Incident([world EXCEPT !.children[m] = child, !.owners = Append(@, m)])
  <2> PICK m \in Models \ Loaded, used \in {Newest, Newest + 1} :
        Incident([world EXCEPT
          !.children[m] = [port |-> Len(world.owners) + 1, used |-> used, busy |-> FALSE],
          !.owners = Append(@, m)])
    BY DEF Load
  <2> DEFINE child == [port |-> Len(world.owners) + 1, used |-> used, busy |-> FALSE]
  <2>1. child.port = Len(world.owners) + 1 /\ DOMAIN child = {"port", "used", "busy"}
    OBVIOUS
  <2>2. Incident([world EXCEPT !.children[m] = child, !.owners = Append(@, m)])
    OBVIOUS
  <2> HIDE DEF child
  <2> QED BY <2>1, <2>2
<1>1. WorldType
  BY DEF TelemetryInv, TypeInv
<1>2. /\ world' = [world EXCEPT !.children[m] = child, !.owners = Append(@, m)]
      /\ UNCHANGED <<form, panel, monitor, probes>>
  BY DEF Incident
<1>3. /\ DOMAIN world' = {"up", "owners", "children"}
      /\ world'.owners = Append(world.owners, m)
      /\ world'.children = [world.children EXCEPT ![m] = child]
  BY <1>1, <1>2 DEF WorldType
<1>4. /\ world'.owners \in Seq(Models)
      /\ \A at, n : Named(at, n) => Named(at, n)'
  BY <1>1, <1>3, OwnersGrow
<1>5. Named(child.port, m)'
  <2>1. /\ world.owners \in Seq(Models)
        /\ Len(world'.owners) = Len(world.owners) + 1
        /\ world'.owners[Len(world.owners) + 1] = m
    BY <1>1, <1>3, AppendProperties DEF WorldType
  <2>2. child.port \in DOMAIN world'.owners
    BY <1>4, <2>1
  <2> QED BY <2>1, <2>2 DEF Named, ModelAt
<1>6. WorldType'
  BY <1>1, <1>3, <1>4 DEF WorldType, Loaded
<1>7. WorldInv'
  BY <1>1, <1>3, <1>4, <1>5 DEF TelemetryInv, WorldInv, WorldType, Loaded
<1> QED BY <1>2, <1>4, <1>6, <1>7, BehindKept

LEMMA UnloadKeeps ==
  ASSUME TelemetryInv, Unload
  PROVE  TelemetryInv'
<1> PICK m \in Loaded : Incident([world EXCEPT !.children[m] = None])
  BY DEF Unload
<1> DEFINE children == [world.children EXCEPT ![m] = None]
<1>1. WorldType
  BY DEF TelemetryInv, TypeInv
<1>2. /\ world' = [world EXCEPT !.children = children]
      /\ UNCHANGED <<form, panel, monitor, probes>>
  BY DEF Incident
<1>3. /\ DOMAIN children = Models
      /\ \A n \in Models : children[n] # None =>
           children[n] = world.children[n]
  BY <1>1 DEF WorldType, Loaded
<1> HIDE DEF children
<1>4. \A n \in Models : children[n] # None =>
        /\ world.children[n] # None
        /\ DOMAIN children[n] = {"port", "used", "busy"}
        /\ children[n].port = world.children[n].port
  BY <1>1, <1>3 DEF WorldType, Loaded
<1> QED BY <1>2, <1>3, <1>4, ChildrenChange

LEMMA UseKeeps ==
  ASSUME TelemetryInv, Use
  PROVE  TelemetryInv'
<1> PICK m \in Loaded : Incident([world EXCEPT !.children[m].used = Newest + 1])
  BY DEF Use
<1> DEFINE time == Newest + 1
           children == [world.children EXCEPT ![m].used = time]
<1> HIDE DEF time
<1>1. WorldType
  BY DEF TelemetryInv, TypeInv
<1>2. /\ world' = [world EXCEPT !.children = children]
      /\ UNCHANGED <<form, panel, monitor, probes>>
  BY DEF Incident, time
<1>3. /\ DOMAIN children = Models
      /\ \A n \in Models : children[n] # None =>
           /\ world.children[n] # None
           /\ DOMAIN children[n] = {"port", "used", "busy"}
           /\ children[n].port = world.children[n].port
  BY <1>1 DEF WorldType, Loaded
<1> HIDE DEF children
<1> QED BY <1>2, <1>3, ChildrenChange

LEMMA OccupyKeeps ==
  ASSUME TelemetryInv, Occupy
  PROVE  TelemetryInv'
<1> PICK m \in Loaded : Incident([world EXCEPT !.children[m].busy = ~@])
  BY DEF Occupy
<1> DEFINE busy == ~world.children[m].busy
           children == [world.children EXCEPT ![m].busy = busy]
<1>1. WorldType
  BY DEF TelemetryInv, TypeInv
<1>2. /\ world' = [world EXCEPT !.children = children]
      /\ UNCHANGED <<form, panel, monitor, probes>>
  BY DEF Incident
<1> HIDE DEF busy
<1>3. /\ DOMAIN children = Models
      /\ \A n \in Models : children[n] # None =>
           /\ world.children[n] # None
           /\ DOMAIN children[n] = {"port", "used", "busy"}
           /\ children[n].port = world.children[n].port
  BY <1>1 DEF WorldType, Loaded
<1> HIDE DEF children
<1> QED BY <1>2, <1>3, ChildrenChange

\* A router that goes down takes its children with it; an endpoint that goes
\* down or comes up has none.
LEMMA UpKeeps ==
  ASSUME TelemetryInv, GoDown \/ ComeUp
  PROVE  TelemetryInv'
<1> PICK up, children :
      /\ Incident([world EXCEPT !.up = up, !.children = children])
      /\ children = world.children \/ children = [m \in Models |-> None]
  BY DEF GoDown, ComeUp
<1>1. WorldType
  BY DEF TelemetryInv, TypeInv
<1>2. /\ DOMAIN world' = {"up", "owners", "children"}
      /\ world'.owners = world.owners
      /\ world'.children = children
      /\ UNCHANGED <<form, panel, monitor, probes>>
  BY <1>1 DEF Incident, WorldType
<1>3. \A at, m : Named(at, m) => Named(at, m)'
  BY <1>1, <1>2, OwnersGrow
<1>4. WorldType'
  BY <1>1, <1>2 DEF WorldType, Loaded
<1>5. WorldInv'
  BY <1>2, <1>3 DEF TelemetryInv, WorldInv, Loaded
<1> QED BY <1>2, <1>3, <1>4, <1>5, BehindKept

-----------------------------------------------------------------------------
(* In front of the endpoints                                               *)

\* A step of the user or of a thread leaves the ports their names.
LEMMA FrontKept ==
  ASSUME TelemetryInv, UNCHANGED world,
         form' \in Endpoints,
         panel' \in Panels, PanelOk(panel'),
         monitor' \in Monitors, MonitorOk(monitor'),
         probes' \in [Probes -> Threads],
         \A p \in Probes : ThreadInv(probes'[p])
  PROVE  TelemetryInv'
<1>1. TypeInv'
  BY DEF TelemetryInv, TypeInv, WorldType, Loaded
<1>2. \A at, m : Named(at, m)' <=> Named(at, m)
  BY DEF Named, ModelAt
<1>3. WorldInv'
  BY <1>2 DEF TelemetryInv, WorldInv, Loaded
<1>4. MonitorInv'
  BY <1>2 DEF MonitorInv, MonitorOk, SampleOk
<1>5. ProbesInv'
  BY <1>2 DEF ProbesInv, ThreadInv, ResultOk
<1>6. PanelInv'
  BY <1>2 DEF PanelInv, PanelOk
<1> QED BY <1>1, <1>3, <1>4, <1>5, <1>6 DEF TelemetryInv

LEMMA MonitorStep ==
  ASSUME TelemetryInv, UNCHANGED <<world, form, panel, probes>>,
         monitor' \in Monitors, MonitorOk(monitor')
  PROVE  TelemetryInv'
BY FrontKept DEF TelemetryInv, TypeInv, PanelInv, ProbesInv

\* One thread takes a step, the others wait.
LEMMA OneThread ==
  ASSUME TelemetryInv, NEW p \in Probes, NEW thread \in Threads, ThreadInv(thread),
         probes' = [probes EXCEPT ![p] = thread],
         UNCHANGED <<world, form, monitor>>,
         panel' \in Panels, PanelOk(panel')
  PROVE  TelemetryInv'
<1>1. /\ probes' \in [Probes -> Threads]
      /\ \A q \in Probes : ThreadInv(probes'[q])
  <2>1. probes \in [Probes -> Threads] /\ \A q \in Probes : ThreadInv(probes[q])
    BY DEF TelemetryInv, TypeInv, ProbesInv
  <2>2. \A q \in Probes : probes'[q] = IF q = p THEN thread ELSE probes[q]
    BY <2>1
  <2> QED BY <2>1, <2>2
<1> QED BY <1>1, FrontKept DEF TelemetryInv, TypeInv, MonitorInv

LEMMA ProbeStep ==
  ASSUME TelemetryInv, NEW p \in Probes, NEW thread \in Threads, ThreadInv(thread),
         probes' = [probes EXCEPT ![p] = thread],
         UNCHANGED <<world, form, panel, monitor>>
  PROVE  TelemetryInv'
BY OneThread DEF TelemetryInv, TypeInv, PanelInv

LEMMA EditFormKeeps ==
  ASSUME TelemetryInv, EditForm
  PROVE  TelemetryInv'
BY FrontKept DEF EditForm, TelemetryInv, TypeInv, PanelInv, ProbesInv, MonitorInv

\* What is shown of another endpoint is dropped or goes stale.
LEMMA AttachedIsOk ==
  ASSUME TelemetryInv, NEW e \in Endpoints
  PROVE  Attached(e) \in Panels /\ PanelOk(Attached(e))
<1>1. panel \in Panels /\ PanelOk(panel)
  BY DEF TelemetryInv, TypeInv, PanelInv
<1> DEFINE changed == panel.endpoint \notin {None, e}
           stale == panel.requestStale \/ (changed /\ panel.request # None)
           next == panel.generation + 1
<1>2. next \in Nat
  BY <1>1 DEF Panels
<1>3. CASE changed
  <2>1. Attached(e) = [panel EXCEPT
          !.endpoint = e, !.reachable = None, !.generation = next,
          !.passive = None, !.passiveStale = FALSE, !.requestStale = stale]
    BY <1>1, <1>3 DEF Attached, Panels
  <2>2. stale \in BOOLEAN /\ (panel.request # None => stale)
    BY <1>3
  <2> HIDE DEF stale, changed, next
  <2>3. Attached(e) \in Panels
    BY <1>1, <1>2, <2>1, <2>2 DEF Panels
  <2> QED BY <1>1, <2>1, <2>2, <2>3, InferenceAssumption
          DEF Panels, PanelOk, InferenceAssumption
<1>4. CASE ~changed
  <2>1. Attached(e) = [panel EXCEPT
          !.endpoint = e, !.reachable = None, !.generation = next]
    BY <1>1, <1>4 DEF Attached, Panels
  <2>2. panel.endpoint = None \/ panel.endpoint = e
    BY <1>4
  <2> HIDE DEF stale, changed, next
  <2>3. Attached(e) \in Panels
    BY <1>1, <1>2, <2>1 DEF Panels
  <2> QED BY <1>1, <2>1, <2>2, <2>3, InferenceAssumption
          DEF Panels, PanelOk, InferenceAssumption
<1> QED BY <1>3, <1>4

LEMMA AttachKeeps ==
  ASSUME TelemetryInv, Attach
  PROVE  TelemetryInv'
<1>1. form \in Endpoints
  BY DEF TelemetryInv, TypeInv
<1>2. panel' \in Panels /\ PanelOk(panel')
  BY <1>1, AttachedIsOk DEF Attach
<1> QED
  BY <1>1, <1>2, FrontKept DEF Attach, TelemetryInv, TypeInv, ProbesInv, MonitorInv

-----------------------------------------------------------------------------
(* The monitor                                                             *)

LEMMA MonitorDiscoversKeeps ==
  ASSUME TelemetryInv, MonitorDiscovers
  PROVE  TelemetryInv'
<1> DEFINE polling == IF monitor.pc = "read" THEN MonitorReads ELSE monitor
           e == polling.endpoint
<1>1. /\ WorldType /\ WorldInv
      /\ monitor \in Monitors /\ MonitorOk(monitor)
      /\ panel \in Panels
  BY DEF TelemetryInv, TypeInv, MonitorInv
<1>2. polling \in Monitors /\ e \in Endpoints
  <2>1. CASE monitor.pc = "read"
    BY <1>1, <2>1 DEF MonitorDiscovers, MonitorReads, IdleMonitor, Monitors, Panels
  <2>2. CASE monitor.pc # "read"
    BY <1>1, <2>2 DEF MonitorOk
  <2> QED BY <2>1, <2>2
<1>3. \/ monitor' = [polling EXCEPT !.pc = "reach"]
      \/ \E target \in [at : Targets, model : Models \cup {None}] :
           /\ target.model # None => target.at = Router \/ Named(target.at, target.model)
           /\ monitor' = [polling EXCEPT !.pc = "poll", !.target = target]
  <2> DEFINE Target(at, m) ==
               [polling EXCEPT !.pc = "poll", !.target = [at |-> at, model |-> m]]
  <2>1. \/ monitor' = [polling EXCEPT !.pc = "reach"]
        \/ monitor' = Target(e, None)
        \/ /\ e = Router /\ Selected # None
           /\ \/ monitor' = Target(PortOf(Selected), Selected)
              \/ monitor' = Target(Router, Selected)
    BY DEF MonitorDiscovers
  <2>2. ASSUME Selected # None
        PROVE  /\ Selected \in Models
               /\ Named(PortOf(Selected), Selected)
               /\ PortOf(Selected) \in Targets
    <3>1. Selected \in Loaded
      BY <2>2, SelectedIsLoaded
    <3>2. Selected \in Models /\ Named(PortOf(Selected), Selected)
      BY <1>1, <3>1 DEF WorldInv, PortOf, Loaded
    <3> QED BY <1>1, <3>2 DEF WorldType, Named, Targets
  <2>3. ASSUME NEW at \in Targets, NEW m \in Models \cup {None}, monitor' = Target(at, m),
               m # None => at = Router \/ Named(at, m)
        PROVE  \E target \in [at : Targets, model : Models \cup {None}] :
                 /\ target.model # None => target.at = Router \/ Named(target.at, target.model)
                 /\ monitor' = [polling EXCEPT !.pc = "poll", !.target = target]
    <3> WITNESS [at |-> at, model |-> m] \in [at : Targets, model : Models \cup {None}]
    <3> QED BY <2>3
  <2> HIDE DEF Target
  <2>4. e \in Targets /\ Router \in Targets
    BY <1>2, InferenceAssumption DEF Targets, InferenceAssumption
  <2> HIDE DEF polling
  <2> QED BY <2>1, <2>2, <2>3, <2>4
<1> HIDE DEF polling
<1>4. monitor' \in Monitors /\ MonitorOk(monitor')
  <2>1. CASE monitor' = [polling EXCEPT !.pc = "reach"]
    BY <1>2, <2>1 DEF Monitors, MonitorOk
  <2>2. ASSUME NEW target \in [at : Targets, model : Models \cup {None}],
               target.model # None => target.at = Router \/ Named(target.at, target.model),
               monitor' = [polling EXCEPT !.pc = "poll", !.target = target]
        PROVE  monitor' \in Monitors /\ MonitorOk(monitor')
    BY <1>2, <2>2 DEF Monitors, MonitorOk
  <2> QED BY <1>3, <2>1, <2>2
<1> QED BY <1>4, MonitorStep DEF MonitorDiscovers

LEMMA MonitorPollsKeeps ==
  ASSUME TelemetryInv, MonitorPolls
  PROVE  TelemetryInv'
<1>1. /\ monitor \in Monitors /\ MonitorOk(monitor) /\ monitor.pc = "poll"
  BY DEF TelemetryInv, TypeInv, MonitorInv, MonitorPolls
<1>2. CASE monitor' = Retried
  <2> DEFINE next == monitor.attempt + 1
  <2>1. next \in Nat
    BY <1>1 DEF Monitors
  <2>2. \/ monitor' = [monitor EXCEPT !.pc = "discover", !.attempt = next, !.target = None]
        \/ monitor' = [monitor EXCEPT !.pc = "reach", !.target = None]
    BY <1>1, <1>2 DEF Retried, Monitors
  <2> HIDE DEF next
  <2>3. monitor' \in Monitors /\ MonitorOk(monitor')
    BY <1>1, <2>1, <2>2 DEF Monitors, MonitorOk
  <2> QED BY <2>3, MonitorStep DEF MonitorPolls
<1>3. CASE monitor' # Retried
  <2> DEFINE sample == [ok |-> TRUE, reachable |-> TRUE, model |-> monitor.target.model,
                        source |-> monitor.target.at, via |-> monitor.endpoint]
  <2>1. /\ monitor.target.at # Router
        /\ monitor' = [monitor EXCEPT !.pc = "write", !.target = None, !.outcome = sample]
    BY <1>3 DEF MonitorPolls
  <2>2. SampleOk(sample, monitor.endpoint)
    BY <1>1, <2>1 DEF MonitorOk, SampleOk, Samples
  <2> HIDE DEF sample
  <2>3. monitor' \in Monitors /\ MonitorOk(monitor')
    BY <1>1, <2>1, <2>2 DEF Monitors, MonitorOk, SampleOk
  <2> QED BY <2>3, MonitorStep DEF MonitorPolls
<1> QED BY <1>2, <1>3

LEMMA MonitorReachesKeeps ==
  ASSUME TelemetryInv, MonitorReaches
  PROVE  TelemetryInv'
<1>1. monitor \in Monitors /\ MonitorOk(monitor) /\ monitor.pc = "reach"
  BY DEF TelemetryInv, TypeInv, MonitorInv, MonitorReaches
<1> DEFINE miss == [ok |-> FALSE, reachable |-> monitor.endpoint \in world.up \ Denied]
<1>2. miss \in Misses /\ monitor' = [monitor EXCEPT !.pc = "write", !.outcome = miss]
  BY DEF MonitorReaches, Misses
<1> HIDE DEF miss
<1>3. monitor' \in Monitors /\ MonitorOk(monitor')
  BY <1>1, <1>2 DEF Monitors, MonitorOk
<1> QED BY <1>3, MonitorStep DEF MonitorReaches

\* A sample of the attached endpoint: an answer of another process than the
\* one before makes the request stale.
LEMMA SampleIsOk ==
  ASSUME TelemetryInv, panel.endpoint # None, NEW outcome, SampleOk(outcome, panel.endpoint)
  PROVE  WithPoll(outcome) \in Panels /\ PanelOk(WithPoll(outcome))
<1>1. panel \in Panels /\ PanelOk(panel) /\ outcome \in Samples /\ outcome # None
  BY NoSampleIsNone DEF TelemetryInv, TypeInv, PanelInv, SampleOk
<1> DEFINE request == Seen(panel.request, outcome)
           stale == panel.requestStale \/ (/\ panel.request # None /\ panel.passive # None
                      /\ ~ (panel.passive # None /\ panel.passive.source = outcome.source))
<1>2. WithPoll(outcome) = [panel EXCEPT
        !.reachable = TRUE, !.passive = outcome, !.passiveStale = FALSE,
        !.request = request, !.requestStale = stale]
  BY <1>1 DEF WithPoll, Panels, Samples
<1>3. stale \in BOOLEAN
  BY <1>1 DEF Panels
<1>4. request \in Requests \cup {None}
  BY <1>1 DEF Seen, Panels, Requests, Samples
<1>5. request # None => /\ panel.request # None
                        /\ request.via = panel.request.via
                        /\ request.model = panel.request.model
                        /\ request.process = panel.request.process
                        /\ request.lost = panel.request.lost
  BY <1>1 DEF Seen, Panels, Requests, Samples
<1>6. request # None /\ ~stale => request.sources \subseteq {outcome.source}
  BY <1>1 DEF Seen, Panels, Requests, Samples, PanelOk
<1>7. ~stale => ~panel.requestStale
  OBVIOUS
<1> HIDE DEF request, stale
<1>8. WithPoll(outcome) \in Panels
  BY <1>1, <1>2, <1>3, <1>4 DEF Panels
<1> QED BY <1>1, <1>2, <1>3, <1>4, <1>5, <1>6, <1>7, <1>8 DEF Panels, PanelOk, SampleOk

LEMMA MissIsOk ==
  ASSUME TelemetryInv, panel.endpoint # None, NEW outcome \in Misses
  PROVE  WithPoll(outcome) \in Panels /\ PanelOk(WithPoll(outcome))
<1>1. panel \in Panels /\ PanelOk(panel)
  BY DEF TelemetryInv, TypeInv, PanelInv
<1> DEFINE request == Seen(panel.request, outcome)
           stale == panel.requestStale \/ (panel.request # None /\ ~outcome.reachable)
           old == panel.passive # None
<1>2. WithPoll(outcome) = [panel EXCEPT
        !.reachable = outcome.reachable, !.passiveStale = old,
        !.request = request, !.requestStale = stale]
  BY <1>1 DEF WithPoll, Panels, Misses
<1>3. stale \in BOOLEAN /\ old \in BOOLEAN /\ outcome.reachable \in BOOLEAN
  BY <1>1 DEF Panels, Misses
<1>4. request \in Requests \cup {None}
  BY <1>1 DEF Seen, Panels, Requests, Misses
<1>5. request # None => /\ panel.request # None
                        /\ request.via = panel.request.via
                        /\ request.model = panel.request.model
                        /\ request.process = panel.request.process
                        /\ request.sources = panel.request.sources
  BY <1>1 DEF Seen, Panels, Requests, Misses
<1>6. request # None /\ ~stale => ~request.lost
  BY <1>1 DEF Seen, Panels, Requests, Misses, PanelOk
<1>7. ~stale => ~panel.requestStale
  OBVIOUS
<1> HIDE DEF request, stale, old
<1>8. WithPoll(outcome) \in Panels
  BY <1>1, <1>2, <1>3, <1>4 DEF Panels
<1> QED BY <1>1, <1>2, <1>3, <1>4, <1>5, <1>6, <1>7, <1>8 DEF Panels, PanelOk

LEMMA MonitorWritesKeeps ==
  ASSUME TelemetryInv, MonitorWrites
  PROVE  TelemetryInv'
<1>1. /\ panel \in Panels /\ PanelOk(panel)
      /\ MonitorOk(monitor) /\ monitor.pc = "write"
  BY DEF TelemetryInv, TypeInv, PanelInv, MonitorInv, MonitorWrites
<1>2. panel' \in Panels /\ PanelOk(panel')
  <2>1. CASE monitor.generation = panel.generation /\ monitor.endpoint = panel.endpoint
    <3>1. panel.endpoint # None
      BY <1>1, <2>1, InferenceAssumption DEF MonitorOk, InferenceAssumption
    <3>2. panel' = WithPoll(monitor.outcome)
      BY <2>1 DEF MonitorWrites
    <3>3. monitor.outcome \in Misses \/ SampleOk(monitor.outcome, panel.endpoint)
      BY <1>1, <2>1 DEF MonitorOk
    <3> QED BY <3>1, <3>2, <3>3, SampleIsOk, MissIsOk
  <2>2. CASE ~(monitor.generation = panel.generation /\ monitor.endpoint = panel.endpoint)
    BY <1>1, <2>2 DEF MonitorWrites
  <2> QED BY <2>1, <2>2
<1>3. monitor' \in Monitors /\ MonitorOk(monitor')
  BY DEF MonitorWrites, IdleMonitor, Monitors, MonitorOk
<1> QED BY <1>2, <1>3, FrontKept DEF MonitorWrites, TelemetryInv, TypeInv, ProbesInv

-----------------------------------------------------------------------------
(* The probes                                                              *)

LEMMA EndsKeeps ==
  ASSUME TelemetryInv, NEW p \in Probes, probes[p].pc # "idle",
         NEW result, ResultOk(result, probes[p].endpoint), Ends(p, result),
         UNCHANGED <<world, form, panel, monitor>>
  PROVE  TelemetryInv'
<1>1. probes \in [Probes -> Threads] /\ ThreadInv(probes[p])
  BY DEF TelemetryInv, TypeInv, ProbesInv
<1> DEFINE thread == [probes[p] EXCEPT !.pc = "report", !.result = result]
<1>2. probes' = [probes EXCEPT ![p] = thread]
  BY <1>1 DEF Ends
<1>3. thread \in Threads /\ ThreadInv(thread)
  BY <1>1 DEF Threads, ThreadInv, ResultOk
<1> HIDE DEF thread
<1> QED BY <1>2, <1>3, ProbeStep

\* A failure or a busy slot claims nothing.
LEMMA NoEvidence ==
  /\ \A endpoint : ResultOk(Busy, endpoint)
  /\ \A endpoint : \A reachable \in BOOLEAN \cup {None} : ResultOk(Error(reachable), endpoint)
BY DEF ResultOk, Results, Busy, Error

LEMMA FailsKeeps ==
  ASSUME TelemetryInv, NEW p \in Probes, probes[p].pc # "idle",
         Ends(p, Busy) \/ \E reachable \in BOOLEAN \cup {None} : Ends(p, Error(reachable)),
         UNCHANGED <<world, form, panel, monitor>>
  PROVE  TelemetryInv'
<1>1. CASE Ends(p, Busy)
  BY <1>1, NoEvidence, EndsKeeps
<1>2. ASSUME NEW reachable \in BOOLEAN \cup {None}, Ends(p, Error(reachable))
      PROVE  TelemetryInv'
  <2>1. ResultOk(Error(reachable), probes[p].endpoint)
    BY NoEvidence
  <2> QED BY <1>2, <2>1, EndsKeeps
<1> QED BY <1>1, <1>2

LEMMA RunProbeKeeps ==
  ASSUME TelemetryInv, NEW p \in Probes, RunProbe(p)
  PROVE  TelemetryInv'
<1> DEFINE thread == [IdleProbe EXCEPT !.pc = "attach", !.endpoint = form]
<1>1. probes' = [probes EXCEPT ![p] = thread] /\ form \in Endpoints
  BY DEF RunProbe, TelemetryInv, TypeInv
<1>2. thread \in Threads /\ ThreadInv(thread)
  BY <1>1 DEF IdleProbe, Threads, ThreadInv
<1> HIDE DEF thread
<1> QED BY <1>1, <1>2, ProbeStep DEF RunProbe

LEMMA ProbeAttachesKeeps ==
  ASSUME TelemetryInv, NEW p \in Probes, ProbeAttaches(p)
  PROVE  TelemetryInv'
<1>1. probes \in [Probes -> Threads] /\ ThreadInv(probes[p]) /\ probes[p].pc = "attach"
  BY DEF TelemetryInv, TypeInv, ProbesInv, ProbeAttaches
<1> DEFINE thread == [probes[p] EXCEPT !.pc = "begin"]
<1>2. probes' = [probes EXCEPT ![p] = thread]
  BY <1>1 DEF ProbeAttaches, Step
<1>3. thread \in Threads /\ ThreadInv(thread)
  BY <1>1 DEF Threads, ThreadInv
<1> HIDE DEF thread
<1>4. panel' \in Panels /\ PanelOk(panel')
  BY <1>1, AttachedIsOk DEF ProbeAttaches, ThreadInv
<1> QED BY <1>2, <1>3, <1>4, OneThread DEF ProbeAttaches

LEMMA IdleIsOk == IdleProbe \in Threads /\ ThreadInv(IdleProbe)
BY DEF IdleProbe, Threads, ThreadInv

LEMMA ProbeBeginsKeeps ==
  ASSUME TelemetryInv, NEW p \in Probes, ProbeBegins(p)
  PROVE  TelemetryInv'
<1>1. /\ probes \in [Probes -> Threads] /\ ThreadInv(probes[p]) /\ probes[p].pc = "begin"
      /\ panel \in Panels /\ PanelOk(panel)
  BY DEF TelemetryInv, TypeInv, ProbesInv, PanelInv, ProbeBegins
<1>2. panel' \in Panels /\ PanelOk(panel')
  BY <1>1 DEF ProbeBegins, Panels, PanelOk
<1> DEFINE thread == IF panel.probing THEN IdleProbe ELSE [probes[p] EXCEPT !.pc = "discover"]
<1>3. probes' = [probes EXCEPT ![p] = thread]
  BY <1>1 DEF ProbeBegins, Step
<1>4. thread \in Threads /\ ThreadInv(thread)
  <2>1. CASE panel.probing BY <2>1, IdleIsOk
  <2>2. CASE ~panel.probing BY <1>1, <2>2 DEF Threads, ThreadInv
  <2> QED BY <2>1, <2>2
<1> HIDE DEF thread
<1> QED BY <1>2, <1>3, <1>4, OneThread DEF ProbeBegins

LEMMA ProbeDiscoversKeeps ==
  ASSUME TelemetryInv, NEW p \in Probes, ProbeDiscovers(p)
  PROVE  TelemetryInv'
<1>1. /\ probes \in [Probes -> Threads] /\ ThreadInv(probes[p]) /\ probes[p].pc = "discover"
      /\ UNCHANGED <<world, form, panel, monitor>>
  BY DEF TelemetryInv, TypeInv, ProbesInv, ProbeDiscovers
<1> DEFINE e == probes[p].endpoint
           direct == [probes[p] EXCEPT !.pc = "complete", !.target = e]
           routed == [probes[p] EXCEPT !.pc = "slots", !.model = Selected]
<1>2. e \in Endpoints
  BY <1>1 DEF ThreadInv
<1>3. \/ \E reachable \in BOOLEAN \cup {None} : Ends(p, Error(reachable))
      \/ probes' = [probes EXCEPT ![p] = direct]
      \/ Selected # None /\ probes' = [probes EXCEPT ![p] = routed]
  BY <1>1, <1>2 DEF ProbeDiscovers
<1>4. direct \in Threads /\ ThreadInv(direct)
  BY <1>1, <1>2 DEF Threads, ThreadInv, Targets
<1>5. Selected # None => routed \in Threads /\ ThreadInv(routed)
  BY <1>1, SelectedIsLoaded DEF Threads, ThreadInv, Loaded
<1> HIDE DEF direct, routed
<1>6. CASE \E reachable \in BOOLEAN \cup {None} : Ends(p, Error(reachable))
  BY <1>1, <1>6, FailsKeeps
<1>7. CASE probes' = [probes EXCEPT ![p] = direct]
  BY <1>1, <1>4, <1>7, ProbeStep
<1>8. CASE Selected # None /\ probes' = [probes EXCEPT ![p] = routed]
  BY <1>1, <1>5, <1>8, ProbeStep
<1> QED BY <1>3, <1>6, <1>7, <1>8

LEMMA ProbeSlotsKeeps ==
  ASSUME TelemetryInv, NEW p \in Probes, ProbeSlots(p)
  PROVE  TelemetryInv'
<1>1. /\ probes \in [Probes -> Threads] /\ ThreadInv(probes[p]) /\ probes[p].pc = "slots"
      /\ UNCHANGED <<world, form, panel, monitor>>
  BY DEF TelemetryInv, TypeInv, ProbesInv, ProbeSlots
<1> DEFINE asking == [probes[p] EXCEPT !.pc = "complete", !.target = Router]
           falling == [probes[p] EXCEPT !.pc = "fallback"]
<1>2. \/ Ends(p, Error(TRUE)) \/ Ends(p, Error(FALSE)) \/ Ends(p, Busy)
      \/ probes' = [probes EXCEPT ![p] = asking]
      \/ probes' = [probes EXCEPT ![p] = falling]
  BY <1>1 DEF ProbeSlots, Step
<1>3. asking \in Threads /\ ThreadInv(asking)
  BY <1>1, InferenceAssumption DEF Threads, ThreadInv, Targets, InferenceAssumption
<1>4. falling \in Threads /\ ThreadInv(falling)
  BY <1>1 DEF Threads, ThreadInv
<1> HIDE DEF asking, falling
<1>5. CASE Ends(p, Error(TRUE)) \/ Ends(p, Error(FALSE)) \/ Ends(p, Busy)
  BY <1>1, <1>5, FailsKeeps
<1>6. CASE probes' = [probes EXCEPT ![p] = asking]
  BY <1>1, <1>3, <1>6, ProbeStep
<1>7. CASE probes' = [probes EXCEPT ![p] = falling]
  BY <1>1, <1>4, <1>7, ProbeStep
<1> QED BY <1>2, <1>5, <1>6, <1>7

\* The child that was found is named by its port.
LEMMA ProbeFallsBackKeeps ==
  ASSUME TelemetryInv, NEW p \in Probes, ProbeFallsBack(p)
  PROVE  TelemetryInv'
<1>1. /\ probes \in [Probes -> Threads] /\ ThreadInv(probes[p]) /\ probes[p].pc = "fallback"
      /\ WorldType /\ WorldInv
      /\ UNCHANGED <<world, form, panel, monitor>>
  BY DEF TelemetryInv, TypeInv, ProbesInv, ProbeFallsBack
<1> DEFINE thread == [probes[p] EXCEPT !.pc = "childSlot", !.model = Selected,
                                       !.target = PortOf(Selected)]
<1>2. \/ Ends(p, Error(None))
      \/ Selected # None /\ probes' = [probes EXCEPT ![p] = thread]
  BY <1>1 DEF ProbeFallsBack
<1>3. CASE Ends(p, Error(None))
  BY <1>1, <1>3, FailsKeeps
<1>4. CASE Selected # None /\ probes' = [probes EXCEPT ![p] = thread]
  <2>1. Selected \in Loaded
    BY <1>4, SelectedIsLoaded
  <2>2. Selected \in Models /\ Named(PortOf(Selected), Selected)
    BY <1>1, <2>1 DEF WorldInv, PortOf, Loaded
  <2>3. PortOf(Selected) \in Targets
    BY <1>1, <2>2 DEF WorldType, Named, Targets
  <2>4. thread \in Threads /\ ThreadInv(thread)
    BY <1>1, <2>2, <2>3 DEF Threads, ThreadInv
  <2> HIDE DEF thread
  <2> QED BY <1>1, <1>4, <2>4, ProbeStep
<1> QED BY <1>2, <1>3, <1>4

LEMMA ProbeChildSlotKeeps ==
  ASSUME TelemetryInv, NEW p \in Probes, ProbeChildSlot(p)
  PROVE  TelemetryInv'
<1>1. /\ probes \in [Probes -> Threads] /\ ThreadInv(probes[p]) /\ probes[p].pc = "childSlot"
      /\ UNCHANGED <<world, form, panel, monitor>>
  BY DEF TelemetryInv, TypeInv, ProbesInv, ProbeChildSlot
<1> DEFINE thread == [probes[p] EXCEPT !.pc = "complete"]
<1>2. Ends(p, Busy) \/ probes' = [probes EXCEPT ![p] = thread]
  BY <1>1 DEF ProbeChildSlot, Step
<1>3. thread \in Threads /\ ThreadInv(thread)
  BY <1>1 DEF Threads, ThreadInv
<1> HIDE DEF thread
<1>4. CASE Ends(p, Busy)
  BY <1>1, <1>4, FailsKeeps
<1>5. CASE probes' = [probes EXCEPT ![p] = thread]
  BY <1>1, <1>3, <1>5, ProbeStep
<1> QED BY <1>2, <1>4, <1>5

\* The process that answers is the one the probe names: the child behind the
\* port, or the child of the model the router was asked for.
LEMMA AnswerIsNamed ==
  ASSUME TelemetryInv, NEW p \in Probes, probes[p].pc = "complete", Process(p) # None
  PROVE  /\ Process(p) \in Targets
         /\ probes[p].model # None => Named(Process(p), probes[p].model)
<1>1. ThreadInv(probes[p]) /\ WorldType /\ WorldInv
  BY DEF TelemetryInv, TypeInv, ProbesInv
<1>2. CASE probes[p].target # Router
  BY <1>1, <1>2 DEF Process, ThreadInv
<1>3. CASE probes[p].target = Router
  <2>1. probes[p].model \in Loaded /\ Process(p) = PortOf(probes[p].model)
    BY <1>3 DEF Process
  <2>2. Named(Process(p), probes[p].model)
    BY <1>1, <2>1 DEF WorldInv, PortOf
  <2> QED BY <1>1, <2>2 DEF WorldType, Named, Targets
<1> QED BY <1>2, <1>3

LEMMA ProbeCompletesKeeps ==
  ASSUME TelemetryInv, NEW p \in Probes, ProbeCompletes(p)
  PROVE  TelemetryInv'
<1>1. /\ probes \in [Probes -> Threads] /\ ThreadInv(probes[p]) /\ probes[p].pc = "complete"
      /\ UNCHANGED <<world, form, panel, monitor>>
  BY DEF TelemetryInv, TypeInv, ProbesInv, ProbeCompletes
<1>2. \/ \E reachable \in BOOLEAN \cup {None} : Ends(p, Error(reachable))
      \/ /\ Process(p) # None
         /\ \E events \in Streams : Ends(p, Evidence(p, Process(p), events))
  BY <1>1 DEF ProbeCompletes
<1>3. CASE \E reachable \in BOOLEAN \cup {None} : Ends(p, Error(reachable))
  BY <1>1, <1>3, FailsKeeps
<1>4. ASSUME Process(p) # None, NEW events \in Streams,
             Ends(p, Evidence(p, Process(p), events))
      PROVE  TelemetryInv'
  <2> DEFINE process == Process(p)
  <2>1. process \in Targets /\ (probes[p].model # None => Named(process, probes[p].model))
    BY <1>1, <1>4, AnswerIsNamed
  <2> HIDE DEF process
  <2>2. ResultOk(Evidence(p, process, events), probes[p].endpoint)
    BY <1>1, <2>1 DEF ResultOk, Results, Requests, Evidence, Threads, ThreadInv
  <2> QED BY <1>1, <1>4, <2>2, EndsKeeps DEF process
<1> QED BY <1>2, <1>3, <1>4

\* What is reported is of the attached endpoint.
LEMMA ResultIsOk ==
  ASSUME TelemetryInv, panel.endpoint # None, NEW result, ResultOk(result, panel.endpoint)
  PROVE  WithResult(result) \in Panels /\ PanelOk(WithResult(result))
<1>1. panel \in Panels /\ PanelOk(panel)
  BY DEF TelemetryInv, TypeInv, PanelInv
<1> DEFINE next == panel.generation + 1
           done == [panel EXCEPT !.probing = FALSE, !.generation = next]
<1>2. next \in Nat
  BY <1>1 DEF Panels
<1> HIDE DEF next
<1>3. /\ done \in Panels
      /\ done.endpoint = panel.endpoint /\ done.passive = panel.passive
      /\ done.request = panel.request /\ done.requestStale = panel.requestStale
  BY <1>1, <1>2 DEF Panels
<1>4. PanelOk(done)
  BY <1>1, <1>3 DEF PanelOk
<1> HIDE DEF done
<1>5. \/ result.kind = "Evidence"
      \/ result.kind = "Busy"
      \/ result.kind = "Error" /\ result.reachable \in BOOLEAN \cup {None}
  BY DEF ResultOk, Results, Requests
<1>6. CASE result.kind = "Evidence"
  <2>1. WithResult(result) =
          [done EXCEPT !.reachable = TRUE, !.requestStale = FALSE, !.request = result]
    BY <1>6 DEF WithResult, done, next
  <2>2. result \in Requests
    BY <1>6 DEF ResultOk
  <2>3. WithResult(result) \in Panels
    BY <1>3, <2>1, <2>2 DEF Panels
  <2> QED BY <1>3, <1>4, <1>6, <2>1, <2>2, <2>3 DEF Panels, PanelOk, ResultOk
<1>7. CASE result.kind = "Busy"
  <2>1. WithResult(result) = [done EXCEPT !.reachable = TRUE]
    BY <1>7 DEF WithResult, done, next
  <2> QED BY <1>3, <1>4, <2>1 DEF Panels, PanelOk
<1>8. CASE result.kind = "Error" /\ result.reachable \in BOOLEAN \cup {None}
  <2> DEFINE reached == IF result.reachable = None THEN done.reachable ELSE result.reachable
             lost == result.reachable = FALSE
             request == IF panel.request # None /\ lost THEN [panel.request EXCEPT !.lost = TRUE]
                        ELSE panel.request
             stale == panel.requestStale \/ (panel.request # None /\ lost)
  <2>1. WithResult(result) = [done EXCEPT
          !.reachable = reached, !.request = request, !.requestStale = stale]
    BY <1>1, <1>3, <1>8 DEF WithResult, done, next, Panels
  <2>2. /\ reached \in BOOLEAN \cup {None}
        /\ request \in Requests \cup {None}
        /\ stale \in BOOLEAN
    BY <1>1, <1>3, <1>8 DEF Panels, Requests
  <2>3. request # None => /\ panel.request # None
                          /\ request.model = panel.request.model
                          /\ request.process = panel.request.process
    BY <1>1 DEF Panels, Requests
  <2>4. request # None /\ ~stale => request = panel.request /\ ~panel.requestStale
    OBVIOUS
  <2> HIDE DEF reached, lost, request, stale
  <2>5. WithResult(result) \in Panels
    BY <1>3, <2>1, <2>2 DEF Panels
  <2> QED BY <1>1, <1>3, <2>1, <2>2, <2>3, <2>4, <2>5 DEF Panels, PanelOk
<1> QED BY <1>5, <1>6, <1>7, <1>8

LEMMA ProbeReportsKeeps ==
  ASSUME TelemetryInv, NEW p \in Probes, ProbeReports(p)
  PROVE  TelemetryInv'
<1>1. /\ probes \in [Probes -> Threads] /\ ThreadInv(probes[p]) /\ probes[p].pc = "report"
      /\ panel \in Panels /\ PanelOk(panel)
  BY DEF TelemetryInv, TypeInv, ProbesInv, PanelInv, ProbeReports
<1>2. panel' \in Panels /\ PanelOk(panel')
  <2>1. CASE panel.endpoint = probes[p].endpoint
    <3>1. panel.endpoint # None /\ ResultOk(probes[p].result, panel.endpoint)
      BY <1>1, <2>1, InferenceAssumption DEF ThreadInv, InferenceAssumption
    <3> QED BY <2>1, <3>1, ResultIsOk DEF ProbeReports
  <2>2. CASE panel.endpoint # probes[p].endpoint
    BY <1>1, <2>2 DEF ProbeReports, Panels, PanelOk
  <2> QED BY <2>1, <2>2
<1> QED BY <1>2, IdleIsOk, OneThread DEF ProbeReports

-----------------------------------------------------------------------------
(* The system                                                              *)

LEMMA InferenceInit ==
  ASSUME Init
  PROVE  TelemetryInv
<1> DEFINE At(m) == CHOOSE i \in DOMAIN Preloaded : Preloaded[i] = m
<1>1. /\ world.owners = Preloaded /\ Preloaded \in Seq(Models)
      /\ DOMAIN world = {"up", "owners", "children"}
      /\ DOMAIN world.children = Models
  BY InferenceAssumption DEF Init, InferenceAssumption
<1>2. \A m \in Loaded :
        /\ m \in Range(Preloaded)
        /\ world.children[m] = [port |-> At(m), used |-> At(m), busy |-> m \in Occupied]
  BY DEF Init, Loaded
<1>3. \A m \in Range(Preloaded) : At(m) \in DOMAIN Preloaded /\ Preloaded[At(m)] = m
  BY DEF Range
<1> HIDE DEF At
<1>4. WorldType /\ WorldInv
  <2>1. ASSUME NEW m \in Loaded
        PROVE  /\ DOMAIN world.children[m] = {"port", "used", "busy"}
               /\ world.children[m].port = At(m)
    <3> DEFINE at == At(m)
               busy == m \in Occupied
    <3>1. world.children[m] = [port |-> at, used |-> at, busy |-> busy]
      BY <1>2
    <3> HIDE DEF at, busy
    <3>2. DOMAIN world.children[m] = {"port", "used", "busy"} /\ world.children[m].port = at
      BY <3>1
    <3> QED BY <3>2 DEF at
  <2>2. \A m \in Loaded : world.children[m].port = At(m)
    BY <2>1
  <2>3. WorldType
    BY <1>1, <2>1 DEF WorldType
  <2>4. WorldInv
    BY <1>1, <1>2, <1>3, <2>2 DEF WorldInv, Named, ModelAt
  <2> QED BY <2>3, <2>4
<1>5. form \in Endpoints
  BY InferenceAssumption DEF Init, InferenceAssumption
<1>6. panel \in Panels /\ PanelOk(panel)
  BY DEF Init, Panels, PanelOk
<1>7. monitor \in Monitors /\ MonitorOk(monitor)
  BY DEF Init, IdleMonitor, Monitors, MonitorOk
<1>8. probes \in [Probes -> Threads] /\ \A p \in Probes : ThreadInv(probes[p])
  BY IdleIsOk DEF Init
<1> QED BY <1>4, <1>5, <1>6, <1>7, <1>8
        DEF TelemetryInv, TypeInv, MonitorInv, ProbesInv, PanelInv

LEMMA InferenceNext ==
  ASSUME TelemetryInv, [Next]_vars
  PROVE  TelemetryInv'
<1>1. CASE Load \/ Unload \/ Use \/ Occupy \/ GoDown \/ ComeUp
  BY <1>1, LoadKeeps, UnloadKeeps, UseKeeps, OccupyKeeps, UpKeeps
<1>2. CASE EditForm \/ Attach
  BY <1>2, EditFormKeeps, AttachKeeps
<1>3. CASE Monitor
  BY <1>3, MonitorDiscoversKeeps, MonitorPollsKeeps, MonitorReachesKeeps, MonitorWritesKeeps
     DEF Monitor
<1>4. ASSUME NEW p \in Probes, RunProbe(p) \/ Probe(p)
      PROVE  TelemetryInv'
  BY <1>4, RunProbeKeeps, ProbeAttachesKeeps, ProbeBeginsKeeps, ProbeDiscoversKeeps,
     ProbeSlotsKeeps, ProbeFallsBackKeeps, ProbeChildSlotKeeps, ProbeCompletesKeeps,
     ProbeReportsKeeps
     DEF Probe
<1>5. CASE UNCHANGED vars
  BY <1>5, FrontKept
     DEF vars, TelemetryInv, TypeInv, MonitorInv, ProbesInv, PanelInv
<1> QED BY <1>1, <1>2, <1>3, <1>4, <1>5 DEF Next

LEMMA InferenceCorrect == Spec => []TelemetryInv
BY InferenceInit, InferenceNext, PTL DEF Spec

\* A sample that is shown came from the attached endpoint, and request
\* evidence of another one is stale: no card says LIVE of an endpoint the
\* panel has left, whatever was on its way when it left (attach_monitor, the
\* generation, the comparison in run_probe).
THEOREM LiveCardsCorrect == Spec => []LiveCardsAreOfAttached
<1>1. TelemetryInv => LiveCardsAreOfAttached
  <2> SUFFICES ASSUME TelemetryInv PROVE LiveCardsAreOfAttached
    OBVIOUS
  <2>1. panel \in Panels /\ PanelOk(panel)
    BY DEF TelemetryInv, TypeInv, PanelInv
  <2>2. panel.request # None /\ panel.request.via # panel.endpoint => panel.requestStale = TRUE
    BY <2>1 DEF Panels, PanelOk
  <2>3. panel.passive # None => panel.passive.via = panel.endpoint
    BY <2>1 DEF PanelOk
  <2> QED BY <2>2, <2>3, StaleIsNotLive DEF LiveCardsAreOfAttached
<1> QED BY <1>1, InferenceCorrect, PTL

\* Request evidence that says LIVE is of one unbroken run: the samples since
\* came from one process and nothing found the endpoint unreachable
\* (request_stale in the monitor and in run_probe).
THEOREM LiveRequestCorrect == Spec => []LiveRequestIsUnbroken
<1>1. TelemetryInv => LiveRequestIsUnbroken
  <2> SUFFICES ASSUME TelemetryInv, panel.request # None,
                      panel.request.lost \/ Cardinality(panel.request.sources) > 1
               PROVE  "LIVE" \notin ShownRequestCards
    BY DEF LiveRequestIsUnbroken
  <2>1. panel \in Panels /\ PanelOk(panel)
    BY DEF TelemetryInv, TypeInv, PanelInv
  <2>2. ASSUME ~panel.requestStale PROVE FALSE
    <3>1. ~panel.request.lost /\ panel.request.sources \subseteq {panel.passive.source}
      BY <2>1, <2>2 DEF PanelOk
    <3>2. /\ IsFiniteSet(panel.request.sources)
          /\ Cardinality(panel.request.sources) <= 1
      BY <3>1, FewSources
    <3>3. Cardinality(panel.request.sources) \in Nat
      BY <3>2, FS_CardinalityType
    <3> QED BY <3>1, <3>2, <3>3
  <2>3. panel.requestStale = TRUE
    BY <2>1, <2>2 DEF Panels
  <2> QED BY <2>3, StaleIsNotLive
<1> QED BY <1>1, InferenceCorrect, PTL

\* Evidence and samples name the model whose process gave them, although
\* children come and go between the router's answer and the request that
\* follows it (select_router_child, probe_llama_cpp_streaming).
THEOREM EvidenceCorrect == Spec => []EvidenceIsAttributed
<1>1. TelemetryInv => EvidenceIsAttributed
  BY DEF TelemetryInv, PanelInv, PanelOk, Named, EvidenceIsAttributed
<1> QED BY <1>1, InferenceCorrect, PTL
================================================================================
