------------------------------ MODULE Telemetry ------------------------------
(***************************************************************************)
(* The telemetry page (telemetry_ui.rs): one worker thread samples both    *)
(* providers, pushes the samples to the history series, evaluates the      *)
(* alerts and publishes what the page shows, about once a second, while    *)
(* the user adjusts alert thresholds.  The clock is the wall clock: it may *)
(* be set back, also between the readings of the two providers.            *)
(***************************************************************************)
EXTENDS Integers, Sequences, FiniteSets, SequencesExt

CONSTANTS
    None, Retention, RawRetention, BucketWidth, MaxPoints, MinMaxPoints, GapLimit, Width,
    Rules, DefaultThreshold, HistoryCapacity, Devices, Uuids,
    CpuMetric, TemperatureMetric,   \* the metrics of the default rules
    Answers,        \* the delay of a turn and what the providers answer in it
    Adjustments,    \* what the user adjusts: [rule, dTrigger, dClear]
    Start,          \* the wall clock at the start
    MaxSamples,     \* bound: samples in a behaviour
    MaxDisturbances \* bound: adjustments and times the clock is set back

ASSUME DevicesAssumption == Devices \subseteq Nat /\ Uuids \subseteq Nat

P == INSTANCE TelemetryProviders

Cpu == <<"host", 0>>
Keys == {Cpu} \cup P!Identities
MetricOf(key) == IF key = Cpu THEN CpuMetric ELSE TemperatureMetric

(* The order in which the readings of a snapshot are observed.             *)
Precedes(g, i, j) == j # Cpu /\ (i = Cpu \/ P!Before(g, i, j))

INSTANCE AlertEngine

(* HistoryPolicy::validate and ChartOptions::validate. *)
ASSUME PolicyAssumption ==
    /\ Retention \in Nat \ {0} /\ RawRetention \in 0 .. Retention
    /\ BucketWidth \in Nat \ {0}
    /\ MinMaxPoints \in Nat \ {0} /\ MaxPoints \in Nat /\ MaxPoints >= MinMaxPoints
    /\ GapLimit \in Nat /\ Width \in Nat \ {0}
    /\ None \notin Int

(* AlertEngine::with_capacities: the rules are valid and their ids differ. *)
ASSUME RulesAssumption ==
    /\ \A i \in DOMAIN Rules :
        /\ Rules[i].window \in Nat /\ Rules[i].minLive \in Nat /\ Rules[i].debounce \in Nat
        /\ ValidRule(Rules[i], DefaultThreshold[Rules[i].id])
    /\ \A i, j \in DOMAIN Rules : Rules[i].id = Rules[j].id => i = j
    /\ RuleIds \subseteq DOMAIN DefaultThreshold
    /\ HistoryCapacity \in Nat \ {0}

(* Times are milliseconds since the epoch; an answer has a number.         *)
ASSUME AnswersAssumption ==
    /\ Start \in Nat
    /\ \A answer \in Answers :
        /\ answer.delay \in Nat
        /\ answer.cpu # None => answer.cpu.usage \in Int \cup {None}
        /\ \A d \in DOMAIN answer.gpu.answers :
            \A metric \in {answer.gpu.answers[d].util, answer.gpu.answers[d].temp} :
                metric.result = "Success" => metric.val \in Int

VARIABLES
    clock,      \* the wall clock, SystemTime
    hw, gpu,    \* the state of the two providers
    series,     \* key -> its history (cpu usage, gpu utilization)
    board,      \* the alert board, behind a mutex
    page,       \* what the page shows
    disturbed,  \* adjustments made and times the clock was set back
    fed,        \* history: key -> every sample its series accepted
    watched,    \* history: rule, key -> every sample the rule evaluated
    lastLive    \* history: key -> the last live reading of each metric

vars == <<clock, hw, gpu, series, board, page, disturbed, fed, watched, lastLive>>

NewPage ==
    [usage |-> None, memory |-> None, adapters |-> [i \in P!Identities |-> None],
     count |-> None, history |-> [k \in Keys |-> <<>>], historyError |-> FALSE,
     alerts |-> NewBoard, samples |-> 0]

Init ==
    /\ clock = Start
    /\ hw = P!NewHardware /\ gpu = P!NewGpu
    /\ series = [k \in Keys |-> NewSeries]
    /\ board = NewBoard
    /\ page = NewPage
    /\ disturbed = 0
    /\ fed = [k \in Keys |-> <<>>]
    /\ watched = [ik \in RuleIds \X Keys |-> <<>>]
    /\ lastLive = [k \in Keys |-> [util |-> None, temp |-> None]]

-----------------------------------------------------------------------------
(* sample_from_state: the sample of a reading.                             *)
SampleOf(reading) == Sample(reading.at, reading.val, reading.kind)

(* TelemetryHistoryEngine::observe: the processor first, then the adapters *)
(* in order; the first sample that a series refuses ends it.  The engine   *)
(* keeps what it pushed before.                                            *)
Utilization(h, g) ==
    [k \in {Cpu} \cup P!Adapters(g) |->
        SampleOf(IF k = Cpu THEN h.usage ELSE g.previous[k].util)]

ObserveHistory(g, samples) ==
    LET refused == {k \in DOMAIN samples : ~Accepts(series[k], samples[k])}
        pushed == {k \in DOMAIN samples : \A j \in refused : j # k /\ ~Precedes(g, j, k)}
    IN  [series |-> [k \in Keys |-> IF k \in pushed THEN Push(series[k], samples[k]) ELSE series[k]],
         fed    |-> [k \in Keys |-> IF k \in pushed THEN Append(fed[k], samples[k]) ELSE fed[k]],
         failed |-> refused # {}]

(* TelemetryAlertDashboardEngine::observe: an error of the processor's     *)
(* sample is reported, an error of an adapter's also ends the evaluation.  *)
Monitored(h, g) ==
    [k \in {Cpu} \cup P!Adapters(g) |->
        SampleOf(IF k = Cpu THEN h.usage ELSE g.previous[k].temp)]

ObserveAlerts(g, samples) ==
    LET refused == {k \in DOMAIN samples : Refuses(board, k, samples[k])}
        reached == {k \in DOMAIN samples : \A j \in refused : j = Cpu \/ ~Precedes(g, j, k)}
        seen == [k \in reached |-> samples[k]]
        inOrder == SetToSortSeq(reached, LAMBDA i, j : Precedes(g, i, j))
    IN  [board   |-> [Observed(board, seen, inOrder)
                        EXCEPT !.observationError = refused # {}],
         watched |-> [ik \in DOMAIN watched |->
                        IF ik \in Touched(board, seen) THEN Append(watched[ik], seen[ik[2]])
                        ELSE watched[ik]]]

Newest(reading, previous) == IF reading.kind = "Live" THEN reading ELSE previous

(* One turn of the worker loop; hAt and gAt are the clock readings of the  *)
(* two providers.                                                          *)
Turn(input, hAt, gAt) ==
    /\ page.samples < MaxSamples
    /\ hw' = P!SampleHardware(hw, input.cpu, input.memory, hAt)
    /\ gpu' = P!SampleGpu(gpu, input.gpu, gAt)
    /\ \E history \in {ObserveHistory(gpu', Utilization(hw', gpu'))},
          alerts \in {ObserveAlerts(gpu', Monitored(hw', gpu'))} :
        /\ series' = history.series /\ fed' = history.fed
        /\ board' = alerts.board /\ watched' = alerts.watched
        /\ page' = [usage |-> hw'.usage, memory |-> hw'.memory, adapters |-> gpu'.previous,
                    count |-> P!AdapterCount(gpu, input.gpu, gAt),
                    history |-> IF history.failed THEN page.history
                                ELSE [k \in Keys |-> history.series[k].samples],
                    historyError |-> history.failed,
                    alerts |-> alerts.board, samples |-> page.samples + 1]
    /\ lastLive' = [k \in Keys |->
            IF k = Cpu THEN [lastLive[k] EXCEPT !.util = Newest(hw'.usage, @)]
            ELSE IF gpu'.previous[k] = None THEN lastLive[k]
            ELSE [util |-> Newest(gpu'.previous[k].util, lastLive[k].util),
                  temp |-> Newest(gpu'.previous[k].temp, lastLive[k].temp)]]
    /\ clock' = gAt

SampleAll ==
    /\ \E answer \in Answers : Turn(answer, clock + answer.delay, clock + answer.delay)
    /\ UNCHANGED disturbed

(* The clock is set back by one, before the first reading or between the   *)
(* two readings of a turn; a time before the epoch reads as zero.          *)
SampleWhileSetBack ==
    /\ disturbed < MaxDisturbances /\ disturbed' = disturbed + 1
    /\ \E answer \in Answers : \E hAt \in {SatSub(clock, 1), clock + answer.delay} :
        Turn(answer, hAt, SatSub(clock, 1))

(* TelemetryAlertController::adjust_threshold: a button of the page; the   *)
(* page keeps the snapshot of the worker's last turn.                      *)
AdjustThreshold ==
    /\ disturbed < MaxDisturbances /\ disturbed' = disturbed + 1
    /\ \E a \in Adjustments :
        /\ board' = AdjustedThreshold(board, Rules[a.rule], a.dTrigger, a.dClear)
        /\ watched' = [ik \in DOMAIN watched |->
                IF board'.threshold[ik[1]] # board.threshold[ik[1]]
                THEN Append(watched[ik], Sample(None, None, "Adjusted")) ELSE watched[ik]]
    /\ UNCHANGED <<clock, hw, gpu, series, page, fed, lastLive>>

(* The page is left at any time: the worker stops after its turn, and the  *)
(* behaviour ends.                                                         *)
Next == SampleAll \/ SampleWhileSetBack \/ AdjustThreshold

Spec == Init /\ [][Next]_vars

-----------------------------------------------------------------------------
(* The newest chart: the samples the page shows of a series.               *)
Shown(k) == page.history[k]

(* Downsampling keeps the extrema: of every bucket that starts after the   *)
(* oldest kept sample, and however often it was compacted, the kept        *)
(* samples of a class bound every sample of that class the series ever     *)
(* accepted (TimeSeries::compact).  Samples of one timestamp are out of    *)
(* its reach: the code keeps one of them.                                  *)
ExtremaSurvive ==
    \A k \in Keys : \A r \in Range(fed[k]) :
        LET kept == series[k].samples
            start == (r.ts \div BucketWidth) * BucketWidth
            distinct == \A m, n \in DOMAIN fed[k] :
                fed[k][m].ts = fed[k][n].ts /\ SameBucket(fed[k][m], r) => m = n
        IN  Renderable(r) /\ start >= kept[1].ts /\ distinct =>
                \E s, t \in Range(kept) :
                    /\ Renderable(s) /\ SameBucket(s, r) /\ s.val <= r.val
                    /\ Renderable(t) /\ SameBucket(t, r) /\ r.val <= t.val

(* A line of the chart never runs across a sample that was not drawn, one  *)
(* of the other class, or a pause of the sampling, whatever was compacted  *)
(* or decimated between its points (ChartProjection::build).               *)
LinesNeverBridge ==
    \A k \in Keys : \A segment \in Segments(Shown(k)) :
        \A i \in 1 .. Len(segment.points) - 1 :
            LET from == segment.points[i].ts
                to == segment.points[i + 1].ts
            IN  \A n \in DOMAIN fed[k] :
                    /\ from < fed[k][n].ts /\ fed[k][n].ts < to =>
                        Renderable(fed[k][n]) /\ fed[k][n].state = segment.state
                    /\ n > 1 /\ from <= fed[k][n - 1].ts /\ fed[k][n].ts <= to =>
                        fed[k][n].ts - fed[k][n - 1].ts <= GapLimit

(* A gap of missing samples stands for a pause of the sampling: the reason *)
(* the chart gives is that the sample interval exceeded the threshold      *)
(* (telemetry_history.rs:798).  A known deviation: compaction makes gaps.  *)
MissingGapsAreReal ==
    \A k \in Keys : \A gap \in Gaps(Shown(k)) : gap.kind = "MissingSamples" =>
        \E n \in 2 .. Len(fed[k]) :
            /\ gap.from <= fed[k][n - 1].ts /\ fed[k][n].ts <= gap.to
            /\ fed[k][n].ts - fed[k][n - 1].ts > GapLimit

(* The evidence of a transition: the last samples the rule evaluated of    *)
(* the series are live, hold the condition under the thresholds of now,    *)
(* and cover the window of the rule without a threshold change in between. *)
Holds(rule, threshold, fires, value) ==
    IF fires THEN TriggerHolds(rule, threshold, value) ELSE ClearHolds(rule, threshold, value)

Sustained(samples, rule, threshold, fires) ==
    \E m \in DOMAIN samples :
        /\ \A n \in m .. Len(samples) :
            samples[n].state = "Live" /\ Holds(rule, threshold, fires, samples[n].val)
        /\ samples[Len(samples)].ts - samples[m].ts >= rule.window
        /\ Len(samples) - m + 1 >= rule.minLive

(* An alert fires and resolves on sustained live evidence only: a stale or *)
(* missing sample or a threshold change starts the evidence anew           *)
(* (AlertEngine::observe, evaluate_live, update_threshold).                *)
AlertsAreEarned ==
    [][\A i \in DOMAIN Rules, k \in Keys :
        LET ik == <<Rules[i].id, k>> IN
        board'.inst[ik].active # board.inst[ik].active =>
            Sustained(watched'[ik], Rules[i], board'.threshold[Rules[i].id],
                      board'.inst[ik].active)]_vars

(* A stale reading on a card shows the last value that was live, and the   *)
(* time at which it was, through any number of failed or missing samples   *)
(* (stale_or_error, stale_reading, failed_or_stale_reading).               *)
StaleIsLastLive ==
    LET carries(reading, last) ==
            reading # None /\ reading.kind = "Stale" =>
                last # None /\ reading.val = last.val /\ reading.obs = last.at
    IN  /\ carries(page.usage, lastLive[Cpu].util)
        /\ \A i \in P!Identities : page.adapters[i] # None =>
                /\ carries(page.adapters[i].util, lastLive[i].util)
                /\ carries(page.adapters[i].temp, lastLive[i].temp)

(* Cards and alerts of one page agree: unless an error is shown, an alert  *)
(* is suppressed exactly when the card of its reading is not live, for the *)
(* adapters that are carried on as stale too.                              *)
AlertsAgreeWithCards ==
    ~page.alerts.observationError =>
        \A i \in DOMAIN Rules, k \in Keys :
            LET card == IF k = Cpu THEN page.usage
                        ELSE IF page.adapters[k] = None THEN None
                        ELSE page.adapters[k].temp
            IN  Rules[i].metric = MetricOf(k) /\ card # None =>
                    (page.alerts.latest[<<Rules[i].id, k>>] = "Suppressed"
                        <=> card.kind # "Live")
=============================================================================
