----------------------------- MODULE AlertEngine -----------------------------
(***************************************************************************)
(* Threshold alerts on live samples (telemetry_alerts.rs) and the board    *)
(* that shows their last evaluation (telemetry_alert_ui.rs).  A rule fires *)
(* after a window of live samples beyond the trigger threshold, resolves   *)
(* after a window beyond the clear threshold, and two transitions are at   *)
(* least the debounce time apart.                                          *)
(***************************************************************************)
EXTENDS TimeSeries

CONSTANTS
    Rules,              \* the sequence of alert rules
    DefaultThreshold,   \* rule id -> [trigger, clear]
    HistoryCapacity,    \* alert events kept
    Keys,               \* the observed series
    MetricOf(_)         \* the metric of a series key

RuleIds == {Rules[i].id : i \in DOMAIN Rules}

(* AlertRule::validate; a value range is two bounds of which the first is  *)
(* the lower one.                                                          *)
ValidRule(rule, threshold) ==
    /\ rule.window > 0 /\ rule.minLive > 0
    /\ IF rule.above THEN threshold.clear < threshold.trigger
                     ELSE threshold.clear > threshold.trigger
    /\ rule.low < rule.high
    /\ {threshold.trigger, threshold.clear} \subseteq rule.low .. rule.high

TriggerHolds(rule, threshold, value) ==
    IF rule.above THEN value >= threshold.trigger ELSE value <= threshold.trigger

ClearHolds(rule, threshold, value) ==
    IF rule.above THEN value <= threshold.clear ELSE value >= threshold.clear

NewInstance ==
    [active |-> FALSE, trigger |-> None, clear |-> None, last |-> None, seen |-> None]

(* The board: the engine (thresholds, instances, events), the last         *)
(* evaluation of each instance, and the two error lines.                   *)
NewBoard ==
    [threshold |-> DefaultThreshold,
     inst      |-> [ik \in RuleIds \X Keys |-> NewInstance],
     events    |-> <<>>,
     latest    |-> [ik \in RuleIds \X Keys |-> None],
     controlError |-> FALSE, observationError |-> FALSE]

-----------------------------------------------------------------------------
DebounceSatisfied(rule, st, ts) ==
    st.last = None \/ SatSub(ts, st.last) >= rule.debounce

(* PendingWindow::new and push: samples of the first timestamp count once. *)
Grown(window, ts) ==
    IF window = None THEN [start |-> ts, count |-> 1]
    ELSE IF window.start # ts THEN [window EXCEPT !.count = @ + 1]
    ELSE window

Ripe(rule, window, ts) ==
    SatSub(ts, window.start) >= rule.window /\ window.count >= rule.minLive

Outcome(st, presentation, kind, window) ==
    [st |-> st, presentation |-> presentation, kind |-> kind, window |-> window]

NoWindows(st) == [st EXCEPT !.trigger = None, !.clear = None]

EvaluateActive(rule, threshold, st, ts, value) ==
    LET window == Grown(st.clear, ts) IN
    IF ~ClearHolds(rule, threshold, value)
    THEN Outcome(NoWindows(st), "Active", None, None)
    ELSE IF Ripe(rule, window, ts) /\ DebounceSatisfied(rule, st, ts)
    THEN Outcome([NoWindows(st) EXCEPT !.active = FALSE, !.last = ts],
                 "Inactive", "Resolved", window)
    ELSE Outcome([NoWindows(st) EXCEPT !.clear = window], "Clearing", None, None)

EvaluateInactive(rule, threshold, st, ts, value) ==
    LET window == Grown(st.trigger, ts) IN
    IF ~TriggerHolds(rule, threshold, value) \/ ~DebounceSatisfied(rule, st, ts)
    THEN Outcome(NoWindows(st), "Inactive", None, None)
    ELSE IF Ripe(rule, window, ts)
    THEN Outcome([NoWindows(st) EXCEPT !.active = TRUE, !.last = ts],
                 "Active", "Fired", window)
    ELSE Outcome([NoWindows(st) EXCEPT !.trigger = window], "Pending", None, None)

(* Mutants: a stale sample keeps the windows open; it counts as live.      *)
EvaluateSampleKeeping(rule, threshold, st, sample) ==
    IF sample.state # "Live" THEN Outcome(st, "Suppressed", None, None)
    ELSE IF st.active THEN EvaluateActive(rule, threshold, st, sample.ts, sample.val)
    ELSE EvaluateInactive(rule, threshold, st, sample.ts, sample.val)

EvaluateAnyValue(rule, threshold, st, sample) ==
    IF sample.val = None THEN Outcome(NoWindows(st), "Suppressed", None, None)
    ELSE IF st.active THEN EvaluateActive(rule, threshold, st, sample.ts, sample.val)
    ELSE EvaluateInactive(rule, threshold, st, sample.ts, sample.val)

(* A sample that is not live ends both windows; an active alert stays.     *)
EvaluateSample(rule, threshold, st, sample) ==
    IF sample.state # "Live" THEN Outcome(NoWindows(st), "Suppressed", None, None)
    ELSE IF st.active THEN EvaluateActive(rule, threshold, st, sample.ts, sample.val)
    ELSE EvaluateInactive(rule, threshold, st, sample.ts, sample.val)

-----------------------------------------------------------------------------
(* AlertEngine::observe: the rules of the series in order, until one has   *)
(* seen a later sample.  An instance belongs to one rule and one series,   *)
(* so every evaluation is of the board before the turn.                    *)
RuleOf(id) == CHOOSE i \in DOMAIN Rules : Rules[i].id = id

Matching(key) == {i \in DOMAIN Rules : Rules[i].metric = MetricOf(key)}

Late(board, key, i, ts) ==
    LET seen == board.inst[<<Rules[i].id, key>>].seen IN seen # None /\ ts < seen

Refuses(board, key, sample) == \E i \in Matching(key) : Late(board, key, i, sample.ts)

Evaluated(board, key, sample) ==
    {i \in Matching(key) : \A j \in Matching(key) : j <= i => ~Late(board, key, j, sample.ts)}

Evaluation(board, key, i, sample) ==
    EvaluateSample(Rules[i], board.threshold[Rules[i].id],
                   [board.inst[<<Rules[i].id, key>>] EXCEPT !.seen = sample.ts], sample)

Transitions(board, key, sample) ==
    LET out == [i \in Evaluated(board, key, sample) |-> Evaluation(board, key, i, sample)] IN
    Selected([i \in DOMAIN out |->
                [kind |-> out[i].kind, rule |-> Rules[i].id, key |-> key, at |-> sample.ts,
                 window |-> out[i].window]],
             {i \in DOMAIN out : out[i].kind # None})

(* The evaluated instances among the samples of a turn: key -> sample.     *)
Touched(board, samples) ==
    {ik \in RuleIds \X DOMAIN samples :
        RuleOf(ik[1]) \in Evaluated(board, ik[2], samples[ik[2]])}

(* The board after the samples of a turn, whose series are in this order;  *)
(* observe_one shows the evaluations of a series without an error only.    *)
Observed(board, samples, order) ==
    LET out == [ik \in Touched(board, samples) |->
                    Evaluation(board, ik[2], RuleOf(ik[1]), samples[ik[2]])]
        shown == {ik \in DOMAIN out : ~Refuses(board, ik[2], samples[ik[2]])}
    IN  [board EXCEPT
            !.inst = [ik \in DOMAIN @ |-> IF ik \in DOMAIN out THEN out[ik].st ELSE @[ik]],
            !.latest = [ik \in DOMAIN @ |-> IF ik \in shown THEN out[ik].presentation ELSE @[ik]],
            !.events = FoldLeft(LAMBDA events, k : NewestOf(HistoryCapacity,
                                    events \o Transitions(board, k, samples[k])), @, order)]

(* AlertEngine::update_threshold and the board's control error.            *)
AdjustedThreshold(board, rule, dTrigger, dClear) ==
    LET threshold == [trigger |-> board.threshold[rule.id].trigger + dTrigger,
                      clear   |-> board.threshold[rule.id].clear + dClear]
    IN  IF ~ValidRule(rule, threshold) THEN [board EXCEPT !.controlError = TRUE]
        ELSE [board EXCEPT
                !.controlError = FALSE,
                !.threshold[rule.id] = threshold,
                !.inst = [ik \in DOMAIN @ |->
                            IF ik[1] = rule.id THEN NoWindows(@[ik]) ELSE @[ik]]]
=============================================================================
