-------------------------- MODULE InferenceEvidence --------------------------
(***************************************************************************)
(* What the final event of a completion says and what the panel shows of   *)
(* it (inference_telemetry.rs, inference_telemetry_ui_live.rs).  A response*)
(* maps the paths of its JSON to what is found there: a number, or a list  *)
(* of speculative modes; Absent stands for a path that is missing or null, *)
(* Malformed for one that cannot be read as what it should be.  Ratios are *)
(* per mille.                                                              *)
(***************************************************************************)
EXTENDS Integers, Sequences, SequencesExt

CONSTANTS Absent, Malformed,
    MaxCount    \* the largest u64

Metric(state, value) == [state |-> state, value |-> value]
Live(value) == Metric("live", value)
Unavailable == Metric("unavailable", Absent)
Failed == Metric("error", Absent)
IsLive(metric) == metric.state = "live"

(* number_metric, integer_metric: the first path that is there decides.    *)
FirstOf(response, paths) ==
    LET first == SelectInSeq(paths, LAMBDA path : response[path] # Absent)
        found == IF first = 0 THEN Absent ELSE response[paths[first]]
    IN  CASE found = Absent -> Unavailable
          [] found = Malformed -> Failed
          [] OTHER -> Live(found)

(* observed_metric: what the client measured itself.                       *)
Observed(value) == IF value = Absent THEN Unavailable ELSE Live(value)

(* sum_context_tokens *)
ContextTokens(cached, prompt, predicted) ==
    CASE ~(IsLive(cached) /\ IsLive(prompt) /\ IsLive(predicted)) -> Unavailable
      [] IsLive(cached) /\ IsLive(prompt) /\ IsLive(predicted) ->
            LET sum == cached.value + prompt.value + predicted.value IN
            IF sum > MaxCount THEN Failed ELSE Live(sum)

(* speculative_acceptance_metric: the ratio the runtime reports, else the  *)
(* one of its counters.                                                    *)
Acceptance(direct, generated, accepted) ==
    CASE IsLive(direct) -> IF direct.value <= 1000 THEN direct ELSE Failed
      [] direct.state = "error" -> direct
      [] OTHER ->
            CASE IsLive(generated) /\ generated.value = 0 -> Unavailable
              [] IsLive(generated) /\ generated.value # 0 /\ IsLive(accepted) ->
                    IF accepted.value <= generated.value
                    THEN Live((1000 * accepted.value) \div generated.value) ELSE Failed
              [] OTHER -> Unavailable

(* explicit_mtp_mode, mtp_metric_from_speculative *)
MtpMode(response) ==
    LET modes == response["speculative.types"] IN
    CASE modes = Absent -> "Missing"
      [] modes = Malformed -> "Invalid"
      [] OTHER -> IF "mtp" \in modes THEN "Explicit" ELSE "NotMtp"
MtpMetric(speculative, mode) ==
    CASE mode = "Explicit" -> speculative
      [] mode = "Invalid" -> Failed
      [] OTHER -> Unavailable

Speculative == {"generated", "accepted", "acceptance", "run"}

(* parse_llama_cpp_completion: one snapshot of one response.               *)
SnapshotOf(response, ttft, latency) ==
    LET Number(paths) == FirstOf(response, paths)
        cached == Number(<<"cache_n", "tokens_cached">>)
        prompt == Number(<<"prompt_n", "tokens_evaluated">>)
        decode == Number(<<"predicted_n", "tokens_predicted">>)
        generated == Number(<<"draft_n", "draft_tokens">>)
        accepted == Number(<<"draft_n_accepted", "draft_tokens_accepted">>)
        speculative ==
            [generated |-> generated, accepted |-> accepted,
             acceptance |-> Acceptance(Number(<<"draft_accept_ratio">>), generated, accepted),
             run |-> Number(<<"draft_mean_len", "draft_mean_run">>)]
    IN  [prompt_tps |-> Number(<<"prompt_per_second">>),
         decode_tps |-> Number(<<"predicted_per_second">>),
         ttft |-> Observed(ttft), latency |-> Observed(latency),
         context |-> ContextTokens(cached, prompt, decode),
         speculative |-> speculative,
         mtp |-> [s \in Speculative |-> MtpMetric(speculative[s], MtpMode(response))]]

(* present_state, present_request_metric: the label of a card.             *)
Label(metric) ==
    CASE metric.state = "live" -> "LIVE"
      [] metric.state = "unavailable" -> "UNAVAILABLE"
      [] metric.state = "error" -> "ERROR"
RequestLabel(metric, stale) ==
    IF stale /\ IsLive(metric) THEN "STALE" ELSE Label(metric)

(* The cards of the request: its rates and times, and the MTP ones.        *)
RequestCards(snapshot, stale) ==
    {RequestLabel(snapshot[name], stale) :
        name \in {"prompt_tps", "decode_tps", "ttft", "latency", "context"}}
    \cup {RequestLabel(snapshot.mtp[s], stale) : s \in Speculative}

(* passive_metric *)
PassiveLabel(value, stale) ==
    CASE value = Absent -> "UNAVAILABLE"
      [] OTHER -> IF stale THEN "STALE" ELSE "LIVE"

(* consume_sse_lines: the events of a stream up to the first with timings; *)
(* an event is [token, final], final being a response or Absent.           *)
FinalIndex(events) == SelectInSeq(events, LAMBDA event : event.final # Absent)
TokenIndex(events) == SelectInSeq(events, LAMBDA event : event.token)

(* probe_llama_cpp_streaming after the stream has ended.                   *)
StreamOutcome(events) ==
    LET final == FinalIndex(events)
        token == TokenIndex(events)
    IN  CASE token = 0 \/ (final # 0 /\ token > final) -> "MissingFirstToken"
          [] token # 0 /\ final = 0 -> "MissingTimings"
          [] OTHER -> "Evidence"
=============================================================================
