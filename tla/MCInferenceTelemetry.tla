----------------------- MODULE MCInferenceTelemetry -----------------------
(* Answers of a server: with and without the counters of speculation, one  *)
(* whose ratio cannot be, one without a token and one cut off.             *)
EXTENDS InferenceTelemetry, TLC
CONSTANT m1
MCPreloaded == <<m1>>

AllPaths ==
    {"prompt_per_second", "predicted_per_second", "cache_n", "tokens_cached", "prompt_n",
     "tokens_evaluated", "predicted_n", "tokens_predicted", "draft_n", "draft_tokens",
     "draft_n_accepted", "draft_tokens_accepted", "draft_accept_ratio", "draft_mean_len",
     "draft_mean_run", "speculative.types"}

Response(given) == [p \in AllPaths |-> IF p \in DOMAIN given THEN given[p] ELSE Absent]
Plain == Response("prompt_per_second" :> 10 @@ "predicted_per_second" :> 5 @@ "cache_n" :> 1
                  @@ "prompt_n" :> 2 @@ "predicted_n" :> 4)
Event(token, final) == [token |-> token, final |-> final]
MCStreams == {<<Event(TRUE, Absent), Event(FALSE, Plain)>>, <<Event(TRUE, Absent)>>}

(* The counters of speculation over all small values: an acceptance that   *)
(* is shown is one of the runtime's or follows from its counters, and what *)
(* cannot be is an error, never a number.                                  *)
Counts == {Absent, Malformed, 0, 1, 2}
AcceptanceOf(direct, generated, accepted) ==
    SnapshotOf(Response("draft_accept_ratio" :> direct @@ "draft_n" :> generated
                        @@ "draft_n_accepted" :> accepted @@ "speculative.types" :> {"mtp"}), 1, 2)
        .mtp["acceptance"]
ASSUME AcceptanceIsSound ==
    \A direct \in {Absent, Malformed, 0, 1000, 1001}, generated \in Counts, accepted \in Counts :
        LET shown == AcceptanceOf(direct, generated, accepted) IN
        /\ IsLive(shown) => shown.value \in 0..1000
        /\ IsLive(shown) /\ direct = Absent => shown.value * generated = 1000 * accepted
        /\ direct = Malformed \/ direct = 1001 => shown = Failed
=============================================================================
