----------------------------- MODULE TimeSeries -----------------------------
(***************************************************************************)
(* A bounded time series (telemetry_history.rs): what `push` keeps of the  *)
(* samples of one metric, and the chart that is drawn from what was kept.  *)
(* A sample is [ts, val, state].  Its source is left out: the page takes   *)
(* it from the reading (telemetry_chart_ui.rs), and each provider names    *)
(* one source for a metric, so the refusal of a sample of another source   *)
(* than that of its series (SourceMismatch) does not happen.               *)
(***************************************************************************)
EXTENDS Integers, Sequences, FiniteSets, SequencesExt

CONSTANTS
    None,           \* an absent value (Option::None)
    Retention,      \* retention_ms
    RawRetention,   \* raw_retention_ms
    BucketWidth,    \* downsample_bucket_ms
    MaxPoints,      \* max_points_per_series
    MinMaxPoints,   \* the least max_points_per_series (8 in the code)
    GapLimit,       \* missing_gap_after_ms
    Width           \* width_px of the chart

RenderStates == {"Live", "Stale"}
SampleStates == RenderStates \cup {"Disconnected", "Paused", "Unavailable", "Error", "Reset"}

SatSub(a, b) == IF a > b THEN a - b ELSE 0          \* u64::saturating_sub

Sample(ts, val, state) == [ts |-> ts, val |-> val, state |-> state]

(* A sample that is drawn: live or stale, with a value. *)
Renderable(s) == s.state \in RenderStates /\ s.val # None

NewSeries == [samples |-> <<>>, compacted |-> None]

-----------------------------------------------------------------------------
(* Compaction: samples up to the cutoff that fall into one bucket, in one  *)
(* class and without another kind of sample between them, are reduced to   *)
(* the first, the first minimum, the first maximum and the last of them.   *)

Compactable(s, cutoff) == Renderable(s) /\ s.ts <= cutoff

SameBucket(s, t) == s.ts \div BucketWidth = t.ts \div BucketWidth /\ s.state = t.state

Bucket(ss, cutoff, i) ==
    {j \in DOMAIN ss :
        \A k \in DOMAIN ss : (i <= k /\ k <= j) \/ (j <= k /\ k <= i) =>
            Compactable(ss[k], cutoff) /\ SameBucket(ss[k], ss[i])}

IsFirst(bucket, i) == \A j \in bucket : i <= j
IsLast(bucket, i) == \A j \in bucket : i >= j
IsMinimum(ss, bucket, i) ==
    \A j \in bucket : ss[i].val < ss[j].val \/ (ss[i].val = ss[j].val /\ i <= j)
IsMaximum(ss, bucket, i) ==
    \A j \in bucket : ss[i].val > ss[j].val \/ (ss[i].val = ss[j].val /\ i <= j)

(* Mutant: the bucket forgets its maximum.                                 *)
RoleWithoutMax(ss, bucket, i) ==
    IF IsFirst(bucket, i) THEN 1
    ELSE IF IsMinimum(ss, bucket, i) THEN 2
    ELSE IF IsLast(bucket, i) THEN 4 ELSE 5

(* The first place of position i in [first, min, max, last], 5 for none.   *)
Role(ss, bucket, i) ==
    IF IsFirst(bucket, i) THEN 1
    ELSE IF IsMinimum(ss, bucket, i) THEN 2
    ELSE IF IsMaximum(ss, bucket, i) THEN 3
    ELSE IF IsLast(bucket, i) THEN 4 ELSE 5

(* Two selected samples of one timestamp are one: dedup_by_key keeps the   *)
(* one that comes first in [first, min, max, last].                        *)
Kept(ss, cutoff, i) ==
    LET bucket == Bucket(ss, cutoff, i) IN
    \/ ~Compactable(ss[i], cutoff)
    \/ /\ Role(ss, bucket, i) < 5
       /\ \A j \in bucket : ss[j].ts = ss[i].ts =>
            Role(ss, bucket, i) <= Role(ss, bucket, j)

Selected(ss, keep) ==
    [n \in 1 .. Cardinality(keep) |->
        ss[CHOOSE i \in keep : Cardinality({j \in keep : j < i}) = n - 1]]

NewestOf(n, ss) == SubSeq(ss, SatSub(Len(ss), n) + 1, Len(ss))

Compact(ss, newest) ==
    LET cutoff == SatSub(newest, RawRetention)
        keep == {i \in DOMAIN ss : Kept(ss, cutoff, i)}
    IN  NewestOf(MaxPoints, Selected(ss, keep))

(* prune_expired pops the samples at the front that are too old. *)
PruneExpired(ss, newest) ==
    LET expired == {i \in DOMAIN ss :
            \A j \in 1 .. i : ss[j].ts < SatSub(newest, Retention)}
    IN  SubSeq(ss, Cardinality(expired) + 1, Len(ss))

Accepts(series, sample) ==
    series.samples = <<>> \/ sample.ts >= series.samples[Len(series.samples)].ts

(* TimeSeries::push of a sample that is not older than the last one. *)
Push(series, sample) ==
    LET kept == PruneExpired(Append(series.samples, sample), sample.ts)
        due == \/ Len(kept) > MaxPoints
               \/ series.compacted = None
               \/ SatSub(sample.ts, series.compacted) >= BucketWidth
    IN  IF due THEN [samples |-> Compact(kept, sample.ts), compacted |-> sample.ts]
               ELSE [series EXCEPT !.samples = kept]

PresentationState(series) ==
    IF series.samples = <<>> THEN "Empty" ELSE series.samples[Len(series.samples)].state

-----------------------------------------------------------------------------
(* ChartProjection::build: the lines and the gaps of the chart.  Of the    *)
(* geometry only the pixel column of a point is kept, which decides what   *)
(* decimation leaves of a line.                                            *)

(* Mutant: the interval between the samples is not looked at.              *)
JoinedAcrossPause(ss, i) ==
    Renderable(ss[i]) /\ Renderable(ss[i + 1]) /\ ss[i].state = ss[i + 1].state

(* Samples i and i+1 are drawn with a line between them. *)
Joined(ss, i) ==
    /\ Renderable(ss[i]) /\ Renderable(ss[i + 1])
    /\ ss[i].state = ss[i + 1].state
    /\ SatSub(ss[i + 1].ts, ss[i].ts) <= GapLimit

SegmentBounds(ss) ==
    {b \in (DOMAIN ss) \X (DOMAIN ss) :
        /\ b[1] <= b[2] /\ Renderable(ss[b[1]])
        /\ \A i \in b[1] .. b[2] - 1 : Joined(ss, i)
        /\ b[1] > 1 => ~Joined(ss, b[1] - 1)
        /\ b[2] < Len(ss) => ~Joined(ss, b[2])}

ProjectX(ss, s) ==
    LET span == ss[Len(ss)].ts - ss[1].ts IN
    IF span > 0 THEN (SatSub(s.ts, ss[1].ts) * Width) \div span ELSE 0

(* decimate_for_pixels: over the budget, each pixel column keeps its first *)
(* minimum and its last maximum, in the order of time.                     *)
Decimated(ss, points) ==
    LET column(i) == {j \in DOMAIN points : ProjectX(ss, points[j]) = ProjectX(ss, points[i])}
        isMin(i) == \A j \in column(i) : \/ points[i].val < points[j].val
                                         \/ points[i].val = points[j].val /\ i <= j
        isMax(i) == \A j \in column(i) : \/ points[i].val > points[j].val
                                         \/ points[i].val = points[j].val /\ i >= j
        twin(i) == \E j \in column(i) \ {i} : isMin(j) /\ points[j].ts = points[i].ts
    IN  IF Len(points) <= 2 * Width THEN points
        ELSE Selected(points, {i \in DOMAIN points : isMin(i) \/ (isMax(i) /\ ~twin(i))})

Segments(ss) ==
    {[state |-> ss[b[1]].state, points |-> Decimated(ss, SubSeq(ss, b[1], b[2]))] :
        b \in SegmentBounds(ss)}

(* An explicit state covers the time until the next sample, a missing      *)
(* interval the time between two drawn samples.                            *)
Gaps(ss) ==
    {[kind |-> ss[i].state, from |-> ss[i].ts,
      to |-> IF i < Len(ss) THEN ss[i + 1].ts ELSE ss[i].ts] :
        i \in {j \in DOMAIN ss : ~Renderable(ss[j]) /\ ss[j].state # "Live"}}
    \cup
    {[kind |-> "MissingSamples", from |-> ss[i].ts, to |-> ss[i + 1].ts] :
        i \in {j \in 1 .. Len(ss) - 1 :
                /\ Renderable(ss[j]) /\ Renderable(ss[j + 1])
                /\ SatSub(ss[j + 1].ts, ss[j].ts) > GapLimit}}

Projection(series) ==
    [state |-> PresentationState(series),
     segments |-> Segments(series.samples), gaps |-> Gaps(series.samples)]
=============================================================================
