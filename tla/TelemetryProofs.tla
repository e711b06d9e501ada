--------------------------- MODULE TelemetryProofs ---------------------------
(***************************************************************************)
(* Proofs about Telemetry, for any devices, rules, thresholds, policies    *)
(* and answers of the platform, and however the clock is set back:         *)
(*   - the readings on the cards: StaleCorrect;                            *)
(*   - the charts: ExtremaCorrect and LinesCorrect.  A series stands for   *)
(*     all that it accepted (Faithful): what is left of it is the history, *)
(*     thinned, and bounds every bucket of it;                             *)
(*   - the alerts: AgreementCorrect and EarnedCorrect.  An open window is  *)
(*     backed by the last samples that its rule evaluated (EvidenceInv).   *)
(***************************************************************************)
EXTENDS Telemetry, FiniteSetTheorems, TLAPS

-----------------------------------------------------------------------------
(* Readings                                                                *)

\* A reading and the last live one: a live reading is the last one itself, a
\* stale one has its value and its time.
Carries(reading, last) ==
  reading # None =>
    /\ reading.kind = "Live" => last = reading
    /\ reading.kind = "Stale" =>
         last # None /\ reading.val = last.val /\ reading.obs = last.at

\* A failed query carries on what the reading before it carried.
LEMMA FailedCarries ==
  ASSUME NEW previous, NEW last, NEW at, Carries(previous, last)
  PROVE  Carries(P!FailedOrStale(previous, at), Newest(P!FailedOrStale(previous, at), last))
  BY DEF Carries, P!FailedOrStale, P!Reading, Newest

\* So does an adapter that was not enumerated.
LEMMA StaleCarries ==
  ASSUME NEW previous, NEW last, NEW at, Carries(previous, last)
  PROVE  Carries(P!StaleReading(previous, at), Newest(P!StaleReading(previous, at), last))
<1>1. CASE previous.kind \in {"Live", "Stale"}
  BY <1>1, FailedCarries DEF P!StaleReading
<1>2. CASE previous.kind \notin {"Live", "Stale"}
  BY <1>2 DEF P!StaleReading, P!Reading, Carries, Newest
<1> QED BY <1>1, <1>2

\* What the platform answers is live, unavailable, or a failed query.
LEMMA LiveCarries ==
  ASSUME NEW val, NEW last, NEW at
  PROVE  /\ Carries(P!LiveReading(val, at), Newest(P!LiveReading(val, at), last))
         /\ Carries(P!UnavailableReading(at), Newest(P!UnavailableReading(at), last))
  BY DEF Carries, P!LiveReading, P!UnavailableReading, P!Reading, Newest

LEMMA UsageCarries ==
  ASSUME NEW state, NEW cpu, NEW at, NEW last, Carries(state.usage, last)
  PROVE  Carries(P!CpuUsage(state, cpu, at), Newest(P!CpuUsage(state, cpu, at), last))
  BY FailedCarries, LiveCarries DEF P!CpuUsage

LEMMA MetricCarries ==
  ASSUME NEW metric, NEW previous, NEW at, NEW last, Carries(previous, last)
  PROVE  LET reading == P!MetricReading(metric, previous, at) IN
         Carries(reading, Newest(reading, last))
  BY FailedCarries, LiveCarries DEF P!MetricReading

\* None carries whatever was last, which is how a new adapter begins.
LEMMA NoneCarries ==
  ASSUME NEW last
  PROVE  Carries(None, last)
  BY DEF Carries

-----------------------------------------------------------------------------
(* Adapters                                                                *)

AdapterCarries(adapter, last) ==
  adapter # None => Carries(adapter.util, last.util) /\ Carries(adapter.temp, last.temp)

\* What the worker notes of an adapter after a turn.
Noted(adapter, last) ==
  IF adapter = None THEN last
  ELSE [util |-> Newest(adapter.util, last.util), temp |-> Newest(adapter.temp, last.temp)]

LEMMA NotedCarries ==
  ASSUME NEW adapter, NEW last,
         Carries(adapter.util, Newest(adapter.util, last.util)),
         Carries(adapter.temp, Newest(adapter.temp, last.temp))
  PROVE  AdapterCarries(adapter, Noted(adapter, last))
  BY DEF AdapterCarries, Noted

\* An adapter that was enumerated, new or known.
LEMMA ConvertCarries ==
  ASSUME NEW state, NEW i, NEW d, NEW answer, NEW at, NEW last,
         AdapterCarries(state.previous[i], last)
  PROVE  LET adapter == P!ConvertAdapter(state, i, d, answer, at) IN
         AdapterCarries(adapter, Noted(adapter, last))
<1> DEFINE previous == state.previous[i]
           adapter == P!ConvertAdapter(state, i, d, answer, at)
           util == IF previous = None THEN None ELSE previous.util
           temp == IF previous = None THEN None ELSE previous.temp
<1>1. Carries(util, last.util) /\ Carries(temp, last.temp)
  BY NoneCarries DEF AdapterCarries
<1>2. /\ adapter.util = P!MetricReading(answer.util, util, at)
      /\ adapter.temp = P!MetricReading(answer.temp, temp, at)
  BY DEF P!ConvertAdapter
<1> HIDE DEF util, temp, adapter
<1>3. /\ Carries(adapter.util, Newest(adapter.util, last.util))
      /\ Carries(adapter.temp, Newest(adapter.temp, last.temp))
  BY <1>1, <1>2, MetricCarries
<1> QED BY <1>3, NotedCarries DEF adapter

\* An adapter that is carried on as stale, because it was not enumerated or
\* nothing was.
LEMMA StaleAdapterCarries ==
  ASSUME NEW previous, NEW at, NEW last, previous # None, AdapterCarries(previous, last)
  PROVE  LET adapter == P!StaleAdapter(previous, at) IN
         AdapterCarries(adapter, Noted(adapter, last))
<1> DEFINE adapter == P!StaleAdapter(previous, at)
<1>1. Carries(previous.util, last.util) /\ Carries(previous.temp, last.temp)
  BY DEF AdapterCarries
<1>2. /\ adapter.util = P!StaleReading(previous.util, at)
      /\ adapter.temp = P!StaleReading(previous.temp, at)
  BY DEF P!StaleAdapter
<1> HIDE DEF adapter
<1>3. /\ Carries(adapter.util, Newest(adapter.util, last.util))
      /\ Carries(adapter.temp, Newest(adapter.temp, last.temp))
  BY <1>1, <1>2, StaleCarries
<1> QED BY <1>3, NotedCarries DEF adapter

\* An adapter of a snapshot is unknown, one that was enumerated, or one that is
\* carried on as stale.
LEMMA SampledAdapter ==
  ASSUME DOMAIN gpu = {"loaded", "previous", "count"}, DOMAIN gpu.previous = P!Identities,
         NEW input, NEW at, NEW i \in P!Identities
  PROVE  LET adapter == P!SampleGpu(gpu, input, at).previous[i] IN
         \/ adapter = None
         \/ \E d \in DOMAIN input.answers :
              adapter = P!ConvertAdapter(gpu, i, d, input.answers[d], at)
         \/ gpu.previous[i] # None /\ adapter = P!StaleAdapter(gpu.previous[i], at)
<1> DEFINE adapter == P!SampleGpu(gpu, input, at).previous[i]
           answers == input.answers
           named == {d \in DOMAIN answers : P!IdentityOf(d, answers[d]) = i}
           device == CHOOSE d \in named : TRUE
<1>1. CASE P!Answered(gpu, input)
  <2>1. P!SampleGpu(gpu, input, at) = P!Enumerated(gpu, answers, at)
    BY <1>1 DEF P!SampleGpu
  <2>2. adapter = IF named # {} THEN P!ConvertAdapter(gpu, i, device, answers[device], at)
                  ELSE IF gpu.previous[i] = None THEN None
                  ELSE P!StaleAdapter(gpu.previous[i], at)
    BY <2>1 DEF P!Enumerated
  <2>3. named # {} => device \in DOMAIN answers
    OBVIOUS
  <2> HIDE DEF adapter, named, device
  <2> QED BY <2>2, <2>3 DEF adapter
<1>2. CASE ~P!Answered(gpu, input)
  <2>1. adapter = P!ProviderFailure(gpu, at).previous[i]
    BY <1>2 DEF P!SampleGpu, P!ProviderFailure
  <2> QED BY <2>1 DEF P!ProviderFailure
<1> QED BY <1>1, <1>2

\* The adapters of a snapshot, whether the platform enumerated them or not.
LEMMA SampleCarries ==
  ASSUME DOMAIN gpu = {"loaded", "previous", "count"}, DOMAIN gpu.previous = P!Identities,
         NEW input, NEW at, NEW i \in P!Identities, NEW last,
         AdapterCarries(gpu.previous[i], last)
  PROVE  LET adapter == P!SampleGpu(gpu, input, at).previous[i] IN
         AdapterCarries(adapter, Noted(adapter, last))
<1> DEFINE adapter == P!SampleGpu(gpu, input, at).previous[i]
<1>1. \/ adapter = None
      \/ \E d : adapter = P!ConvertAdapter(gpu, i, d, input.answers[d], at)
      \/ gpu.previous[i] # None /\ adapter = P!StaleAdapter(gpu.previous[i], at)
  BY SampledAdapter
<1> HIDE DEF adapter
<1>2. AdapterCarries(adapter, Noted(adapter, last))
  <2>1. CASE adapter = None
    BY <2>1 DEF AdapterCarries
  <2>2. CASE \E d : adapter = P!ConvertAdapter(gpu, i, d, input.answers[d], at)
    BY <2>2, ConvertCarries
  <2>3. CASE gpu.previous[i] # None /\ adapter = P!StaleAdapter(gpu.previous[i], at)
    BY <2>3, StaleAdapterCarries
  <2> QED BY <1>1, <2>1, <2>2, <2>3
<1> QED BY <1>2 DEF adapter

-----------------------------------------------------------------------------
(* The invariant: the providers carry what was last live, and the page     *)
(* shows the providers' readings.  The page alone would not do, since a    *)
(* provider answers from the readings it keeps.                            *)

CarriedInv ==
  /\ Carries(hw.usage, lastLive[Cpu].util)
  /\ \A i \in P!Identities : AdapterCarries(gpu.previous[i], lastLive[i])

ShownInv ==
  \/ page.usage = hw.usage /\ page.adapters = gpu.previous
  \/ page.usage = None /\ page.adapters = [i \in P!Identities |-> None]

ShapeInv ==
  /\ DOMAIN gpu = {"loaded", "previous", "count"} /\ DOMAIN gpu.previous = P!Identities
  /\ DOMAIN lastLive = Keys /\ \A k \in Keys : DOMAIN lastLive[k] = {"util", "temp"}

ReadingsInv == ShapeInv /\ CarriedInv /\ ShownInv

LEMMA HostIsNoAdapter == Cpu \notin P!Identities
  BY DEF Cpu, P!Identities

LEMMA ReadingsInit == Init => ReadingsInv
<1> SUFFICES ASSUME Init PROVE ReadingsInv OBVIOUS
<1>1. ShapeInv
  BY DEF Init, ShapeInv, P!NewGpu
<1>2. CarriedInv
  BY DEF Init, CarriedInv, Carries, AdapterCarries, P!NewGpu, P!NewHardware
<1>3. ShownInv
  BY DEF Init, ShownInv, NewPage
<1> QED BY <1>1, <1>2, <1>3 DEF ReadingsInv

LEMMA TurnKeeps ==
  ASSUME ReadingsInv, NEW input, NEW hAt, NEW gAt, Turn(input, hAt, gAt)
  PROVE  ReadingsInv'
<1>1. /\ hw' = P!SampleHardware(hw, input.cpu, input.memory, hAt)
      /\ gpu' = P!SampleGpu(gpu, input.gpu, gAt)
  BY DEF Turn
<1>2. page'.usage = hw'.usage /\ page'.adapters = gpu'.previous
  BY DEF Turn
<1>3. lastLive' = [k \in Keys |->
            IF k = Cpu THEN [lastLive[k] EXCEPT !.util = Newest(hw'.usage, @)]
            ELSE Noted(gpu'.previous[k], lastLive[k])]
  BY DEF Turn, Noted
<1>4. ShapeInv'
  <2>1. DOMAIN gpu' = {"loaded", "previous", "count"} /\ DOMAIN gpu'.previous = P!Identities
    BY <1>1 DEF ReadingsInv, ShapeInv, P!SampleGpu, P!Enumerated, P!ProviderFailure
  <2>2. DOMAIN lastLive' = Keys /\ \A k \in Keys : DOMAIN lastLive'[k] = {"util", "temp"}
    BY <1>3 DEF ReadingsInv, ShapeInv, Noted
  <2> QED BY <2>1, <2>2 DEF ShapeInv
<1>5. Carries(hw'.usage, lastLive'[Cpu].util)
  <2>1. lastLive'[Cpu].util = Newest(hw'.usage, lastLive[Cpu].util)
    BY <1>3 DEF ReadingsInv, ShapeInv, Keys
  <2>2. hw'.usage = P!CpuUsage(hw, input.cpu, hAt)
    BY <1>1 DEF P!SampleHardware
  <2> QED BY <2>1, <2>2, UsageCarries DEF ReadingsInv, CarriedInv
<1>6. ASSUME NEW i \in P!Identities PROVE AdapterCarries(gpu'.previous[i], lastLive'[i])
  <2>1. lastLive'[i] = Noted(gpu'.previous[i], lastLive[i])
    BY <1>3, HostIsNoAdapter DEF Keys
  <2>2. AdapterCarries(gpu.previous[i], lastLive[i])
    BY DEF ReadingsInv, CarriedInv
  <2>3. AdapterCarries(P!SampleGpu(gpu, input.gpu, gAt).previous[i],
                       Noted(P!SampleGpu(gpu, input.gpu, gAt).previous[i], lastLive[i]))
    BY <2>2, SampleCarries DEF ReadingsInv, ShapeInv
  <2> QED BY <1>1, <2>1, <2>3
<1> QED BY <1>2, <1>4, <1>5, <1>6 DEF ReadingsInv, CarriedInv, ShownInv

LEMMA ReadingsStep == ReadingsInv /\ [Next]_vars => ReadingsInv'
<1> SUFFICES ASSUME ReadingsInv, [Next]_vars PROVE ReadingsInv' OBVIOUS
<1>1. CASE SampleAll
  BY <1>1, TurnKeeps DEF SampleAll
<1>2. CASE SampleWhileSetBack
  BY <1>2, TurnKeeps DEF SampleWhileSetBack
<1>3. CASE AdjustThreshold \/ UNCHANGED vars
  BY <1>3 DEF AdjustThreshold, vars, ReadingsInv, ShapeInv, CarriedInv, ShownInv
<1> QED BY <1>1, <1>2, <1>3 DEF Next

\* Every stale reading on a card is the last live one, with the time at which
\* it was live: through any number of failed queries, adapters that disappear
\* and come back, and clocks that are set back.
THEOREM StaleCorrect == Spec => []StaleIsLastLive
<1>1. ReadingsInv => StaleIsLastLive
  BY DEF ReadingsInv, CarriedInv, ShownInv, StaleIsLastLive, Carries, AdapterCarries
<1> QED BY <1>1, ReadingsInit, ReadingsStep, PTL DEF Spec

-----------------------------------------------------------------------------
(* Numbers, and the positions of a sequence                                *)

\* A nonempty set of naturals has a least element: what the library says of
\* strict inclusion among finite sets, of the sets 0 .. x.
LEMMA LeastNat ==
  ASSUME NEW T \in SUBSET Nat, T # {}
  PROVE  \E x \in T : \A y \in T : x <= y
<1> DEFINE F == {0 .. x : x \in T}
<1>1. F \subseteq FiniteSubsetsOf(Nat)
  <2>1. ASSUME NEW x \in T PROVE 0 .. x \in SUBSET Nat /\ IsFiniteSet(0 .. x)
    BY FS_Interval
  <2> QED BY <2>1 DEF FiniteSubsetsOf
<1>2. PICK S \in F : \A U \in F : ~(<<U, S>> \in StrictSubsetOrdering(Nat))
  <2>1. IsWellFoundedOn(StrictSubsetOrdering(Nat), FiniteSubsetsOf(Nat))
    BY FS_StrictSubsetOrderingWellFounded
  <2>2. F # {}
    OBVIOUS
  <2> HIDE DEF F
  <2> QED BY <1>1, <2>1, <2>2, WFMin
<1>3. PICK x \in T : S = 0 .. x
  OBVIOUS
<1>4. ASSUME NEW y \in T, y < x PROVE FALSE
  <2>1. 0 .. y \in F /\ 0 .. y \subseteq 0 .. x /\ 0 .. y # 0 .. x
    BY <1>4
  <2>2. 0 .. y \in SUBSET Nat /\ 0 .. x \in SUBSET Nat
    OBVIOUS
  <2> QED BY <1>2, <1>3, <2>1, <2>2 DEF StrictSubsetOrdering
<1> QED BY <1>4

\* The place at which an increasing function passes m.
LEMMA Straddle ==
  ASSUME NEW n \in Nat, NEW at, \A i \in 1 .. n : at[i] \in Nat,
         \A i, j \in 1 .. n : i < j => at[i] < at[j],
         NEW p \in 1 .. n, NEW m \in Nat, at[p] <= m
  PROVE  \E r \in p .. n : at[r] <= m /\ (r < n => m < at[r + 1])
<1> DEFINE T == {r \in 1 .. n : p < r /\ m < at[r]}
<1>1. CASE T = {}
  <2>1. at[n] <= m
    BY <1>1
  <2> QED BY <2>1
<1>2. CASE T # {}
  <2>1. PICK x \in T : \A y \in T : x <= y
    <3>1. T \in SUBSET Nat
      OBVIOUS
    <3> HIDE DEF T
    <3> QED BY <1>2, <3>1, LeastNat
  <2>2. x - 1 \in p .. n /\ x \in 1 .. n /\ m < at[x]
    BY <2>1
  <2>3. at[x - 1] <= m
    <3>1. CASE x - 1 = p
      BY <3>1
    <3>2. CASE x - 1 # p
      <4>1. x - 1 \notin T
        BY <2>1, <2>2
      <4> QED BY <2>2, <3>2, <4>1
    <3> QED BY <3>1, <3>2
  <2> QED BY <2>2, <2>3
<1> QED BY <1>1, <1>2

\* The positions of a set in their order: the n-th is the one with n - 1 below it.
Below(keep, i) == {j \in keep : j < i}

\* Of a finite set of positions, how many lie below each.
LEMMA Ranks ==
  ASSUME NEW n \in Nat, NEW keep \in SUBSET (1 .. n)
  PROVE  /\ IsFiniteSet(keep) /\ Cardinality(keep) \in Nat
         /\ \A i \in keep : Cardinality(Below(keep, i)) \in 0 .. Cardinality(keep) - 1
         /\ \A i, j \in keep :
              i < j => Cardinality(Below(keep, i)) < Cardinality(Below(keep, j))
<1>0. \A i \in keep : i \in Nat
  OBVIOUS
<1>1. IsFiniteSet(keep)
  <2>1. IsFiniteSet(1 .. n)
    BY FS_Interval
  <2> QED BY <2>1, FS_Subset
<1>2. Cardinality(keep) \in Nat
  BY <1>1, FS_CardinalityType
<1>3. ASSUME NEW i \in keep
      PROVE  /\ IsFiniteSet(Below(keep, i))
             /\ Cardinality(Below(keep, i)) \in Nat
             /\ Cardinality(Below(keep, i)) <= Cardinality(keep)
             /\ Cardinality(Below(keep, i)) # Cardinality(keep)
  <2>1. Below(keep, i) \in SUBSET keep /\ Below(keep, i) # keep
    BY DEF Below
  <2>2. IsFiniteSet(Below(keep, i)) /\ Cardinality(Below(keep, i)) <= Cardinality(keep)
        /\ Cardinality(Below(keep, i)) # Cardinality(keep)
    BY <1>1, <2>1, FS_Subset
  <2> QED BY <2>2, FS_CardinalityType
<1>4. ASSUME NEW i \in keep, NEW j \in keep, i < j
      PROVE  Cardinality(Below(keep, i)) < Cardinality(Below(keep, j))
  <2>1. Below(keep, i) \in SUBSET Below(keep, j) /\ Below(keep, i) # Below(keep, j)
    <3>1. i \in Below(keep, j) /\ i \notin Below(keep, i)
      BY <1>0, <1>4 DEF Below
    <3>2. ASSUME NEW k \in Below(keep, i) PROVE k \in Below(keep, j)
      BY <1>0, <1>4 DEF Below
    <3> QED BY <3>1, <3>2
  <2>2. /\ Cardinality(Below(keep, i)) <= Cardinality(Below(keep, j))
        /\ Cardinality(Below(keep, i)) # Cardinality(Below(keep, j))
    BY <1>3, <2>1, FS_Subset
  <2> QED BY <1>3, <2>2
<1> QED BY <1>1, <1>2, <1>3, <1>4

\* What Selected keeps of a sequence: the samples at these positions, in order.
Picks(at, n, keep) ==
  /\ at \in [1 .. n -> keep]
  /\ \A i, j \in 1 .. n : i < j => at[i] < at[j]
  /\ \A p \in keep : \E i \in 1 .. n : at[i] = p

Picked(ss, at, n) == [r \in 1 .. n |-> ss[at[r]]]

\* Selected keeps the samples at the positions of the set, in their order.
LEMMA SelectedPicks ==
  ASSUME NEW n \in Nat, NEW keep \in SUBSET (1 .. n), NEW ss
  PROVE  \E c \in Nat : \E at : Picks(at, c, keep) /\ Selected(ss, keep) = Picked(ss, at, c)
<1> DEFINE c == Cardinality(keep)
           rank(i) == Cardinality(Below(keep, i))
           R == [i \in keep |-> rank(i) + 1]
           at == [r \in 1 .. c |-> CHOOSE i \in keep : rank(i) = r - 1]
<1>0. \A i \in keep : i \in Nat
  OBVIOUS
<1>1. /\ IsFiniteSet(keep) /\ c \in Nat
      /\ \A i \in keep : rank(i) \in 0 .. c - 1
      /\ \A i, j \in keep : i < j => rank(i) < rank(j)
  BY Ranks
<1>2. Selected(ss, keep) = Picked(ss, at, c)
  BY DEF Selected, Below, Picked
<1> HIDE DEF rank, c
<1>3. \A i, j \in keep : i # j => rank(i) # rank(j)
  <2> SUFFICES ASSUME NEW i \in keep, NEW j \in keep, i # j PROVE rank(i) # rank(j)
    OBVIOUS
  <2>1. i < j \/ j < i
    OBVIOUS
  <2> QED BY <1>1, <2>1
<1>4. \A r \in 1 .. c : \E i \in keep : rank(i) = r - 1
  <2>1. R \in Injection(keep, 1 .. c)
    <3>1. R \in [keep -> 1 .. c]
      BY <1>1
    <3>2. \A i, j \in keep : R[i] = R[j] => i = j
      BY <1>1, <1>3
    <3> QED BY <3>1, <3>2 DEF Injection, IsInjective
  <2>2. IsFiniteSet(1 .. c) /\ Cardinality(1 .. c) = c
    BY <1>1, FS_Interval
  <2>3. R \in Surjection(keep, 1 .. c)
    BY <1>1, <2>1, <2>2, FS_Injection DEF c
  <2>4. \A r \in 1 .. c : \E i \in keep : R[i] = r
    BY <2>3 DEF Surjection
  <2>5. \A i \in keep : R[i] = rank(i) + 1 /\ rank(i) \in Int
    BY <1>1
  <2> HIDE DEF R
  <2> QED BY <2>4, <2>5
<1>5. \A r \in 1 .. c : at[r] \in keep /\ rank(at[r]) = r - 1
  BY <1>4
<1> HIDE DEF at
<1>6. at \in [1 .. c -> keep]
  BY <1>5 DEF at
<1>7. \A i, j \in 1 .. c : i < j => at[i] < at[j]
  <2> SUFFICES ASSUME NEW i \in 1 .. c, NEW j \in 1 .. c, i < j, ~(at[i] < at[j]) PROVE FALSE
    OBVIOUS
  <2>1. at[i] \in keep /\ at[j] \in keep /\ rank(at[i]) = i - 1 /\ rank(at[j]) = j - 1
    BY <1>5
  <2>2. at[j] < at[i] \/ at[j] = at[i]
    <3>1. at[i] \in Nat /\ at[j] \in Nat
      BY <1>0, <2>1
    <3> QED BY <3>1
  <2>3. rank(at[j]) <= rank(at[i])
    <3>1. rank(at[i]) \in Int /\ rank(at[j]) \in Int
      BY <1>1, <2>1
    <3>2. CASE at[j] < at[i]
      <4>1. rank(at[j]) < rank(at[i])
        BY <1>1, <2>1, <3>2
      <4> QED BY <3>1, <4>1
    <3>3. CASE at[j] = at[i]
      BY <3>1, <3>3
    <3> QED BY <2>2, <3>2, <3>3
  <2>4. i \in Nat /\ j \in Nat /\ i < j /\ j - 1 <= i - 1
    BY <2>1, <2>3
  <2> QED BY <2>4
<1>8. \A p \in keep : \E i \in 1 .. c : at[i] = p
  <2> SUFFICES ASSUME NEW p \in keep PROVE at[rank(p) + 1] = p /\ rank(p) + 1 \in 1 .. c
    OBVIOUS
  <2>1. rank(p) + 1 \in 1 .. c
    BY <1>1
  <2>2. at[rank(p) + 1] \in keep /\ rank(at[rank(p) + 1]) = rank(p)
    BY <1>1, <1>5, <2>1
  <2> QED BY <1>3, <2>1, <2>2
<1>9. Picks(at, c, keep)
  BY <1>6, <1>7, <1>8 DEF Picks
<1> QED BY <1>1, <1>2, <1>9

\* Induction over the naturals, of a set.
LEMMA NatSet ==
  ASSUME NEW T \in SUBSET Nat, 0 \in T, \A n \in T : n + 1 \in T
  PROVE  \A n \in Nat : n \in T
<1> SUFFICES ASSUME NEW U, U = Nat \ T, U # {} PROVE FALSE
  OBVIOUS
<1>1. PICK x \in U : \A y \in U : x <= y
  BY LeastNat
<1>2. x \in Nat /\ x # 0 /\ x - 1 \in Nat /\ x - 1 \notin U
  BY <1>1
<1>3. (x - 1) + 1 \in T
  BY <1>2
<1> QED BY <1>2, <1>3

\* Of finitely many integers one is the first least.
LEMMA FirstLeast ==
  ASSUME NEW n \in Nat, NEW B \in SUBSET (1 .. n), B # {},
         NEW v, \A i \in B : v[i] \in Int
  PROVE  \E i \in B : \A j \in B : v[i] < v[j] \/ (v[i] = v[j] /\ i <= j)
<1> DEFINE T == {m \in Nat : \E i \in B : \A j \in B : j <= m => v[i] <= v[j]}
<1>0. \A j \in B : j \in Nat /\ 1 <= j /\ j <= n
  OBVIOUS
<1>1. 0 \in T
  <2>1. \E i \in B : \A j \in B : j <= 0 => v[i] <= v[j]
    <3>1. PICK i \in B : TRUE
      OBVIOUS
    <3> QED BY <1>0, <3>1
  <2> QED BY <2>1
<1>2. ASSUME NEW m \in T PROVE m + 1 \in T
  <2>0. m \in Nat
    OBVIOUS
  <2>1. PICK i \in B : \A j \in B : j <= m => v[i] <= v[j]
    OBVIOUS
  <2>2. CASE m + 1 \in B /\ v[m + 1] < v[i]
    <3>1. ASSUME NEW j \in B, j <= m + 1 PROVE v[m + 1] <= v[j]
      <4>1. j = m + 1 \/ j <= m
        BY <1>0, <2>0, <3>1
      <4>2. v[j] \in Int /\ v[m + 1] \in Int /\ v[i] \in Int
        BY <2>2
      <4> QED BY <2>1, <2>2, <4>1, <4>2
    <3> QED BY <2>0, <2>2, <3>1
  <2>3. CASE ~(m + 1 \in B /\ v[m + 1] < v[i])
    <3>1. ASSUME NEW j \in B, j <= m + 1 PROVE v[i] <= v[j]
      <4>1. j = m + 1 \/ j <= m
        BY <1>0, <2>0, <3>1
      <4>2. v[j] \in Int /\ v[i] \in Int
        OBVIOUS
      <4> QED BY <2>1, <2>3, <4>1, <4>2
    <3> QED BY <2>0, <3>1
  <2> QED BY <2>2, <2>3
<1>3. n \in T
  <2>1. T \in SUBSET Nat
    OBVIOUS
  <2> HIDE DEF T
  <2> QED BY <1>1, <1>2, <2>1, NatSet
<1>4. PICK h \in B : \A j \in B : v[h] <= v[j]
  BY <1>0, <1>3
<1> DEFINE U == {i \in B : v[i] = v[h]}
<1>5. PICK i \in U : \A j \in U : i <= j
  <2>1. U \in SUBSET Nat /\ U # {}
    BY <1>0, <1>4
  <2> HIDE DEF U
  <2> QED BY <2>1, LeastNat
<1>6. ASSUME NEW j \in B PROVE v[i] < v[j] \/ (v[i] = v[j] /\ i <= j)
  <2>1. v[i] = v[h] /\ v[h] <= v[j] /\ v[h] \in Int /\ v[j] \in Int
    BY <1>4, <1>5
  <2>2. v[j] = v[h] => i <= j
    BY <1>5
  <2> QED BY <2>1, <2>2
<1> QED BY <1>5, <1>6

-----------------------------------------------------------------------------
(* What is left of a history                                               *)

Samples == [ts : Nat, val : Int \cup {None}, state : SampleStates]

Ordered(ss) == \A i, j \in 1 .. Len(ss) : i <= j => ss[i].ts <= ss[j].ts

\* `at` gives the place in b of every sample of a; a sample of b that is not in
\* a is drawn, and in the bucket of the sample of a before it.
Thins(a, b, at) ==
  /\ at \in [1 .. Len(a) -> 1 .. Len(b)]
  /\ \A i \in 1 .. Len(a) : a[i] = b[at[i]]
  /\ \A i, j \in 1 .. Len(a) : i < j => at[i] < at[j]
  /\ \A i \in 1 .. Len(a), m \in 1 .. Len(b) :
       at[i] < m /\ (i < Len(a) => m < at[i + 1]) =>
         Renderable(b[m]) /\ SameBucket(b[m], a[i])

Thinned(a, b) == \E at : Thins(a, b, at)

\* To be of one bucket and class is transitive.
LEMMA SameBucketTransitive ==
  ASSUME NEW r, NEW s, NEW t, SameBucket(r, s), SameBucket(s, t)
  PROVE  SameBucket(r, t)
  BY DEF SameBucket

\* What is thinned twice is thinned.
LEMMA ThinnedTransitive ==
  ASSUME NEW a \in Seq(Samples), NEW b \in Seq(Samples), NEW c \in Seq(Samples),
         Thinned(a, b), Thinned(b, c)
  PROVE  Thinned(a, c)
<1>0. Len(a) \in Nat /\ Len(b) \in Nat /\ Len(c) \in Nat
  OBVIOUS
<1>1. PICK f : Thins(a, b, f)
  BY DEF Thinned
<1>2. PICK g : Thins(b, c, g)
  BY DEF Thinned
<1> DEFINE at == [i \in 1 .. Len(a) |-> g[f[i]]]
<1>3. /\ \A i \in 1 .. Len(a) : f[i] \in 1 .. Len(b) /\ a[i] = b[f[i]]
      /\ \A i, j \in 1 .. Len(a) : i < j => f[i] < f[j]
  BY <1>1 DEF Thins
<1>4. /\ \A i \in 1 .. Len(b) : g[i] \in 1 .. Len(c) /\ b[i] = c[g[i]]
      /\ \A i, j \in 1 .. Len(b) : i < j => g[i] < g[j]
  BY <1>2 DEF Thins
<1>5. \A i \in 1 .. Len(a) : at[i] = g[f[i]] /\ at[i] \in 1 .. Len(c) /\ a[i] = c[at[i]]
  BY <1>3, <1>4
<1>6. \A i, j \in 1 .. Len(a) : i < j => at[i] < at[j]
  BY <1>3, <1>4
<1>7. ASSUME NEW i \in 1 .. Len(a), NEW m \in 1 .. Len(c),
             at[i] < m, i < Len(a) => m < at[i + 1]
      PROVE  Renderable(c[m]) /\ SameBucket(c[m], a[i])
  <2> DEFINE p == f[i]
  <2>1. p \in 1 .. Len(b) /\ g[p] <= m /\ b[p] = a[i] /\ g[p] < m /\ m \in Nat
    BY <1>0, <1>3, <1>4, <1>5, <1>7
  <2>2. PICK r \in p .. Len(b) : g[r] <= m /\ (r < Len(b) => m < g[r + 1])
    <3>1. \A k \in 1 .. Len(b) : g[k] \in Nat
      BY <1>4
    <3>2. \A k, l \in 1 .. Len(b) : k < l => g[k] < g[l]
      BY <1>4
    <3> HIDE DEF p
    <3> QED BY <1>0, <2>1, <3>1, <3>2, Straddle
  <2>3. r \in 1 .. Len(b)
    BY <2>1, <2>2
  <2>4. r = p \/ (Renderable(b[r]) /\ SameBucket(b[r], a[i]))
    <3>1. SUFFICES ASSUME r # p PROVE Renderable(b[r]) /\ SameBucket(b[r], a[i])
      OBVIOUS
    <3>2. p < r
      BY <2>1, <2>2, <3>1
    <3>3. i < Len(a) => r < f[i + 1]
      <4> SUFFICES ASSUME i < Len(a), ~(r < f[i + 1]) PROVE FALSE
        OBVIOUS
      <4>1. i + 1 \in 1 .. Len(a) /\ f[i + 1] \in 1 .. Len(b) /\ at[i + 1] = g[f[i + 1]]
        BY <1>0, <1>3, <1>5
      <4>2. g[f[i + 1]] <= g[r]
        <5>1. f[i + 1] = r \/ f[i + 1] < r
          BY <2>3, <4>1
        <5>2. g[r] \in Nat /\ g[f[i + 1]] \in Nat
          BY <1>4, <2>3, <4>1
        <5>3. CASE f[i + 1] < r
          <6>1. g[f[i + 1]] < g[r]
            BY <1>4, <2>3, <4>1, <5>3
          <6> QED BY <5>2, <6>1
        <5> QED BY <5>1, <5>2, <5>3
      <4>3. m < g[f[i + 1]] /\ g[r] <= m /\ g[r] \in Nat /\ g[f[i + 1]] \in Nat
        BY <1>4, <1>7, <2>2, <2>3, <4>1
      <4> QED BY <4>2, <4>3
    <3>4. \A l \in 1 .. Len(b) :
            f[i] < l /\ (i < Len(a) => l < f[i + 1]) => Renderable(b[l]) /\ SameBucket(b[l], a[i])
      BY <1>1 DEF Thins
    <3> QED BY <2>3, <3>2, <3>3, <3>4
  <2>5. CASE g[r] = m
    <3>1. r # p /\ c[m] = b[r]
      BY <1>4, <2>1, <2>3, <2>5
    <3> QED BY <2>4, <3>1
  <2>6. CASE g[r] # m
    <3>1. g[r] < m
      BY <1>4, <2>2, <2>3, <2>6
    <3>2. Renderable(c[m]) /\ SameBucket(c[m], b[r])
      BY <1>2, <2>2, <2>3, <3>1 DEF Thins
    <3> QED BY <2>1, <2>4, <3>2, SameBucketTransitive
  <2> QED BY <2>5, <2>6
<1>8. at \in [1 .. Len(a) -> 1 .. Len(c)]
  BY <1>5
<1> HIDE DEF at
<1>9. Thins(a, c, at)
  BY <1>5, <1>6, <1>7, <1>8 DEF Thins
<1> QED BY <1>9 DEF Thinned

\* A sample more on both sides.
LEMMA ThinnedAppend ==
  ASSUME NEW a \in Seq(Samples), NEW b \in Seq(Samples), NEW x \in Samples, Thinned(a, b)
  PROVE  Thinned(Append(a, x), Append(b, x))
<1>0. Len(a) \in Nat /\ Len(b) \in Nat
  OBVIOUS
<1>1. PICK f : Thins(a, b, f)
  BY DEF Thinned
<1> DEFINE a1 == Append(a, x)
           b1 == Append(b, x)
           at == [i \in 1 .. Len(a) + 1 |-> IF i <= Len(a) THEN f[i] ELSE Len(b) + 1]
<1>2. /\ Len(a1) = Len(a) + 1 /\ Len(b1) = Len(b) + 1
      /\ \A i \in 1 .. Len(a) : a1[i] = a[i]
      /\ \A i \in 1 .. Len(b) : b1[i] = b[i]
      /\ a1[Len(a) + 1] = x /\ b1[Len(b) + 1] = x
  OBVIOUS
<1>3. /\ \A i \in 1 .. Len(a) : at[i] = f[i] /\ f[i] \in 1 .. Len(b) /\ a[i] = b[f[i]]
      /\ at[Len(a) + 1] = Len(b) + 1
      /\ \A i, j \in 1 .. Len(a) : i < j => f[i] < f[j]
  BY <1>0, <1>1 DEF Thins
<1>4. at \in [1 .. Len(a1) -> 1 .. Len(b1)]
  <2> HIDE DEF a1, b1
  <2>1. ASSUME NEW i \in 1 .. Len(a) + 1
        PROVE  (IF i <= Len(a) THEN f[i] ELSE Len(b) + 1) \in 1 .. Len(b1)
    <3>1. CASE i <= Len(a)
      <4>1. i \in 1 .. Len(a)
        BY <1>0, <3>1
      <4>2. f[i] \in 1 .. Len(b)
        BY <1>3, <4>1
      <4> QED BY <1>0, <1>2, <3>1, <4>2
    <3>2. CASE ~(i <= Len(a))
      BY <1>0, <1>2, <3>2
    <3> QED BY <3>1, <3>2
  <2> QED BY <1>2, <2>1
<1> HIDE DEF at, a1, b1
<1>5. \A i \in 1 .. Len(a1) : a1[i] = b1[at[i]]
  <2> SUFFICES ASSUME NEW i \in 1 .. Len(a1) PROVE a1[i] = b1[at[i]]
    OBVIOUS
  <2>1. CASE i \in 1 .. Len(a)
    <3>1. at[i] = f[i] /\ f[i] \in 1 .. Len(b) /\ a[i] = b[f[i]] /\ a1[i] = a[i]
      BY <1>2, <1>3, <2>1
    <3> QED BY <1>2, <3>1
  <2>2. CASE i = Len(a) + 1
    BY <1>2, <1>3, <2>2
  <2>3. i \in 1 .. Len(a) \/ i = Len(a) + 1
    BY <1>0, <1>2
  <2> QED BY <2>1, <2>2, <2>3
<1>6. \A i, j \in 1 .. Len(a1) : i < j => at[i] < at[j]
  <2> SUFFICES ASSUME NEW i \in 1 .. Len(a1), NEW j \in 1 .. Len(a1), i < j PROVE at[i] < at[j]
    OBVIOUS
  <2>1. i \in 1 .. Len(a) /\ at[i] = f[i]
    BY <1>0, <1>2, <1>3
  <2>2. CASE j \in 1 .. Len(a)
    BY <1>3, <2>1, <2>2
  <2>3. CASE j = Len(a) + 1
    BY <1>0, <1>3, <2>1, <2>3
  <2>4. j \in 1 .. Len(a) \/ j = Len(a) + 1
    BY <1>0, <1>2
  <2> QED BY <2>2, <2>3, <2>4
<1>7. ASSUME NEW i \in 1 .. Len(a1), NEW m \in 1 .. Len(b1),
             at[i] < m, i < Len(a1) => m < at[i + 1]
      PROVE  Renderable(b1[m]) /\ SameBucket(b1[m], a1[i])
  <2>1. i \in 1 .. Len(a) /\ f[i] < m
    BY <1>0, <1>2, <1>3, <1>7
  <2>2. m \in 1 .. Len(b) /\ (i < Len(a) => m < f[i + 1])
    <3>1. CASE i = Len(a)
      BY <1>0, <1>2, <1>3, <1>7, <3>1
    <3>2. CASE i < Len(a)
      <4>1. i + 1 \in 1 .. Len(a)
        BY <1>0, <2>1, <3>2
      <4>2. at[i + 1] = f[i + 1] /\ f[i + 1] \in 1 .. Len(b)
        BY <1>3, <4>1
      <4>3. m < f[i + 1]
        BY <1>0, <1>2, <1>7, <2>1, <4>2
      <4> QED BY <1>0, <4>2, <4>3
    <3> QED BY <1>0, <2>1, <3>1, <3>2
  <2>3. Renderable(b[m]) /\ SameBucket(b[m], a[i])
    BY <1>1, <2>1, <2>2 DEF Thins
  <2> QED BY <1>2, <2>1, <2>2, <2>3
<1>8. Thins(a1, b1, at)
  BY <1>4, <1>5, <1>6, <1>7 DEF Thins
<1> QED BY <1>8 DEF Thinned, a1, b1

\* The end of a sequence.
LEMMA ThinnedSuffix ==
  ASSUME NEW b \in Seq(Samples), NEW d \in 0 .. Len(b)
  PROVE  /\ SubSeq(b, d + 1, Len(b)) \in Seq(Samples)
         /\ Thinned(SubSeq(b, d + 1, Len(b)), b)
<1>0. Len(b) \in Nat /\ d \in Nat /\ d <= Len(b)
  OBVIOUS
<1> DEFINE a == SubSeq(b, d + 1, Len(b))
           at == [i \in 1 .. Len(b) - d |-> i + d]
<1>1. a \in Seq(Samples) /\ Len(a) = Len(b) - d /\ \A i \in 1 .. Len(b) - d : a[i] = b[i + d]
  BY <1>0
<1> HIDE DEF a
<1>2. Thins(a, b, at)
  BY <1>0, <1>1 DEF Thins
<1> QED BY <1>1, <1>2 DEF Thinned, a

-----------------------------------------------------------------------------
(* Compaction                                                              *)

\* The bucket of a sample has the sample, and whatever lies between two of its
\* samples.
LEMMA BucketMembers ==
  ASSUME NEW ss \in Seq(Samples), NEW cutoff, NEW i \in 1 .. Len(ss),
         Compactable(ss[i], cutoff)
  PROVE  /\ i \in Bucket(ss, cutoff, i)
         /\ \A j \in Bucket(ss, cutoff, i) :
              /\ j \in 1 .. Len(ss) /\ Compactable(ss[j], cutoff) /\ SameBucket(ss[j], ss[i])
              /\ \A k \in 1 .. Len(ss) :
                   (i <= k /\ k <= j) \/ (j <= k /\ k <= i) => k \in Bucket(ss, cutoff, i)
<1>0. DOMAIN ss = 1 .. Len(ss) /\ Len(ss) \in Nat
  OBVIOUS
<1>1. i \in Bucket(ss, cutoff, i)
  <2>1. ASSUME NEW k \in DOMAIN ss, (i <= k /\ k <= i) \/ (i <= k /\ k <= i)
        PROVE  Compactable(ss[k], cutoff) /\ SameBucket(ss[k], ss[i])
    <3>1. k = i
      BY <1>0, <2>1
    <3> QED BY <3>1 DEF SameBucket
  <2> QED BY <1>0, <2>1 DEF Bucket
<1>2. ASSUME NEW j \in Bucket(ss, cutoff, i)
      PROVE  /\ j \in 1 .. Len(ss) /\ Compactable(ss[j], cutoff) /\ SameBucket(ss[j], ss[i])
             /\ \A k \in 1 .. Len(ss) :
                  (i <= k /\ k <= j) \/ (j <= k /\ k <= i) => k \in Bucket(ss, cutoff, i)
  <2>1. /\ j \in 1 .. Len(ss)
        /\ \A k \in 1 .. Len(ss) : (i <= k /\ k <= j) \/ (j <= k /\ k <= i) =>
             Compactable(ss[k], cutoff) /\ SameBucket(ss[k], ss[i])
    BY <1>0 DEF Bucket
  <2>2. (i <= j /\ j <= j) \/ (j <= j /\ j <= i)
    BY <1>0, <2>1
  <2>3. ASSUME NEW k \in 1 .. Len(ss), (i <= k /\ k <= j) \/ (j <= k /\ k <= i)
        PROVE  k \in Bucket(ss, cutoff, i)
    <3>1. ASSUME NEW l \in 1 .. Len(ss), (i <= l /\ l <= k) \/ (k <= l /\ l <= i)
          PROVE  (i <= l /\ l <= j) \/ (j <= l /\ l <= i)
      BY <1>0, <2>1, <2>3, <3>1
    <3> QED BY <1>0, <2>1, <3>1 DEF Bucket
  <2> QED BY <2>1, <2>2, <2>3
<1> QED BY <1>1, <1>2

\* The bucket of a sample is the bucket of every sample in it.
LEMMA BucketShared ==
  ASSUME NEW ss \in Seq(Samples), NEW cutoff, NEW i \in 1 .. Len(ss),
         Compactable(ss[i], cutoff), NEW j \in Bucket(ss, cutoff, i)
  PROVE  Bucket(ss, cutoff, j) = Bucket(ss, cutoff, i)
<1>0. DOMAIN ss = 1 .. Len(ss) /\ Len(ss) \in Nat
  OBVIOUS
<1> DEFINE Alike(k, l) == \A m \in 1 .. Len(ss) : (k <= m /\ m <= l) \/ (l <= m /\ m <= k) =>
                            Compactable(ss[m], cutoff) /\ SameBucket(ss[m], ss[k])
<1>1. \A k : Bucket(ss, cutoff, k) = {l \in 1 .. Len(ss) : Alike(k, l)}
  BY <1>0 DEF Bucket
<1>2. j \in 1 .. Len(ss) /\ Compactable(ss[j], cutoff) /\ SameBucket(ss[j], ss[i])
  BY BucketMembers
<1>3. Alike(i, j)
  BY <1>1
<1>4. SameBucket(ss[i], ss[j])
  BY <1>2 DEF SameBucket
<1>5. Alike(j, i)
  BY <1>3, <1>4, SameBucketTransitive
<1> HIDE DEF Alike
<1>6. ASSUME NEW p \in 1 .. Len(ss), NEW q \in 1 .. Len(ss), NEW k \in 1 .. Len(ss),
             Alike(p, q), Alike(q, p), Alike(p, k)
      PROVE  Alike(q, k)
  <2> SUFFICES ASSUME NEW m \in 1 .. Len(ss), (q <= m /\ m <= k) \/ (k <= m /\ m <= q)
               PROVE  Compactable(ss[m], cutoff) /\ SameBucket(ss[m], ss[q])
    BY DEF Alike
  <2>1. \/ (p <= m /\ m <= q) \/ (q <= m /\ m <= p)
        \/ (p <= m /\ m <= k) \/ (k <= m /\ m <= p)
    BY <1>0
  <2>2. Compactable(ss[m], cutoff) /\ SameBucket(ss[m], ss[p])
    BY <1>6, <2>1 DEF Alike
  <2>3. SameBucket(ss[p], ss[q])
    BY <1>0, <1>6 DEF Alike
  <2> QED BY <2>2, <2>3, SameBucketTransitive
<1>7. \A k \in 1 .. Len(ss) : Alike(i, k) <=> Alike(j, k)
  BY <1>2, <1>3, <1>5, <1>6
<1> QED BY <1>1, <1>7

\* A role is one of four, or five for none.
LEMMA RoleRange ==
  ASSUME NEW ss, NEW bucket, NEW i
  PROVE  Role(ss, bucket, i) \in 1 .. 5
  BY DEF Role

\* In the bucket of a sample, one that bears a role is kept, or another one of
\* its timestamp with an earlier role is.
LEMMA RoleKept ==
  ASSUME NEW ss \in Seq(Samples), NEW cutoff, NEW i \in 1 .. Len(ss),
         Compactable(ss[i], cutoff), Role(ss, Bucket(ss, cutoff, i), i) < 5
  PROVE  \E j \in Bucket(ss, cutoff, i) :
           /\ Kept(ss, cutoff, j) /\ ss[j].ts = ss[i].ts
           /\ Role(ss, Bucket(ss, cutoff, i), j) <= Role(ss, Bucket(ss, cutoff, i), i)
<1> DEFINE B == Bucket(ss, cutoff, i)
           role(j) == Role(ss, B, j)
           twins == {j \in B : ss[j].ts = ss[i].ts}
           T == {role(j) : j \in twins}
<1>1. i \in B /\ i \in twins
  BY BucketMembers
<1>2. \A j : role(j) \in 1 .. 5
  BY RoleRange
<1> HIDE DEF role
<1>3. PICK x \in T : \A y \in T : x <= y
  <2>1. T \in SUBSET Nat /\ T # {}
    BY <1>1, <1>2
  <2> HIDE DEF T
  <2> QED BY <2>1, LeastNat
<1>4. PICK j \in twins : x = role(j)
  OBVIOUS
<1>5. \A k \in twins : role(j) <= role(k)
  BY <1>3, <1>4
<1>6. role(j) <= role(i) /\ role(j) < 5
  <2>1. role(j) <= role(i) /\ role(i) < 5 /\ role(i) \in Int /\ role(j) \in Int
    BY <1>1, <1>2, <1>5 DEF role
  <2> QED BY <2>1
<1>7. Bucket(ss, cutoff, j) = B /\ j \in 1 .. Len(ss) /\ Compactable(ss[j], cutoff)
  BY <1>4, BucketMembers, BucketShared
<1>8. Kept(ss, cutoff, j)
  <2>1. \A k \in B : ss[k].ts = ss[j].ts => role(j) <= role(k)
    BY <1>4, <1>5
  <2> QED BY <1>6, <1>7, <2>1 DEF Kept, role
<1> QED BY <1>4, <1>6, <1>8 DEF role

\* The first of a bucket stays.
LEMMA FirstKept ==
  ASSUME NEW ss \in Seq(Samples), NEW cutoff, NEW i \in 1 .. Len(ss),
         Compactable(ss[i], cutoff)
  PROVE  \E j \in Bucket(ss, cutoff, i) : Kept(ss, cutoff, j) /\ j <= i
<1> DEFINE B == Bucket(ss, cutoff, i)
<1>1. i \in B /\ \A k \in B : k \in 1 .. Len(ss)
  BY BucketMembers
<1>2. PICK j \in B : \A k \in B : j <= k
  <2>1. B \in SUBSET Nat /\ B # {}
    BY <1>1
  <2> HIDE DEF B
  <2> QED BY <2>1, LeastNat
<1>3. Bucket(ss, cutoff, j) = B /\ j \in 1 .. Len(ss) /\ Compactable(ss[j], cutoff)
  BY BucketMembers, BucketShared
<1>4. Role(ss, B, j) = 1
  BY <1>2 DEF Role, IsFirst
<1>5. \A k \in B : Role(ss, B, j) <= Role(ss, B, k)
  BY <1>4, RoleRange
<1>6. Kept(ss, cutoff, j)
  BY <1>3, <1>4, <1>5 DEF Kept
<1> QED BY <1>1, <1>2, <1>6

\* What compaction selects is thinned.
KeptOf(ss, cutoff) == {i \in DOMAIN ss : Kept(ss, cutoff, i)}

\* What compaction selects is what is left of the sequence, and these are the
\* positions it keeps.
LEMMA SelectedThinned ==
  ASSUME NEW ss \in Seq(Samples), NEW cutoff
  PROVE  /\ Selected(ss, KeptOf(ss, cutoff)) \in Seq(Samples)
         /\ Thinned(Selected(ss, KeptOf(ss, cutoff)), ss)
         /\ \E at : /\ Picks(at, Len(Selected(ss, KeptOf(ss, cutoff))), KeptOf(ss, cutoff))
                    /\ \A i \in 1 .. Len(Selected(ss, KeptOf(ss, cutoff))) :
                         Selected(ss, KeptOf(ss, cutoff))[i] = ss[at[i]]
<1> DEFINE keep == KeptOf(ss, cutoff)
           a == Selected(ss, keep)
<1>0. Len(ss) \in Nat /\ keep \in SUBSET (1 .. Len(ss))
  BY DEF KeptOf
<1>c. PICK c \in Nat : \E at : Picks(at, c, keep) /\ a = Picked(ss, at, c)
  <2> HIDE DEF keep
  <2> QED BY <1>0, SelectedPicks
<1>1. PICK at : Picks(at, c, keep) /\ a = Picked(ss, at, c)
  BY <1>c
<1>2. \A i \in 1 .. c : at[i] \in keep /\ at[i] \in 1 .. Len(ss) /\ ss[at[i]] \in Samples
  BY <1>0, <1>1 DEF Picks
<1>3. a \in Seq(Samples) /\ Len(a) = c /\ \A i \in 1 .. c : a[i] = ss[at[i]]
  <2>1. a \in [1 .. c -> Samples]
    BY <1>1, <1>2 DEF Picked
  <2> QED BY <1>1, <2>1 DEF Picked
<1> HIDE DEF a
<1>4. ASSUME NEW i \in 1 .. c, NEW m \in 1 .. Len(ss), at[i] < m, i < c => m < at[i + 1]
      PROVE  Renderable(ss[m]) /\ SameBucket(ss[m], ss[at[i]])
  <2>1. m \notin keep
    <3> SUFFICES ASSUME m \in keep PROVE FALSE
      OBVIOUS
    <3>1. PICK r \in 1 .. c : at[r] = m
      BY <1>1 DEF Picks
    <3>2. i < r
      <4> SUFFICES ASSUME ~(i < r) PROVE FALSE
        OBVIOUS
      <4>1. r = i \/ r < i
        OBVIOUS
      <4>2. at[r] = at[i] \/ at[r] < at[i]
        BY <1>1, <4>1 DEF Picks
      <4> QED BY <1>0, <1>2, <1>4, <3>1, <4>2
    <3>3. i + 1 \in 1 .. c /\ i < c /\ (i + 1 = r \/ i + 1 < r)
      BY <3>2
    <3>4. at[i + 1] = m \/ at[i + 1] < m
      BY <1>1, <3>1, <3>3 DEF Picks
    <3>5. m < at[i + 1] /\ at[i + 1] \in Nat /\ m \in Nat
      BY <1>0, <1>2, <1>4, <3>3
    <3> QED BY <3>4, <3>5
  <2>2. Compactable(ss[m], cutoff)
    BY <1>0, <2>1 DEF KeptOf, Kept
  <2>3. PICK j \in Bucket(ss, cutoff, m) : Kept(ss, cutoff, j) /\ j <= m
    BY <2>2, FirstKept
  <2>4. j \in keep /\ j \in 1 .. Len(ss)
    BY <2>2, <2>3, BucketMembers DEF KeptOf
  <2>5. PICK r \in 1 .. c : at[r] = j
    BY <1>1, <2>4 DEF Picks
  <2>6. j # m
    BY <2>1, <2>4
  <2>7. j <= at[i]
    <3> SUFFICES ASSUME ~(j <= at[i]) PROVE FALSE
      OBVIOUS
    <3>1. at[i] \in Nat /\ j \in Nat /\ at[i] < j
      BY <1>0, <1>2, <2>4
    <3>2. i < r
      <4> SUFFICES ASSUME ~(i < r) PROVE FALSE
        OBVIOUS
      <4>1. r = i \/ r < i
        OBVIOUS
      <4>2. at[r] = at[i] \/ at[r] < at[i]
        BY <1>1, <4>1 DEF Picks
      <4> QED BY <2>5, <3>1, <4>2
    <3>3. i + 1 \in 1 .. c /\ i < c /\ (i + 1 = r \/ i + 1 < r)
      BY <3>2
    <3>4. at[i + 1] = j \/ at[i + 1] < j
      BY <1>1, <2>5, <3>3 DEF Picks
    <3>5. m < at[i + 1] /\ at[i + 1] \in Nat /\ m \in Nat /\ j <= m
      BY <1>0, <1>2, <1>4, <2>3, <3>3
    <3> QED BY <3>1, <3>4, <3>5
  <2>8. at[i] \in Bucket(ss, cutoff, m)
    BY <1>0, <1>2, <1>4, <2>2, <2>3, <2>7, BucketMembers
  <2>9. SameBucket(ss[at[i]], ss[m])
    BY <2>2, <2>8, BucketMembers
  <2> QED BY <2>2, <2>9 DEF Compactable, SameBucket
<1>5. Thins(a, ss, at)
  BY <1>0, <1>1, <1>2, <1>3, <1>4 DEF Thins, Picks
<1>6. Thinned(a, ss)
  BY <1>5 DEF Thinned
<1> QED BY <1>1, <1>3, <1>6 DEF a

\* The extrema of a bucket are kept, unless two of its samples share a timestamp.
LEMMA ExtremesKept ==
  ASSUME NEW ss \in Seq(Samples), NEW cutoff, NEW i \in 1 .. Len(ss),
         Compactable(ss[i], cutoff),
         \A j, k \in Bucket(ss, cutoff, i) : ss[j].ts = ss[k].ts => j = k
  PROVE  \E l, u \in Bucket(ss, cutoff, i) :
           /\ Kept(ss, cutoff, l) /\ ss[l].val <= ss[i].val
           /\ Kept(ss, cutoff, u) /\ ss[i].val <= ss[u].val
<1> DEFINE B == Bucket(ss, cutoff, i)
           v == [j \in B |-> ss[j].val]
           w == [j \in B |-> -ss[j].val]
<1>0. Len(ss) \in Nat /\ i \in B
  BY BucketMembers
<1>1. \A j \in B : j \in 1 .. Len(ss) /\ Compactable(ss[j], cutoff) /\ ss[j].val \in Int
  <2>1. \A j \in B : j \in 1 .. Len(ss) /\ Compactable(ss[j], cutoff)
    BY BucketMembers
  <2>2. ASSUME NEW j \in B PROVE ss[j].val \in Int
    <3>1. ss[j] \in Samples /\ ss[j].val # None
      BY <2>1 DEF Compactable, Renderable
    <3> QED BY <3>1 DEF Samples
  <2> QED BY <2>1, <2>2
<1>2. B \in SUBSET (1 .. Len(ss)) /\ B # {}
  <2>1. \A j \in B : j \in 1 .. Len(ss)
    BY <1>1
  <2>2. B # {}
    BY <1>0
  <2> QED BY <2>1, <2>2, Zenon
<1>3. ASSUME NEW j \in B, Role(ss, B, j) < 5
      PROVE  Kept(ss, cutoff, j)
  <2>1. Bucket(ss, cutoff, j) = B /\ j \in 1 .. Len(ss) /\ Compactable(ss[j], cutoff)
    BY <1>1, BucketShared
  <2>2. PICK k \in B : Kept(ss, cutoff, k) /\ ss[k].ts = ss[j].ts
    BY <1>3, <2>1, RoleKept
  <2> QED BY <2>2
<1> HIDE DEF B
<1>4. PICK l \in B : \A j \in B : v[l] < v[j] \/ (v[l] = v[j] /\ l <= j)
  <2>1. \A j \in B : v[j] \in Int
    BY <1>1
  <2> HIDE DEF v
  <2> QED BY <1>0, <1>2, <2>1, FirstLeast
<1>5. PICK u \in B : \A j \in B : w[u] < w[j] \/ (w[u] = w[j] /\ u <= j)
  <2>1. \A j \in B : w[j] \in Int
    BY <1>1
  <2> HIDE DEF w
  <2> QED BY <1>0, <1>2, <2>1, FirstLeast
<1>6. Kept(ss, cutoff, l) /\ ss[l].val <= ss[i].val
  <2>1. IsMinimum(ss, B, l)
    BY <1>4 DEF IsMinimum
  <2>2. Role(ss, B, l) < 5
    BY <2>1 DEF Role
  <2>3. ss[l].val < ss[i].val \/ ss[l].val = ss[i].val
    BY <1>0, <1>4
  <2>4. ss[l].val \in Int /\ ss[i].val \in Int
    BY <1>0, <1>1
  <2> QED BY <1>3, <2>2, <2>3, <2>4
<1>7. Kept(ss, cutoff, u) /\ ss[i].val <= ss[u].val
  <2>1. \A j \in B : ss[u].val > ss[j].val \/ (ss[u].val = ss[j].val /\ u <= j)
    <3> SUFFICES ASSUME NEW j \in B
                 PROVE  ss[u].val > ss[j].val \/ (ss[u].val = ss[j].val /\ u <= j)
      OBVIOUS
    <3>1. w[u] = -ss[u].val /\ w[j] = -ss[j].val /\ ss[u].val \in Int /\ ss[j].val \in Int
      BY <1>1
    <3>2. w[u] < w[j] \/ (w[u] = w[j] /\ u <= j)
      BY <1>5
    <3> HIDE DEF w
    <3> QED BY <3>1, <3>2
  <2>2. Role(ss, B, u) < 5
    BY <2>1 DEF Role, IsMaximum
  <2>3. ss[u].val \in Int /\ ss[i].val \in Int /\ (ss[u].val > ss[i].val \/ ss[u].val = ss[i].val)
    BY <1>0, <1>1, <2>1
  <2> QED BY <1>3, <2>2, <2>3
<1> QED BY <1>6, <1>7 DEF B

-----------------------------------------------------------------------------
(* What a series stands for                                                *)

\* The start of a bucket is not after what is in it.
LEMMA DivBelow ==
  ASSUME NEW x \in Nat, NEW w \in Nat \ {0}
  PROVE  (x \div w) \in Nat /\ (x \div w) * w \in Nat /\ (x \div w) * w <= x
<1>1. (x \div w) \in Nat
  OBVIOUS
<1>2. w * (x \div w) <= x
  OBVIOUS
<1> QED BY <1>1, <1>2

Bounds(a, f) == f # <<>> => a # <<>> /\ \A i \in 1 .. Len(f) : f[i].ts <= a[Len(a)].ts

Distinct(f, r) ==
  \A m, n \in 1 .. Len(f) : f[m].ts = f[n].ts /\ SameBucket(f[m], r) => m = n

StartOf(r) == (r.ts \div BucketWidth) * BucketWidth

Bounded(a, r) ==
  \E i, j \in 1 .. Len(a) :
     /\ Renderable(a[i]) /\ SameBucket(a[i], r) /\ a[i].val <= r.val
     /\ Renderable(a[j]) /\ SameBucket(a[j], r) /\ r.val <= a[j].val

Extremal(a, f) ==
  \A n \in 1 .. Len(f) :
     Renderable(f[n]) /\ Distinct(f, f[n]) /\ StartOf(f[n]) >= a[1].ts => Bounded(a, f[n])

\* a stands for the history f.
Digest(a, f) == Thinned(a, f) /\ Bounds(a, f) /\ Extremal(a, f)

\* What is left of a history is in its order.
LEMMA ThinnedOrdered ==
  ASSUME NEW a \in Seq(Samples), NEW b \in Seq(Samples), Thinned(a, b), Ordered(b)
  PROVE  Ordered(a)
<1>1. PICK at : Thins(a, b, at)
  BY DEF Thinned
<1>2. /\ \A i \in 1 .. Len(a) : at[i] \in 1 .. Len(b) /\ a[i] = b[at[i]]
      /\ \A i, j \in 1 .. Len(a) : i < j => at[i] < at[j]
  BY <1>1 DEF Thins
<1> SUFFICES ASSUME NEW i \in 1 .. Len(a), NEW j \in 1 .. Len(a), i <= j PROVE a[i].ts <= a[j].ts
  BY DEF Ordered
<1>3. at[i] <= at[j]
  <2>1. CASE i = j
    BY <1>2, <2>1
  <2>2. CASE i < j
    <3>1. at[i] < at[j] /\ at[i] \in Nat /\ at[j] \in Nat
      BY <1>2, <2>2
    <3> QED BY <3>1
  <2> QED BY <2>1, <2>2
<1> QED BY <1>2, <1>3 DEF Ordered

\* So a sample of a bucket is not before the start of the bucket.
LEMMA BucketStart ==
  ASSUME NEW s \in Samples, NEW r \in Samples, SameBucket(s, r)
  PROVE  StartOf(r) \in Nat /\ StartOf(r) <= s.ts
<1>1. s.ts \in Nat /\ r.ts \in Nat /\ BucketWidth \in Nat \ {0}
  BY PolicyAssumption DEF Samples
<1>2. StartOf(r) = (s.ts \div BucketWidth) * BucketWidth
  BY DEF StartOf, SameBucket
<1> QED BY <1>1, <1>2, DivBelow

\* A sample more on both sides.
LEMMA DigestAppend ==
  ASSUME NEW a \in Seq(Samples), NEW f \in Seq(Samples), NEW x \in Samples,
         Digest(a, f), Ordered(f), a = <<>> \/ x.ts >= a[Len(a)].ts
  PROVE  Ordered(Append(f, x)) /\ Digest(Append(a, x), Append(f, x))
<1> DEFINE a1 == Append(a, x)
           f1 == Append(f, x)
<1>0. /\ Len(a) \in Nat /\ Len(f) \in Nat
      /\ Len(a1) = Len(a) + 1 /\ Len(f1) = Len(f) + 1
      /\ \A i \in 1 .. Len(a) : a1[i] = a[i] /\ a[i] \in Samples
      /\ \A i \in 1 .. Len(f) : f1[i] = f[i] /\ f[i] \in Samples
      /\ a1[Len(a) + 1] = x /\ f1[Len(f) + 1] = x
      /\ a1 \in Seq(Samples) /\ f1 \in Seq(Samples) /\ a1 # <<>>
      /\ (a = <<>> <=> Len(a) = 0) /\ (f = <<>> <=> Len(f) = 0)
  <2>1. /\ Len(a) \in Nat /\ Len(f) \in Nat
        /\ (a = <<>> <=> Len(a) = 0) /\ (f = <<>> <=> Len(f) = 0)
    OBVIOUS
  <2>2. /\ Len(a1) = Len(a) + 1 /\ a1[Len(a) + 1] = x /\ a1 \in Seq(Samples) /\ a1 # <<>>
        /\ \A i \in 1 .. Len(a) : a1[i] = a[i] /\ a[i] \in Samples
    <3>1. a1 \in Seq(Samples) /\ Len(a1) = Len(a) + 1
      OBVIOUS
    <3>2. a1 # <<>>
      <4> HIDE DEF a1
      <4> QED BY <2>1, <3>1
    <3>3. a1[Len(a) + 1] = x /\ \A i \in 1 .. Len(a) : a1[i] = a[i]
      BY <2>1
    <3>4. \A i \in 1 .. Len(a) : a[i] \in Samples
      OBVIOUS
    <3> QED BY <3>1, <3>2, <3>3, <3>4
  <2>3. /\ Len(f1) = Len(f) + 1 /\ f1[Len(f) + 1] = x /\ f1 \in Seq(Samples)
        /\ \A i \in 1 .. Len(f) : f1[i] = f[i] /\ f[i] \in Samples
    <3>1. f1 \in Seq(Samples) /\ Len(f1) = Len(f) + 1
      OBVIOUS
    <3>2. f1[Len(f) + 1] = x /\ \A i \in 1 .. Len(f) : f1[i] = f[i]
      BY <2>1
    <3>3. \A i \in 1 .. Len(f) : f[i] \in Samples
      OBVIOUS
    <3> QED BY <3>1, <3>2, <3>3
  <2> QED BY <2>1, <2>2, <2>3
<1> HIDE DEF a1, f1
<1>1. \A i \in 1 .. Len(f) : f[i].ts <= x.ts
  <2> SUFFICES ASSUME NEW i \in 1 .. Len(f) PROVE f[i].ts <= x.ts
    OBVIOUS
  <2>1. Len(a) \in 1 .. Len(a) /\ a # <<>> /\ f[i].ts <= a[Len(a)].ts
    BY <1>0 DEF Digest, Bounds
  <2>2. a[Len(a)].ts <= x.ts
    BY <2>1
  <2>3. a[Len(a)].ts \in Nat /\ x.ts \in Nat /\ f[i].ts \in Nat
    BY <1>0, <2>1 DEF Samples
  <2> QED BY <2>1, <2>2, <2>3
<1>2. \A i \in 1 .. Len(f1) : i \in 1 .. Len(f) \/ i = Len(f) + 1
  BY <1>0
<1>3. x.ts \in Nat /\ x.ts <= x.ts
  BY DEF Samples
<1>4. Ordered(f1)
  <2> SUFFICES ASSUME NEW i \in 1 .. Len(f1), NEW j \in 1 .. Len(f1), i <= j
               PROVE  f1[i].ts <= f1[j].ts
    BY DEF Ordered
  <2>1. CASE j = Len(f) + 1
    BY <1>0, <1>1, <1>2, <1>3, <2>1
  <2>2. CASE j \in 1 .. Len(f)
    <3>1. i \in 1 .. Len(f)
      BY <1>0, <1>2, <2>2
    <3> QED BY <1>0, <2>2, <3>1 DEF Ordered
  <2> QED BY <1>2, <2>1, <2>2
<1>5. Thinned(a1, f1)
  BY ThinnedAppend DEF Digest, a1, f1
<1>6. Bounds(a1, f1)
  BY <1>0, <1>1, <1>2, <1>3 DEF Bounds
<1>7. Extremal(a1, f1)
  <2> SUFFICES ASSUME NEW n \in 1 .. Len(f1), Renderable(f1[n]), Distinct(f1, f1[n]),
                      StartOf(f1[n]) >= a1[1].ts
               PROVE  Bounded(a1, f1[n])
    BY DEF Extremal
  <2>1. CASE n = Len(f) + 1
    <3>1. f1[n] = x /\ a1[Len(a) + 1] = x /\ Len(a) + 1 \in 1 .. Len(a1)
      BY <1>0, <2>1
    <3>2. SameBucket(x, x) /\ x.val <= x.val
      <4>1. x.val \in Int
        BY <3>1 DEF Samples, Renderable
      <4> QED BY <4>1 DEF SameBucket
    <3> QED BY <3>1, <3>2 DEF Bounded
  <2>2. CASE n \in 1 .. Len(f)
    <3>1. f1[n] = f[n] /\ a # <<>> /\ a1[1] = a[1]
      <4>1. a # <<>>
        BY <1>0, <2>2 DEF Digest, Bounds
      <4> QED BY <1>0, <2>2, <4>1
    <3>2. Distinct(f, f[n])
      BY <1>0, <3>1 DEF Distinct
    <3>3. Bounded(a, f[n])
      BY <2>2, <3>1, <3>2 DEF Digest, Extremal
    <3>4. \A i \in 1 .. Len(a) : i \in 1 .. Len(a1) /\ a1[i] = a[i]
      BY <1>0
    <3> QED BY <3>1, <3>3, <3>4 DEF Bounded
  <2> QED BY <1>2, <2>1, <2>2
<1> QED BY <1>4, <1>5, <1>6, <1>7 DEF Digest, a1, f1

\* The end of a digest.
LEMMA DigestSuffix ==
  ASSUME NEW a \in Seq(Samples), NEW f \in Seq(Samples), NEW d \in Nat,
         d < Len(a) \/ (d = 0 /\ a = <<>>), Digest(a, f), Ordered(f)
  PROVE  /\ SubSeq(a, d + 1, Len(a)) \in Seq(Samples)
         /\ Digest(SubSeq(a, d + 1, Len(a)), f)
<1> DEFINE b == SubSeq(a, d + 1, Len(a))
<1>0. /\ Len(a) \in Nat /\ d \in 0 .. Len(a) /\ Len(f) \in Nat
      /\ (a = <<>> <=> Len(a) = 0) /\ (f = <<>> <=> Len(f) = 0)
      /\ \A i \in 1 .. Len(a) : a[i] \in Samples
      /\ \A i \in 1 .. Len(f) : f[i] \in Samples
  OBVIOUS
<1>1. b \in Seq(Samples) /\ Thinned(b, a)
  BY <1>0, ThinnedSuffix
<1>2. Len(b) = Len(a) - d /\ \A i \in 1 .. Len(a) - d : b[i] = a[i + d]
  BY <1>0
<1> HIDE DEF b
<1>3. Thinned(b, f)
  BY <1>1, ThinnedTransitive DEF Digest
<1>4. Bounds(b, f)
  <2> SUFFICES ASSUME f # <<>> PROVE b # <<>> /\ \A i \in 1 .. Len(f) : f[i].ts <= b[Len(b)].ts
    BY DEF Bounds
  <2>1. a # <<>> /\ \A i \in 1 .. Len(f) : f[i].ts <= a[Len(a)].ts
    BY DEF Digest, Bounds
  <2>2. Len(b) \in 1 .. Len(a) - d /\ b[Len(b)] = a[Len(a)]
    BY <1>0, <1>2, <2>1
  <2>3. b # <<>>
    BY <1>0, <1>1, <2>2
  <2> QED BY <2>1, <2>2, <2>3
<1>5. Ordered(a)
  BY ThinnedOrdered DEF Digest
<1>6. Extremal(b, f)
  <2> SUFFICES ASSUME NEW n \in 1 .. Len(f), Renderable(f[n]), Distinct(f, f[n]),
                      StartOf(f[n]) >= b[1].ts
               PROVE  Bounded(b, f[n])
    BY DEF Extremal
  <2> DEFINE r == f[n]
  <2>0. r \in Samples
    BY <1>0
  <2>1. Len(a) > 0 /\ d < Len(a) /\ d + 1 \in 1 .. Len(a) /\ b[1] = a[d + 1] /\ 1 \in 1 .. Len(a)
    <3>1. a # <<>>
      BY <1>0 DEF Digest, Bounds
    <3> QED BY <1>0, <1>2, <3>1
  <2>2. a[1].ts <= a[d + 1].ts /\ a[1].ts \in Nat /\ a[d + 1].ts \in Nat
    BY <1>0, <1>5, <2>1 DEF Ordered, Samples
  <2>3. StartOf(r) \in Nat
    BY <2>0, BucketStart DEF SameBucket
  <2>4. Bounded(a, r)
    <3>1. StartOf(r) >= a[1].ts
      BY <2>1, <2>2, <2>3
    <3> QED BY <3>1 DEF Digest, Extremal
  <2>5. ASSUME NEW i \in 1 .. Len(a), SameBucket(a[i], r)
        PROVE  \E j \in 1 .. Len(b) : b[j] = a[i]
    <3>1. i > d
      <4> SUFFICES ASSUME i <= d PROVE FALSE
        BY <1>0
      <4>1. StartOf(r) <= a[i].ts /\ a[i].ts \in Nat
        BY <1>0, <2>0, <2>5, BucketStart DEF Samples
      <4>2. a[i].ts <= a[d + 1].ts
        BY <1>0, <1>5, <2>1 DEF Ordered
      <4>3. a[i].ts = a[d + 1].ts
        BY <2>1, <2>2, <2>3, <4>1, <4>2
      <4>4. PICK at : Thins(a, f, at)
        BY DEF Digest, Thinned
      <4>5. /\ at[i] \in 1 .. Len(f) /\ a[i] = f[at[i]]
            /\ at[d + 1] \in 1 .. Len(f) /\ a[d + 1] = f[at[d + 1]]
            /\ at[i] < at[d + 1]
        BY <1>0, <2>1, <4>4 DEF Thins
      <4>6. at[i] = at[d + 1]
        BY <2>5, <4>3, <4>5 DEF Distinct
      <4> QED BY <1>0, <4>5, <4>6
    <3>2. i - d \in 1 .. Len(a) - d /\ b[i - d] = a[(i - d) + d] /\ (i - d) + d = i
      BY <1>0, <1>2, <3>1
    <3> QED BY <1>2, <3>2
  <2> HIDE DEF r
  <2>6. Bounded(b, r)
    BY <2>4, <2>5 DEF Bounded
  <2> QED BY <2>6 DEF r
<1> QED BY <1>1, <1>3, <1>4, <1>6 DEF Digest, b

\* What compaction selects of a digest.
LEMMA DigestSelected ==
  ASSUME NEW a \in Seq(Samples), NEW f \in Seq(Samples), NEW cutoff,
         Digest(a, f), Ordered(f)
  PROVE  Digest(Selected(a, KeptOf(a, cutoff)), f)
<1> DEFINE keep == KeptOf(a, cutoff)
           b == Selected(a, keep)
<1>0. /\ Len(a) \in Nat /\ Len(f) \in Nat
      /\ (a = <<>> <=> Len(a) = 0) /\ (f = <<>> <=> Len(f) = 0)
      /\ \A i \in 1 .. Len(a) : a[i] \in Samples
      /\ \A i \in 1 .. Len(f) : f[i] \in Samples
  OBVIOUS
<1>1. b \in Seq(Samples) /\ Thinned(b, a)
  BY SelectedThinned
<1>2. PICK at : Picks(at, Len(b), keep) /\ \A i \in 1 .. Len(b) : b[i] = a[at[i]]
  BY SelectedThinned
<1> HIDE DEF b
<1>3. Len(b) \in Nat /\ (b = <<>> <=> Len(b) = 0)
  BY <1>1
<1>4. /\ \A i \in 1 .. Len(a) : Kept(a, cutoff, i) => \E r \in 1 .. Len(b) : at[r] = i /\ b[r] = a[i]
      /\ \A r \in 1 .. Len(b) : at[r] \in 1 .. Len(a)
      /\ \A r, s \in 1 .. Len(b) : r < s => at[r] < at[s]
  <2>1. \A i \in 1 .. Len(a) : Kept(a, cutoff, i) => i \in keep
    BY DEF KeptOf
  <2>2. \A i \in keep : i \in 1 .. Len(a)
    BY DEF KeptOf
  <2> HIDE DEF keep
  <2>3. \A r \in 1 .. Len(b) : at[r] \in keep
    BY <1>2 DEF Picks
  <2>4. \A r, s \in 1 .. Len(b) : r < s => at[r] < at[s]
    BY <1>2 DEF Picks
  <2>5. \A i \in keep : \E r \in 1 .. Len(b) : at[r] = i
    BY <1>2 DEF Picks
  <2>6. \A r \in 1 .. Len(b) : b[r] = a[at[r]]
    BY <1>2
  <2>7. \A i \in keep : \E r \in 1 .. Len(b) : at[r] = i /\ b[r] = a[i]
    BY <2>5, <2>6
  <2> QED BY <2>1, <2>2, <2>3, <2>4, <2>7
<1>5. Thinned(b, f)
  BY <1>1, ThinnedTransitive DEF Digest
<1>6. Ordered(a)
  BY ThinnedOrdered DEF Digest
<1>7. Bounds(b, f)
  <2> SUFFICES ASSUME f # <<>> PROVE b # <<>> /\ \A i \in 1 .. Len(f) : f[i].ts <= b[Len(b)].ts
    BY DEF Bounds
  <2> DEFINE l == Len(a)
  <2>1. a # <<>> /\ l \in 1 .. Len(a) /\ \A i \in 1 .. Len(f) : f[i].ts <= a[l].ts
    BY <1>0 DEF Digest, Bounds
  <2>2. PICK j \in 1 .. Len(a) : Kept(a, cutoff, j) /\ a[j].ts = a[l].ts
    <3>1. CASE ~Compactable(a[l], cutoff)
      <4>1. Kept(a, cutoff, l)
        BY <3>1 DEF Kept
      <4> QED BY <2>1, <4>1
    <3>2. CASE Compactable(a[l], cutoff)
      <4>1. \A j \in Bucket(a, cutoff, l) : j \in 1 .. Len(a)
        BY <2>1, <3>2, BucketMembers
      <4>2. IsLast(Bucket(a, cutoff, l), l)
        BY <1>0, <4>1 DEF IsLast
      <4>3. Role(a, Bucket(a, cutoff, l), l) < 5
        BY <4>2 DEF Role
      <4> QED BY <2>1, <3>2, <4>1, <4>3, RoleKept
    <3> QED BY <3>1, <3>2
  <2>3. PICK r \in 1 .. Len(b) : at[r] = j
    BY <1>4, <2>2
  <2>4. Len(b) \in 1 .. Len(b) /\ b # <<>>
    BY <1>3, <2>3
  <2>5. at[r] <= at[Len(b)]
    <3>1. at[r] \in Nat /\ at[Len(b)] \in Nat
      BY <1>4, <2>3, <2>4
    <3>2. CASE r = Len(b)
      BY <3>1, <3>2
    <3>3. CASE r < Len(b)
      <4>1. at[r] < at[Len(b)]
        BY <1>4, <2>3, <2>4, <3>3
      <4> QED BY <3>1, <4>1
    <3> QED BY <1>3, <3>2, <3>3
  <2>6. a[j].ts <= b[Len(b)].ts
    BY <1>2, <1>4, <1>6, <2>2, <2>3, <2>4, <2>5 DEF Ordered
  <2>7. b[Len(b)].ts \in Nat /\ a[l].ts \in Nat
    <3>1. b[Len(b)] \in Samples /\ a[l] \in Samples
      BY <1>1, <1>0, <2>1, <2>4
    <3> QED BY <3>1 DEF Samples
  <2>8. ASSUME NEW i \in 1 .. Len(f) PROVE f[i].ts <= b[Len(b)].ts
    <3>1. f[i].ts \in Nat /\ f[i].ts <= a[l].ts /\ a[l].ts <= b[Len(b)].ts
      BY <1>0, <2>1, <2>2, <2>6 DEF Samples
    <3> QED BY <2>7, <3>1
  <2> QED BY <2>4, <2>8
<1>8. Extremal(b, f)
  <2> SUFFICES ASSUME NEW n \in 1 .. Len(f), Renderable(f[n]), Distinct(f, f[n]),
                      StartOf(f[n]) >= b[1].ts
               PROVE  Bounded(b, f[n])
    BY DEF Extremal
  <2> DEFINE r == f[n]
  <2>0. r \in Samples /\ r.val \in Int
    <3>1. r \in Samples
      BY <1>0
    <3> QED BY <3>1 DEF Samples, Renderable
  <2>1. 1 \in 1 .. Len(b) /\ 1 \in 1 .. Len(a)
    <3>1. b # <<>> /\ a # <<>>
      BY <1>0, <1>7 DEF Bounds, Digest
    <3> QED BY <1>0, <1>3, <3>1
  <2>2. a[1].ts <= b[1].ts /\ a[1].ts \in Nat /\ b[1].ts \in Nat
    <3>1. b[1] = a[at[1]] /\ at[1] \in 1 .. Len(a) /\ 1 <= at[1]
      BY <1>2, <1>4, <2>1
    <3> QED BY <1>0, <1>6, <2>1, <3>1 DEF Ordered, Samples
  <2>3. StartOf(r) \in Nat
    BY <2>0, BucketStart DEF SameBucket
  <2>4. Bounded(a, r)
    <3>1. StartOf(r) >= a[1].ts
      BY <2>2, <2>3
    <3> QED BY <3>1 DEF Digest, Extremal
  <2> HIDE DEF b
  <2>5. ASSUME NEW i \in 1 .. Len(a), Renderable(a[i]), SameBucket(a[i], r)
        PROVE  \E l, u \in 1 .. Len(a) :
                  /\ Kept(a, cutoff, l) /\ Renderable(a[l]) /\ SameBucket(a[l], r)
                  /\ a[l].val <= a[i].val
                  /\ Kept(a, cutoff, u) /\ Renderable(a[u]) /\ SameBucket(a[u], r)
                  /\ a[i].val <= a[u].val
    <3>0. a[i].val \in Int
      <4>1. a[i] \in Samples /\ a[i].val # None
        BY <1>0, <2>5 DEF Renderable
      <4> QED BY <4>1 DEF Samples
    <3>1. CASE ~Compactable(a[i], cutoff)
      <4>1. Kept(a, cutoff, i) /\ a[i].val <= a[i].val
        BY <3>0, <3>1 DEF Kept
      <4> QED BY <2>5, <4>1
    <3>2. CASE Compactable(a[i], cutoff)
      <4>1. \A j \in Bucket(a, cutoff, i) :
              /\ j \in 1 .. Len(a) /\ Compactable(a[j], cutoff) /\ SameBucket(a[j], a[i])
        BY <3>2, BucketMembers
      <4>2. \A j \in Bucket(a, cutoff, i) :
              j \in 1 .. Len(a) /\ Renderable(a[j]) /\ SameBucket(a[j], r)
        BY <2>5, <4>1, SameBucketTransitive DEF Compactable
      <4>3. \A j, k \in Bucket(a, cutoff, i) : a[j].ts = a[k].ts => j = k
        <5> SUFFICES ASSUME NEW j \in Bucket(a, cutoff, i), NEW k \in Bucket(a, cutoff, i),
                            a[j].ts = a[k].ts, j # k
                     PROVE  FALSE
          OBVIOUS
        <5>1. PICK g : Thins(a, f, g)
          BY DEF Digest, Thinned
        <5>2. /\ j \in 1 .. Len(a) /\ k \in 1 .. Len(a)
              /\ g[j] \in 1 .. Len(f) /\ g[k] \in 1 .. Len(f) /\ a[j] = f[g[j]] /\ a[k] = f[g[k]]
          BY <4>2, <5>1 DEF Thins
        <5>3. g[j] < g[k] \/ g[k] < g[j]
          <6>1. j < k \/ k < j
            BY <5>2
          <6> QED BY <5>1, <5>2, <6>1 DEF Thins
        <5>4. g[j] = g[k]
          BY <4>2, <5>2 DEF Distinct
        <5> QED BY <1>0, <5>2, <5>3, <5>4
      <4>4. PICK l, u \in Bucket(a, cutoff, i) :
              /\ Kept(a, cutoff, l) /\ a[l].val <= a[i].val
              /\ Kept(a, cutoff, u) /\ a[i].val <= a[u].val
        BY <3>2, <4>3, ExtremesKept
      <4> QED BY <4>2, <4>4
    <3> QED BY <3>1, <3>2
  <2>6. PICK i, j \in 1 .. Len(a) :
          /\ Renderable(a[i]) /\ SameBucket(a[i], r) /\ a[i].val <= r.val
          /\ Renderable(a[j]) /\ SameBucket(a[j], r) /\ r.val <= a[j].val
    BY <2>4 DEF Bounded
  <2>7. PICK l \in 1 .. Len(a) :
          Kept(a, cutoff, l) /\ Renderable(a[l]) /\ SameBucket(a[l], r) /\ a[l].val <= a[i].val
    BY <2>5, <2>6
  <2>8. PICK u \in 1 .. Len(a) :
          Kept(a, cutoff, u) /\ Renderable(a[u]) /\ SameBucket(a[u], r) /\ a[j].val <= a[u].val
    BY <2>5, <2>6
  <2>9. a[l].val <= r.val /\ r.val <= a[u].val
    <3>1. /\ a[l] \in Samples /\ a[l].val # None /\ a[i] \in Samples /\ a[i].val # None
          /\ a[j] \in Samples /\ a[j].val # None /\ a[u] \in Samples /\ a[u].val # None
      BY <1>0, <2>6, <2>7, <2>8 DEF Renderable
    <3>2. a[l].val \in Int /\ a[i].val \in Int /\ a[j].val \in Int /\ a[u].val \in Int
      BY <3>1 DEF Samples
    <3> QED BY <2>0, <2>6, <2>7, <2>8, <3>2
  <2>10. PICK p \in 1 .. Len(b) : b[p] = a[l]
    BY <1>4, <2>7
  <2>11. PICK q \in 1 .. Len(b) : b[q] = a[u]
    BY <1>4, <2>8
  <2> HIDE DEF r
  <2>12. Bounded(b, r)
    BY <2>7, <2>8, <2>9, <2>10, <2>11 DEF Bounded
  <2> QED BY <2>12 DEF r
<1> QED BY <1>5, <1>7, <1>8 DEF Digest, b

SeriesRecords == [samples : Seq(Samples), compacted : Nat \cup {None}]

\* A series stands for all that it accepted.
Faithful(s, f) ==
  s \in SeriesRecords /\ f \in Seq(Samples) /\ Ordered(f) /\ Digest(s.samples, f)

\* The limit of points drops the oldest.
LEMMA NewestKeeps ==
  ASSUME NEW a \in Seq(Samples), NEW f \in Seq(Samples), Digest(a, f), Ordered(f)
  PROVE  NewestOf(MaxPoints, a) \in Seq(Samples) /\ Digest(NewestOf(MaxPoints, a), f)
<1> DEFINE d == SatSub(Len(a), MaxPoints)
<1>1. MaxPoints \in Nat /\ MaxPoints >= 1
  BY PolicyAssumption
<1>2. Len(a) \in Nat /\ (a = <<>> <=> Len(a) = 0)
  OBVIOUS
<1>3. d \in Nat /\ (d < Len(a) \/ (d = 0 /\ a = <<>>))
  BY <1>1, <1>2 DEF SatSub
<1>4. NewestOf(MaxPoints, a) = SubSeq(a, d + 1, Len(a))
  BY DEF NewestOf
<1> HIDE DEF d
<1> QED BY <1>3, <1>4, DigestSuffix

\* Retention drops a proper prefix: the newest sample is never too old.
LEMMA PruneKeeps ==
  ASSUME NEW a \in Seq(Samples), NEW f \in Seq(Samples), Digest(a, f), Ordered(f), a # <<>>
  PROVE  /\ PruneExpired(a, a[Len(a)].ts) \in Seq(Samples)
         /\ Digest(PruneExpired(a, a[Len(a)].ts), f)
<1> DEFINE oldest == SatSub(a[Len(a)].ts, Retention)
           expired == {i \in DOMAIN a : \A j \in 1 .. i : a[j].ts < oldest}
           d == Cardinality(expired)
<1>1. Len(a) \in Nat /\ Len(a) \in 1 .. Len(a) /\ DOMAIN a = 1 .. Len(a) /\ a[Len(a)] \in Samples
  <2>1. Len(a) \in Nat /\ Len(a) # 0 /\ DOMAIN a = 1 .. Len(a)
    OBVIOUS
  <2> QED BY <2>1
<1>2. ~(a[Len(a)].ts < oldest)
  <2>1. a[Len(a)].ts \in Nat /\ Retention \in Nat
    BY <1>1, PolicyAssumption DEF Samples
  <2> QED BY <2>1 DEF SatSub
<1>3. Len(a) \notin expired
  BY <1>1, <1>2
<1>4. d \in Nat /\ d < Len(a)
  <2>1. IsFiniteSet(1 .. Len(a)) /\ Cardinality(1 .. Len(a)) = Len(a)
    <3>1. 1 \in Int /\ Len(a) \in Int /\ Len(a) >= 1 /\ Len(a) - 1 + 1 = Len(a)
      BY <1>1
    <3> QED BY <3>1, FS_Interval
  <2>2. expired \in SUBSET (1 .. Len(a)) /\ expired # 1 .. Len(a)
    BY <1>1, <1>3
  <2> HIDE DEF expired
  <2>3. IsFiniteSet(expired) /\ d <= Len(a) /\ d # Len(a)
    BY <2>1, <2>2, FS_Subset
  <2>4. d \in Nat
    BY <2>3, FS_CardinalityType
  <2> QED BY <1>1, <2>3, <2>4
<1>5. PruneExpired(a, a[Len(a)].ts) = SubSeq(a, d + 1, Len(a))
  BY DEF PruneExpired
<1> HIDE DEF d
<1> QED BY <1>4, <1>5, DigestSuffix

\* Compaction, with the limit of points after it.
LEMMA CompactKeeps ==
  ASSUME NEW a \in Seq(Samples), NEW f \in Seq(Samples), Digest(a, f), Ordered(f), NEW newest
  PROVE  Compact(a, newest) \in Seq(Samples) /\ Digest(Compact(a, newest), f)
<1> DEFINE cutoff == SatSub(newest, RawRetention)
           b == Selected(a, KeptOf(a, cutoff))
<1>1. Compact(a, newest) = NewestOf(MaxPoints, b)
  BY DEF Compact, KeptOf
<1>2. b \in Seq(Samples) /\ Digest(b, f)
  BY DigestSelected, SelectedThinned
<1> HIDE DEF b
<1> QED BY <1>1, <1>2, NewestKeeps

\* Whatever it drops, a series goes on standing for all that it accepted.
LEMMA PushKeeps ==
  ASSUME NEW s, NEW f, Faithful(s, f), NEW x \in Samples, Accepts(s, x)
  PROVE  Faithful(Push(s, x), Append(f, x))
<1> DEFINE a == s.samples
           a1 == Append(a, x)
           f1 == Append(f, x)
           kept == PruneExpired(a1, x.ts)
<1>1. a \in Seq(Samples) /\ f \in Seq(Samples) /\ Ordered(f) /\ Digest(a, f)
  BY DEF Faithful, SeriesRecords
<1>2. a = <<>> \/ x.ts >= a[Len(a)].ts
  BY DEF Accepts
<1> HIDE DEF a
<1>3. Ordered(f1) /\ Digest(a1, f1) /\ f1 \in Seq(Samples) /\ a1 \in Seq(Samples)
  BY <1>1, <1>2, DigestAppend
<1>4. a1 # <<>> /\ a1[Len(a1)] = x
  <2>1. Len(a1) = Len(a) + 1 /\ Len(a) \in Nat
    BY <1>1
  <2>2. a1[Len(a) + 1] = x
    BY <1>1
  <2> HIDE DEF a1
  <2> QED BY <1>3, <2>1, <2>2
<1> HIDE DEF a1, f1
<1>5. kept \in Seq(Samples) /\ Digest(kept, f1)
  BY <1>3, <1>4, PruneKeeps
<1>6. Compact(kept, x.ts) \in Seq(Samples) /\ Digest(Compact(kept, x.ts), f1)
  <2> HIDE DEF kept
  <2> QED BY <1>3, <1>5, CompactKeeps
<1>7. x.ts \in Nat
  BY DEF Samples
<1>8. \/ Push(s, x) = [samples |-> Compact(kept, x.ts), compacted |-> x.ts]
      \/ Push(s, x) = [s EXCEPT !.samples = kept]
  BY DEF Push, a1, a
<1> HIDE DEF kept
<1>9. CASE Push(s, x) = [samples |-> Compact(kept, x.ts), compacted |-> x.ts]
  BY <1>3, <1>6, <1>7, <1>9 DEF Faithful, SeriesRecords, f1
<1>10. CASE Push(s, x) = [s EXCEPT !.samples = kept]
  BY <1>3, <1>5, <1>10 DEF Faithful, SeriesRecords, f1
<1> QED BY <1>8, <1>9, <1>10

\* A new series stands for nothing.
LEMMA NewFaithful == Faithful(NewSeries, <<>>)
<1>1. NewSeries \in SeriesRecords /\ <<>> \in Seq(Samples)
  BY DEF NewSeries, SeriesRecords
<1>2. Ordered(<<>>) /\ Extremal(<<>>, <<>>) /\ Bounds(<<>>, <<>>)
  BY DEF Ordered, Extremal, Bounds
<1>3. Thinned(<<>>, <<>>)
  <2>1. Thins(<<>>, <<>>, <<>>)
    BY DEF Thins
  <2> QED BY <2>1 DEF Thinned
<1> QED BY <1>1, <1>2, <1>3 DEF Faithful, Digest, NewSeries

-----------------------------------------------------------------------------
(* The lines of a chart                                                    *)

\* As Thins, without a word about what came after the last sample of a.
Draws(a, f, at) ==
  /\ at \in [1 .. Len(a) -> 1 .. Len(f)]
  /\ \A i \in 1 .. Len(a) : a[i] = f[at[i]]
  /\ \A i, j \in 1 .. Len(a) : i < j => at[i] < at[j]
  /\ \A i \in 1 .. Len(a) - 1, m \in 1 .. Len(f) :
       at[i] < m /\ m < at[i + 1] => Renderable(f[m]) /\ SameBucket(f[m], a[i])

Drawn(a, f) == \E at : Draws(a, f, at)

\* The samples of a series can be drawn.
LEMMA ThinnedDrawn ==
  ASSUME NEW a \in Seq(Samples), NEW f \in Seq(Samples), Thinned(a, f)
  PROVE  Drawn(a, f)
<1>0. Len(a) \in Nat
  OBVIOUS
<1>1. PICK at : Thins(a, f, at)
  BY DEF Thinned
<1>2. \A i \in 1 .. Len(a) - 1, m \in 1 .. Len(f) :
        at[i] < m /\ m < at[i + 1] => Renderable(f[m]) /\ SameBucket(f[m], a[i])
  BY <1>0, <1>1 DEF Thins
<1>3. Draws(a, f, at)
  BY <1>1, <1>2 DEF Thins, Draws
<1> QED BY <1>3 DEF Drawn

\* What was drawn stays true to the history that goes on.
LEMMA DrawnAppend ==
  ASSUME NEW a \in Seq(Samples), NEW f \in Seq(Samples), NEW x, Drawn(a, f)
  PROVE  Drawn(a, Append(f, x))
<1> DEFINE g == Append(f, x)
<1>0. /\ Len(a) \in Nat /\ Len(f) \in Nat /\ Len(g) = Len(f) + 1
      /\ \A i \in 1 .. Len(f) : i \in 1 .. Len(g) /\ g[i] = f[i]
  OBVIOUS
<1>1. PICK at : Draws(a, f, at)
  BY DEF Drawn
<1> HIDE DEF g
<1>2. \A i \in 1 .. Len(a) : at[i] \in 1 .. Len(f)
  BY <1>1 DEF Draws
<1>3. at \in [1 .. Len(a) -> 1 .. Len(g)] /\ \A i \in 1 .. Len(a) : a[i] = g[at[i]]
  BY <1>0, <1>1 DEF Draws
<1>4. ASSUME NEW i \in 1 .. Len(a) - 1, NEW m \in 1 .. Len(g), at[i] < m, m < at[i + 1]
      PROVE  Renderable(g[m]) /\ SameBucket(g[m], a[i])
  <2>1. at[i + 1] \in 1 .. Len(f) /\ i \in 1 .. Len(a)
    BY <1>0, <1>2
  <2>2. m \in 1 .. Len(f)
    BY <1>0, <1>4, <2>1
  <2> QED BY <1>0, <1>1, <1>4, <2>2 DEF Draws
<1>5. Draws(a, g, at)
  BY <1>1, <1>3, <1>4 DEF Draws
<1> QED BY <1>5 DEF Drawn, g

\* The bounds of a segment: what lies in it is drawn, of one class, and joined.
LEMMA SegmentShape ==
  ASSUME NEW a \in Seq(Samples), NEW b \in SegmentBounds(a)
  PROVE  /\ b[1] \in 1 .. Len(a) /\ b[2] \in 1 .. Len(a) /\ b[1] <= b[2]
         /\ \A i \in b[1] .. b[2] - 1 : Joined(a, i)
         /\ \A i \in b[1] .. b[2] : Renderable(a[i]) /\ a[i].state = a[b[1]].state
<1>1. /\ Len(a) \in Nat /\ b[1] \in 1 .. Len(a) /\ b[2] \in 1 .. Len(a) /\ b[1] <= b[2]
      /\ Renderable(a[b[1]])
      /\ \A i \in b[1] .. b[2] - 1 : Joined(a, i)
  BY DEF SegmentBounds
<1> DEFINE T == {n \in Nat : b[1] + n <= b[2] =>
                    Renderable(a[b[1] + n]) /\ a[b[1] + n].state = a[b[1]].state}
<1>2. 0 \in T
  <2>1. b[1] + 0 = b[1]
    BY <1>1
  <2> QED BY <1>1, <2>1
<1>3. ASSUME NEW n \in T PROVE n + 1 \in T
  <2>1. n \in Nat /\ n + 1 \in Nat
    OBVIOUS
  <2> SUFFICES ASSUME b[1] + (n + 1) <= b[2]
               PROVE  /\ Renderable(a[b[1] + (n + 1)])
                      /\ a[b[1] + (n + 1)].state = a[b[1]].state
    BY <2>1
  <2>2. /\ b[1] + n \in b[1] .. b[2] - 1 /\ (b[1] + n) + 1 = b[1] + (n + 1)
        /\ b[1] + n <= b[2]
    <3> DEFINE lo == b[1]
               hi == b[2]
    <3>1. lo \in Nat /\ hi \in Nat /\ lo + (n + 1) <= hi
      BY <1>1
    <3> HIDE DEF T, lo, hi
    <3>2. lo + n \in lo .. hi - 1 /\ (lo + n) + 1 = lo + (n + 1) /\ lo + n <= hi
      BY <2>1, <3>1
    <3> QED BY <3>2 DEF lo, hi
  <2>3. a[b[1] + n].state = a[b[1]].state
    BY <2>2
  <2>4. Joined(a, b[1] + n)
    BY <1>1, <2>2
  <2> HIDE DEF T
  <2> QED BY <2>2, <2>3, <2>4 DEF Joined
<1>4. \A n \in Nat : n \in T
  <2>1. T \in SUBSET Nat
    OBVIOUS
  <2> HIDE DEF T
  <2> QED BY <1>2, <1>3, <2>1, NatSet
<1>5. ASSUME NEW i \in b[1] .. b[2]
      PROVE  Renderable(a[i]) /\ a[i].state = a[b[1]].state
  <2>1. i - b[1] \in Nat /\ b[1] + (i - b[1]) = i /\ i <= b[2]
    BY <1>1
  <2> QED BY <1>4, <2>1
<1> QED BY <1>1, <1>5

Follows(a, lo, hi, points) ==
  \A i \in 1 .. Len(points) - 1 :
    \E p, q \in lo .. hi : p < q /\ points[i] = a[p] /\ points[i + 1] = a[q]

\* Two points with a line between them are samples of the segment, in order.
LEMMA LineEnds ==
  ASSUME NEW a \in Seq(Samples), NEW lo \in 1 .. Len(a), NEW hi \in 1 .. Len(a), lo <= hi,
         NEW points, points = Decimated(a, SubSeq(a, lo, hi))
  PROVE  Follows(a, lo, hi, points)
<1> USE DEF Follows
<1> SUFFICES ASSUME NEW i \in 1 .. Len(points) - 1
             PROVE  \E p, q \in lo .. hi : p < q /\ points[i] = a[p] /\ points[i + 1] = a[q]
  OBVIOUS
<1> DEFINE ss == SubSeq(a, lo, hi)
           n == hi - lo + 1
<1>0. Len(a) \in Nat /\ lo \in Nat /\ hi \in Nat /\ n \in Nat
  OBVIOUS
<1>1. /\ Len(ss) = n /\ DOMAIN ss = 1 .. n
      /\ \A j \in 1 .. n : ss[j] = a[lo + j - 1] /\ lo + j - 1 \in lo .. hi
  BY <1>0
<1> HIDE DEF ss
<1>2. points = ss \/ \E keep \in SUBSET (1 .. n) : points = Selected(ss, keep)
  <2> DEFINE column(k) == {j \in DOMAIN ss : ProjectX(a, ss[j]) = ProjectX(a, ss[k])}
             isMin(k) == \A j \in column(k) : \/ ss[k].val < ss[j].val
                                              \/ ss[k].val = ss[j].val /\ k <= j
             isMax(k) == \A j \in column(k) : \/ ss[k].val > ss[j].val
                                              \/ ss[k].val = ss[j].val /\ k >= j
             twin(k) == \E j \in column(k) \ {k} : isMin(j) /\ ss[j].ts = ss[k].ts
             keep == {k \in DOMAIN ss : isMin(k) \/ (isMax(k) /\ ~twin(k))}
  <2>1. points = ss \/ points = Selected(ss, keep)
    BY DEF Decimated, ss
  <2>2. keep \in SUBSET (1 .. n)
    BY <1>1
  <2> HIDE DEF keep
  <2> QED BY <2>1, <2>2
<1>3. CASE points = ss
  <2>1. i \in 1 .. n /\ i + 1 \in 1 .. n
    BY <1>0, <1>1, <1>3
  <2>2. lo + i - 1 < lo + (i + 1) - 1
    BY <1>0, <2>1
  <2> QED BY <1>1, <1>3, <2>1, <2>2
<1>4. CASE \E keep \in SUBSET (1 .. n) : points = Selected(ss, keep)
  <2>1. PICK keep \in SUBSET (1 .. n) : points = Selected(ss, keep)
    BY <1>4
  <2>c. PICK c \in Nat : \E at : Picks(at, c, keep) /\ points = Picked(ss, at, c)
    <3>1. \E c \in Nat : \E at : Picks(at, c, keep) /\ Selected(ss, keep) = Picked(ss, at, c)
      <4> HIDE DEF n
      <4> QED BY <1>0, SelectedPicks
    <3> QED BY <2>1, <3>1
  <2>2. PICK at : Picks(at, c, keep) /\ points = Picked(ss, at, c)
    BY <2>c
  <2>3. Len(points) = c /\ \A j \in 1 .. c : points[j] = ss[at[j]]
    BY <2>2 DEF Picked
  <2>4. i \in 1 .. c /\ i + 1 \in 1 .. c /\ i < i + 1
    BY <2>2, <2>3
  <2>5. at[i] \in 1 .. n /\ at[i + 1] \in 1 .. n /\ at[i] < at[i + 1]
    BY <2>2, <2>4 DEF Picks
  <2>6. lo + at[i] - 1 < lo + at[i + 1] - 1
    BY <1>0, <2>5
  <2>7. points[i] = ss[at[i]] /\ points[i + 1] = ss[at[i + 1]]
    BY <2>3, <2>4
  <2>8. /\ ss[at[i]] = a[lo + at[i] - 1] /\ lo + at[i] - 1 \in lo .. hi
        /\ ss[at[i + 1]] = a[lo + at[i + 1] - 1] /\ lo + at[i + 1] - 1 \in lo .. hi
    BY <1>1, <2>5
  <2> QED BY <2>6, <2>7, <2>8
<1> QED BY <1>2, <1>3, <1>4

\* A shorter interval within a longer one.
LEMMA Between ==
  ASSUME NEW u \in Nat, NEW v \in Nat, NEW x \in Nat, NEW y \in Nat, NEW g \in Nat,
         x <= u, v <= y, y - x <= g
  PROVE  v - u <= g
OBVIOUS

\* Between two samples of a segment the history has nothing but drawn samples of
\* its class, without a pause.
LEMMA NoBridge ==
  ASSUME NEW a \in Seq(Samples), NEW f \in Seq(Samples), Drawn(a, f), Ordered(f),
         NEW p \in 1 .. Len(a), NEW q \in 1 .. Len(a), p < q,
         \A i \in p .. q - 1 : Joined(a, i),
         NEW class, \A i \in p .. q : Renderable(a[i]) /\ a[i].state = class,
         NEW n \in 1 .. Len(f)
  PROVE  /\ a[p].ts < f[n].ts /\ f[n].ts < a[q].ts => Renderable(f[n]) /\ f[n].state = class
         /\ n > 1 /\ a[p].ts <= f[n - 1].ts /\ f[n].ts <= a[q].ts =>
              f[n].ts - f[n - 1].ts <= GapLimit
<1>0. /\ Len(a) \in Nat /\ Len(f) \in Nat /\ GapLimit \in Nat
      /\ \A i \in 1 .. Len(f) : f[i].ts \in Nat
  <2>1. Len(a) \in Nat /\ Len(f) \in Nat /\ \A i \in 1 .. Len(f) : f[i] \in Samples
    OBVIOUS
  <2> QED BY <2>1, PolicyAssumption DEF Samples
<1>1. PICK at : Draws(a, f, at)
  BY DEF Drawn
<1>2. /\ \A i \in 1 .. Len(a) : at[i] \in 1 .. Len(f) /\ at[i] \in Nat /\ a[i] = f[at[i]]
      /\ \A i, j \in 1 .. Len(a) : i < j => at[i] < at[j]
  <2>1. /\ \A i \in 1 .. Len(a) : at[i] \in 1 .. Len(f) /\ a[i] = f[at[i]]
        /\ \A i, j \in 1 .. Len(a) : i < j => at[i] < at[j]
    BY <1>1 DEF Draws
  <2> QED BY <1>0, <2>1
<1>3. \A i, j \in 1 .. Len(f) : f[i].ts < f[j].ts => i < j
  <2> SUFFICES ASSUME NEW i \in 1 .. Len(f), NEW j \in 1 .. Len(f), f[i].ts < f[j].ts, ~(i < j)
               PROVE  FALSE
    OBVIOUS
  <2>1. f[j].ts <= f[i].ts
    <3>1. j <= i
      BY <1>0
    <3> QED BY <3>1 DEF Ordered
  <2> QED BY <1>0, <2>1
<1>4. ASSUME NEW m \in Nat, at[p] <= m, m < at[q]
      PROVE  \E r \in p .. q - 1 : at[r] <= m /\ m < at[r + 1]
  <2>1. PICK r \in p .. q : at[r] <= m /\ (r < q => m < at[r + 1])
    <3>1. q \in Nat /\ p \in 1 .. q /\ \A i \in 1 .. q : i \in 1 .. Len(a)
      BY <1>0
    <3>2. \A i \in 1 .. q : at[i] \in Nat
      BY <1>2, <3>1
    <3>3. \A i, j \in 1 .. q : i < j => at[i] < at[j]
      BY <1>2, <3>1
    <3> QED BY <1>4, <3>1, <3>2, <3>3, Straddle
  <2>2. r # q
    BY <1>2, <1>4, <2>1
  <2> QED BY <1>0, <2>1, <2>2
<1>5. ASSUME a[p].ts < f[n].ts, f[n].ts < a[q].ts
      PROVE  Renderable(f[n]) /\ f[n].state = class
  <2>1. at[p] < n /\ n < at[q]
    BY <1>2, <1>3, <1>5
  <2>2. PICK r \in p .. q - 1 : at[r] <= n /\ n < at[r + 1]
    <3>1. n \in Nat /\ at[p] <= n
      BY <1>0, <1>2, <2>1
    <3> QED BY <1>4, <2>1, <3>1
  <2>3. /\ r \in 1 .. Len(a) - 1 /\ r \in 1 .. Len(a) /\ r \in p .. q
        /\ Renderable(a[r]) /\ a[r].state = class /\ at[r] \in Nat
    BY <1>0, <1>2
  <2>4. CASE at[r] = n
    BY <1>2, <2>3, <2>4
  <2>5. CASE at[r] # n
    <3>1. at[r] < n
      BY <2>2, <2>3, <2>5
    <3>2. Renderable(f[n]) /\ SameBucket(f[n], a[r])
      BY <1>1, <2>2, <2>3, <3>1 DEF Draws
    <3> QED BY <2>3, <3>2 DEF SameBucket
  <2> QED BY <2>4, <2>5
<1>6. ASSUME n > 1, a[p].ts <= f[n - 1].ts, f[n].ts <= a[q].ts
      PROVE  f[n].ts - f[n - 1].ts <= GapLimit
  <2>0. /\ n - 1 \in 1 .. Len(f) /\ n - 1 \in Nat /\ f[n].ts \in Nat /\ f[n - 1].ts \in Nat
        /\ at[p] \in 1 .. Len(f) /\ at[q] \in 1 .. Len(f)
        /\ f[at[p]] = a[p] /\ f[at[p]].ts \in Nat /\ f[at[q]] = a[q] /\ f[at[q]].ts \in Nat
    <3>1. n - 1 \in 1 .. Len(f) /\ n - 1 \in Nat
      BY <1>0, <1>6
    <3>2. /\ at[p] \in 1 .. Len(f) /\ a[p] = f[at[p]]
          /\ at[q] \in 1 .. Len(f) /\ a[q] = f[at[q]]
      BY <1>2
    <3>3. \A i \in 1 .. Len(f) : f[i].ts \in Nat
      BY <1>0
    <3> QED BY <3>1, <3>2, <3>3
  <2> DEFINE u == f[n - 1].ts
             v == f[n].ts
  <2>1. u \in Nat /\ v \in Nat /\ GapLimit \in Nat /\ a[p].ts <= u /\ v <= a[q].ts
    BY <1>0, <1>6, <2>0
  <2>2. CASE v <= u
    <3> HIDE DEF u, v
    <3>1. v - u <= GapLimit
      BY <2>2, <2>1
    <3> QED BY <3>1 DEF u, v
  <2>3. CASE u < v
    <3>1. at[p] < n
      <4>1. f[at[p]].ts \in Nat /\ f[at[p]].ts = a[p].ts
        BY <2>0
      <4>2. f[at[p]].ts < v
        <5> HIDE DEF u, v
        <5> QED BY <2>3, <2>1, <4>1
      <4> QED BY <1>3, <2>0, <4>2
    <3>2. n - 1 < at[q]
      <4>1. f[at[q]].ts \in Nat /\ f[at[q]].ts = a[q].ts
        BY <2>0
      <4>2. u < f[at[q]].ts
        <5> HIDE DEF u, v
        <5> QED BY <2>3, <2>1, <4>1
      <4> QED BY <1>3, <2>0, <4>2
    <3>3. PICK r \in p .. q - 1 : at[r] <= n - 1 /\ n - 1 < at[r + 1]
      <4>1. at[p] <= n - 1
        BY <2>0, <3>1
      <4> QED BY <1>4, <2>0, <3>2, <4>1
    <3>4. /\ r \in 1 .. Len(a) /\ r + 1 \in 1 .. Len(a)
          /\ at[r] \in 1 .. Len(f) /\ at[r + 1] \in 1 .. Len(f) /\ n <= at[r + 1]
          /\ a[r] = f[at[r]] /\ a[r + 1] = f[at[r + 1]]
      <4>1. r \in 1 .. Len(a) /\ r + 1 \in 1 .. Len(a)
        BY <1>0, <3>3
      <4>2. /\ at[r] \in 1 .. Len(f) /\ a[r] = f[at[r]]
            /\ at[r + 1] \in 1 .. Len(f) /\ a[r + 1] = f[at[r + 1]]
        BY <1>2, <4>1
      <4>3. n <= at[r + 1]
        BY <2>0, <3>3, <4>2
      <4> QED BY <4>1, <4>2, <4>3
    <3>5. a[r].ts <= f[n - 1].ts /\ f[n].ts <= a[r + 1].ts
      BY <2>0, <3>3, <3>4 DEF Ordered
    <3>6. SatSub(a[r + 1].ts, a[r].ts) <= GapLimit
      BY <3>3 DEF Joined
    <3>7. a[r].ts \in Nat /\ a[r + 1].ts \in Nat
      BY <1>0, <3>4
    <3>8. a[r + 1].ts - a[r].ts <= GapLimit
      BY <1>0, <3>6, <3>7 DEF SatSub
    <3> QED BY <2>1, <3>5, <3>7, <3>8, Between
  <2>4. u < v \/ v <= u
    <3> HIDE DEF u, v
    <3> QED BY <2>1
  <2> QED BY <2>2, <2>3, <2>4
<1> QED BY <1>5, <1>6

\* The lines of a chart, whatever compaction and decimation left of it.
LEMMA LinesOf ==
  ASSUME NEW a \in Seq(Samples), NEW f \in Seq(Samples), Drawn(a, f), Ordered(f),
         NEW segment \in Segments(a), NEW i \in 1 .. Len(segment.points) - 1,
         NEW n \in DOMAIN f
  PROVE  LET from == segment.points[i].ts
             to == segment.points[i + 1].ts
         IN  /\ from < f[n].ts /\ f[n].ts < to =>
                  Renderable(f[n]) /\ f[n].state = segment.state
             /\ n > 1 /\ from <= f[n - 1].ts /\ f[n].ts <= to =>
                  f[n].ts - f[n - 1].ts <= GapLimit
<1>1. PICK b \in SegmentBounds(a) :
        segment = [state |-> a[b[1]].state, points |-> Decimated(a, SubSeq(a, b[1], b[2]))]
  BY DEF Segments
<1>2. /\ b[1] \in 1 .. Len(a) /\ b[2] \in 1 .. Len(a) /\ b[1] <= b[2]
      /\ \A k \in b[1] .. b[2] - 1 : Joined(a, k)
      /\ \A k \in b[1] .. b[2] : Renderable(a[k]) /\ a[k].state = a[b[1]].state
  BY SegmentShape
<1>3. segment.state = a[b[1]].state /\ segment.points = Decimated(a, SubSeq(a, b[1], b[2]))
  BY <1>1
<1>4. PICK p, q \in b[1] .. b[2] :
        p < q /\ segment.points[i] = a[p] /\ segment.points[i + 1] = a[q]
  <2> DEFINE b1 == b[1]
             b2 == b[2]
             line == segment.points
  <2>1. /\ b1 \in 1 .. Len(a) /\ b2 \in 1 .. Len(a) /\ b1 <= b2
        /\ line = Decimated(a, SubSeq(a, b1, b2)) /\ i \in 1 .. Len(line) - 1
    BY <1>2, <1>3
  <2> HIDE DEF b1, b2, line
  <2>2. \A k \in 1 .. Len(line) - 1 :
          \E p, q \in b1 .. b2 : p < q /\ line[k] = a[p] /\ line[k + 1] = a[q]
    <3>1. Follows(a, b1, b2, line)
      BY <2>1, LineEnds
    <3> QED BY <3>1 DEF Follows
  <2>3. \E p, q \in b1 .. b2 : p < q /\ line[i] = a[p] /\ line[i + 1] = a[q]
    BY <2>1, <2>2
  <2> QED BY <2>3 DEF b1, b2, line
<1>5. /\ Len(a) \in Nat /\ p \in 1 .. Len(a) /\ q \in 1 .. Len(a) /\ n \in 1 .. Len(f)
      /\ \A k \in p .. q - 1 : k \in b[1] .. b[2] - 1
      /\ \A k \in p .. q : k \in b[1] .. b[2]
  <2> DEFINE lo == b[1]
             hi == b[2]
  <2>1. Len(a) \in Nat /\ n \in 1 .. Len(f) /\ lo \in 1 .. Len(a) /\ hi \in 1 .. Len(a)
    BY <1>2
  <2>2. p \in lo .. hi /\ q \in lo .. hi
    BY <1>4
  <2> HIDE DEF lo, hi
  <2>3. p \in 1 .. Len(a) /\ q \in 1 .. Len(a)
    BY <2>1, <2>2
  <2>4. \A k \in p .. q - 1 : k \in lo .. hi - 1
    BY <2>1, <2>2
  <2>5. \A k \in p .. q : k \in lo .. hi
    BY <2>1, <2>2
  <2> QED BY <2>1, <2>3, <2>4, <2>5 DEF lo, hi
<1>6. /\ \A k \in p .. q - 1 : Joined(a, k)
      /\ \A k \in p .. q : Renderable(a[k]) /\ a[k].state = a[b[1]].state
  BY <1>2, <1>5
<1>7. /\ a[p].ts < f[n].ts /\ f[n].ts < a[q].ts => Renderable(f[n]) /\ f[n].state = a[b[1]].state
      /\ n > 1 /\ a[p].ts <= f[n - 1].ts /\ f[n].ts <= a[q].ts =>
           f[n].ts - f[n - 1].ts <= GapLimit
  <2> DEFINE class == a[b[1]].state
  <2>1. \A k \in p .. q : Renderable(a[k]) /\ a[k].state = class
    BY <1>6
  <2>2. p < q /\ p \in 1 .. Len(a) /\ q \in 1 .. Len(a) /\ n \in 1 .. Len(f)
    BY <1>4, <1>5
  <2> HIDE DEF class
  <2>3. /\ a[p].ts < f[n].ts /\ f[n].ts < a[q].ts => Renderable(f[n]) /\ f[n].state = class
        /\ n > 1 /\ a[p].ts <= f[n - 1].ts /\ f[n].ts <= a[q].ts =>
             f[n].ts - f[n - 1].ts <= GapLimit
    BY <1>6, <2>1, <2>2, NoBridge
  <2> QED BY <2>3 DEF class
<1> QED BY <1>3, <1>4, <1>7

-----------------------------------------------------------------------------
(* What a provider answers is a sample                                     *)

IsReading(r) == r.kind \in SampleStates /\ r.val \in Int \cup {None} /\ r.at \in Nat

\* A failed query is answered with a reading, if the one before was one.
LEMMA FailedTyped ==
  ASSUME NEW previous, NEW at \in Nat, previous = None \/ IsReading(previous)
  PROVE  IsReading(P!FailedOrStale(previous, at))
  BY DEF IsReading, P!FailedOrStale, P!Reading, SampleStates, RenderStates

\* So is an adapter that was not enumerated.
LEMMA StaleTyped ==
  ASSUME NEW previous, NEW at \in Nat, IsReading(previous)
  PROVE  IsReading(P!StaleReading(previous, at))
<1>1. CASE previous.kind \in {"Live", "Stale"}
  BY <1>1, FailedTyped DEF P!StaleReading
<1>2. CASE previous.kind \notin {"Live", "Stale"}
  BY <1>2 DEF P!StaleReading, P!Reading, IsReading
<1> QED BY <1>1, <1>2

\* What the platform answers is a reading.
LEMMA AnswerTyped ==
  ASSUME NEW val \in Int \cup {None}, NEW at \in Nat
  PROVE  IsReading(P!LiveReading(val, at)) /\ IsReading(P!UnavailableReading(at))
  BY DEF IsReading, P!LiveReading, P!UnavailableReading, P!Reading, SampleStates, RenderStates

\* The processor.
LEMMA UsageTyped ==
  ASSUME NEW state, NEW cpu, NEW at \in Nat, state.usage = None \/ IsReading(state.usage),
         cpu # None => cpu.usage \in Int \cup {None}
  PROVE  IsReading(P!CpuUsage(state, cpu, at))
<1>1. CASE cpu = None
  <2>1. P!CpuUsage(state, cpu, at) = P!FailedOrStale(state.usage, at)
    BY <1>1 DEF P!CpuUsage
  <2> QED BY <2>1, FailedTyped
<1>2. CASE cpu # None
  <2>1. \/ P!CpuUsage(state, cpu, at) = P!UnavailableReading(at)
        \/ P!CpuUsage(state, cpu, at) = P!LiveReading(cpu.usage, at)
    BY <1>2 DEF P!CpuUsage
  <2> QED BY <1>2, <2>1, AnswerTyped
<1> QED BY <1>1, <1>2

\* A metric of an adapter.
LEMMA MetricTyped ==
  ASSUME NEW metric, NEW previous, NEW at \in Nat, previous = None \/ IsReading(previous),
         metric.result = "Success" => metric.val \in Int
  PROVE  IsReading(P!MetricReading(metric, previous, at))
<1>1. CASE metric.result = "Success"
  BY <1>1, AnswerTyped DEF P!MetricReading
<1>2. CASE metric.result = "NotSupported"
  BY <1>2, AnswerTyped DEF P!MetricReading
<1>3. CASE metric.result # "Success" /\ metric.result # "NotSupported"
  <2>1. P!MetricReading(metric, previous, at) = P!FailedOrStale(previous, at)
    BY <1>3 DEF P!MetricReading
  <2> QED BY <2>1, FailedTyped
<1> QED BY <1>1, <1>2, <1>3

AdapterTyped(adapter) == adapter # None => IsReading(adapter.util) /\ IsReading(adapter.temp)

\* The adapters of a snapshot, enumerated or not.
LEMMA SampledTyped ==
  ASSUME NEW answer \in Answers, NEW at \in Nat, NEW i \in P!Identities,
         DOMAIN gpu = {"loaded", "previous", "count"}, DOMAIN gpu.previous = P!Identities,
         AdapterTyped(gpu.previous[i])
  PROVE  AdapterTyped(P!SampleGpu(gpu, answer.gpu, at).previous[i])
<1> DEFINE input == answer.gpu
           adapter == P!SampleGpu(gpu, input, at).previous[i]
           previous == gpu.previous[i]
<1>1. \/ adapter = None
      \/ \E d \in DOMAIN input.answers :
           adapter = P!ConvertAdapter(gpu, i, d, input.answers[d], at)
      \/ previous # None /\ adapter = P!StaleAdapter(previous, at)
  BY SampledAdapter
<1> SUFFICES AdapterTyped(adapter)
  OBVIOUS
<1> HIDE DEF adapter
<1>2. CASE \E d \in DOMAIN input.answers :
           adapter = P!ConvertAdapter(gpu, i, d, input.answers[d], at)
  <2>1. PICK d \in DOMAIN input.answers :
          adapter = P!ConvertAdapter(gpu, i, d, input.answers[d], at)
    BY <1>2
  <2> DEFINE util == IF previous = None THEN None ELSE previous.util
             temp == IF previous = None THEN None ELSE previous.temp
  <2>2. /\ input.answers[d].util.result = "Success" => input.answers[d].util.val \in Int
        /\ input.answers[d].temp.result = "Success" => input.answers[d].temp.val \in Int
    BY <2>1, AnswersAssumption
  <2>3. (util = None \/ IsReading(util)) /\ (temp = None \/ IsReading(temp))
    BY DEF AdapterTyped
  <2>4. /\ adapter.util = P!MetricReading(input.answers[d].util, util, at)
        /\ adapter.temp = P!MetricReading(input.answers[d].temp, temp, at)
    BY <2>1 DEF P!ConvertAdapter
  <2> HIDE DEF util, temp, input
  <2>5. IsReading(adapter.util)
    BY <2>2, <2>3, <2>4, MetricTyped
  <2>6. IsReading(adapter.temp)
    BY <2>2, <2>3, <2>4, MetricTyped
  <2> QED BY <2>5, <2>6 DEF AdapterTyped
<1>3. CASE previous # None /\ adapter = P!StaleAdapter(previous, at)
  <2>1. IsReading(previous.util) /\ IsReading(previous.temp)
    BY <1>3 DEF AdapterTyped
  <2>2. /\ adapter.util = P!StaleReading(previous.util, at)
        /\ adapter.temp = P!StaleReading(previous.temp, at)
    BY <1>3 DEF P!StaleAdapter
  <2> HIDE DEF previous
  <2> QED BY <2>1, <2>2, StaleTyped DEF AdapterTyped
<1>4. CASE adapter = None
  BY <1>4 DEF AdapterTyped
<1> QED BY <1>1, <1>2, <1>3, <1>4

\* Between two turns: the clock is a time, and the providers keep readings.
TypedInv ==
  /\ clock \in Nat
  /\ hw.usage = None \/ IsReading(hw.usage)
  /\ \A i \in P!Identities : AdapterTyped(gpu.previous[i])
  /\ DOMAIN gpu = {"loaded", "previous", "count"} /\ DOMAIN gpu.previous = P!Identities

\* At the start nothing was read.
LEMMA TypedInit == Init => TypedInv
  BY AnswersAssumption DEF Init, TypedInv, AdapterTyped, P!NewHardware, P!NewGpu

\* A turn leaves readings, and one of the processor in any case.
LEMMA TurnTyped ==
  ASSUME TypedInv, NEW answer \in Answers, NEW hAt \in Nat, NEW gAt \in Nat,
         Turn(answer, hAt, gAt)
  PROVE  TypedInv' /\ IsReading(hw'.usage)
<1>1. /\ hw' = P!SampleHardware(hw, answer.cpu, answer.memory, hAt)
      /\ gpu' = P!SampleGpu(gpu, answer.gpu, gAt) /\ clock' = gAt
  BY DEF Turn
<1>2. hw'.usage = P!CpuUsage(hw, answer.cpu, hAt)
  BY <1>1 DEF P!SampleHardware
<1>3. answer.cpu # None => answer.cpu.usage \in Int \cup {None}
  BY AnswersAssumption
<1>4. IsReading(hw'.usage)
  BY <1>2, <1>3, UsageTyped DEF TypedInv
<1>5. ASSUME NEW i \in P!Identities PROVE AdapterTyped(gpu'.previous[i])
  BY <1>1, SampledTyped DEF TypedInv
<1>6. DOMAIN gpu' = {"loaded", "previous", "count"} /\ DOMAIN gpu'.previous = P!Identities
  BY <1>1 DEF TypedInv, P!SampleGpu, P!Enumerated, P!ProviderFailure
<1> QED BY <1>1, <1>4, <1>5, <1>6 DEF TypedInv

\* The two ways to take a turn, as one.
TurnOf(answer, hAt, gAt) ==
  answer \in Answers /\ hAt \in Nat /\ gAt \in Nat /\ Turn(answer, hAt, gAt)

\* Both are turns at two readings of the clock, set back or not.
LEMMA SampleIsTurn ==
  ASSUME clock \in Nat, SampleAll \/ SampleWhileSetBack
  PROVE  \E answer, hAt, gAt : TurnOf(answer, hAt, gAt)
<1>1. SatSub(clock, 1) \in Nat /\ \A answer \in Answers : clock + answer.delay \in Nat
  BY AnswersAssumption DEF SatSub
<1>2. CASE SampleAll
  BY <1>1, <1>2 DEF SampleAll, TurnOf
<1>3. CASE SampleWhileSetBack
  <2>1. PICK answer \in Answers : \E hAt \in {SatSub(clock, 1), clock + answer.delay} :
          Turn(answer, hAt, SatSub(clock, 1))
    BY <1>3 DEF SampleWhileSetBack
  <2>2. PICK hAt \in {SatSub(clock, 1), clock + answer.delay} : Turn(answer, hAt, SatSub(clock, 1))
    BY <2>1
  <2>3. hAt \in Nat
    BY <1>1
  <2> QED BY <1>1, <2>2, <2>3 DEF TurnOf
<1> QED BY <1>2, <1>3

\* Every step keeps the types.
LEMMA TypedStep == TypedInv /\ [Next]_vars => TypedInv'
<1> SUFFICES ASSUME TypedInv, [Next]_vars PROVE TypedInv' OBVIOUS
<1>1. CASE SampleAll \/ SampleWhileSetBack
  <2>1. PICK answer, hAt, gAt : TurnOf(answer, hAt, gAt)
    BY <1>1, SampleIsTurn DEF TypedInv
  <2> QED BY <2>1, TurnTyped DEF TurnOf
<1>2. CASE AdjustThreshold \/ UNCHANGED vars
  BY <1>2 DEF AdjustThreshold, vars, TypedInv
<1> QED BY <1>1, <1>2 DEF Next

\* The sample of a reading.
LEMMA SampleOfTyped ==
  ASSUME NEW reading, IsReading(reading)
  PROVE  SampleOf(reading) \in Samples
  BY DEF SampleOf, Sample, Samples, IsReading

-----------------------------------------------------------------------------
(* The charts                                                              *)

ChartInv ==
  /\ DOMAIN series = Keys /\ DOMAIN fed = Keys
  /\ \A k \in Keys :
       /\ Faithful(series[k], fed[k])
       /\ page.history[k] \in Seq(Samples) /\ Drawn(page.history[k], fed[k])

\* At the start the charts are empty.
LEMMA ChartInit == Init => ChartInv
<1> SUFFICES ASSUME Init PROVE ChartInv OBVIOUS
<1>1. DOMAIN series = Keys /\ DOMAIN fed = Keys
  BY DEF Init
<1>2. Drawn(<<>>, <<>>) /\ <<>> \in Seq(Samples)
  BY NewFaithful, ThinnedDrawn DEF Faithful, Digest, NewSeries
<1>3. ASSUME NEW k \in Keys
      PROVE  series[k] = NewSeries /\ fed[k] = <<>> /\ page.history[k] = <<>>
  BY DEF Init, NewPage
<1> QED BY <1>1, <1>2, <1>3, NewFaithful DEF ChartInv

\* A turn pushes only what the series accept, and draws what was pushed.
LEMMA TurnCharts ==
  ASSUME TypedInv, ChartInv, NEW answer, NEW hAt, NEW gAt, TurnOf(answer, hAt, gAt)
  PROVE  ChartInv'
<1> DEFINE samples == Utilization(hw', gpu')
           refused == {k \in DOMAIN samples : ~Accepts(series[k], samples[k])}
           pushed == {k \in DOMAIN samples : \A j \in refused : j # k /\ ~Precedes(gpu', j, k)}
<1>1. TypedInv' /\ IsReading(hw'.usage)
  BY TurnTyped DEF TurnOf
<1>2. DOMAIN samples \subseteq Keys /\ \A k \in DOMAIN samples : samples[k] \in Samples
  <2>1. DOMAIN samples \subseteq Keys
    BY DEF Utilization, Keys, P!Adapters
  <2>2. ASSUME NEW k \in DOMAIN samples PROVE samples[k] \in Samples
    <3>1. CASE k = Cpu
      BY <1>1, <3>1, SampleOfTyped DEF Utilization
    <3>2. CASE k # Cpu
      <4>1. k \in P!Identities /\ gpu'.previous[k] # None
        BY <3>2 DEF Utilization, P!Adapters
      <4>2. IsReading(gpu'.previous[k].util)
        BY <1>1, <4>1 DEF TypedInv, AdapterTyped
      <4> QED BY <3>2, <4>2, SampleOfTyped DEF Utilization
    <3> QED BY <3>1, <3>2
  <2> QED BY <2>1, <2>2
<1>3. /\ series' = [k \in Keys |-> IF k \in pushed THEN Push(series[k], samples[k]) ELSE series[k]]
      /\ fed' = [k \in Keys |-> IF k \in pushed THEN Append(fed[k], samples[k]) ELSE fed[k]]
      /\ \/ page'.history = page.history
         \/ page'.history = [k \in Keys |-> series'[k].samples]
  <2>1. /\ series' = ObserveHistory(gpu', samples).series /\ fed' = ObserveHistory(gpu', samples).fed
        /\ page'.history = IF ObserveHistory(gpu', samples).failed THEN page.history
                           ELSE [k \in Keys |-> ObserveHistory(gpu', samples).series[k].samples]
    BY DEF TurnOf, Turn
  <2>2. /\ ObserveHistory(gpu', samples).series =
             [k \in Keys |-> IF k \in pushed THEN Push(series[k], samples[k]) ELSE series[k]]
        /\ ObserveHistory(gpu', samples).fed =
             [k \in Keys |-> IF k \in pushed THEN Append(fed[k], samples[k]) ELSE fed[k]]
    BY DEF ObserveHistory
  <2> HIDE DEF samples, pushed
  <2> QED BY <2>1, <2>2
<1>4. \A k \in pushed : k \in DOMAIN samples /\ Accepts(series[k], samples[k])
  BY <1>2
<1> HIDE DEF samples, refused, pushed
<1>5. ASSUME NEW k \in Keys
      PROVE  /\ Faithful(series'[k], fed'[k])
             /\ page'.history[k] \in Seq(Samples) /\ Drawn(page'.history[k], fed'[k])
  <2>1. /\ Faithful(series[k], fed[k]) /\ fed[k] \in Seq(Samples)
        /\ page.history[k] \in Seq(Samples) /\ Drawn(page.history[k], fed[k])
    BY DEF ChartInv, Faithful
  <2>2. Faithful(series'[k], fed'[k]) /\ Drawn(page.history[k], fed'[k])
    <3>1. CASE k \in pushed
      <4>1. samples[k] \in Samples /\ Accepts(series[k], samples[k])
        BY <1>2, <1>4, <3>1
      <4>2. series'[k] = Push(series[k], samples[k]) /\ fed'[k] = Append(fed[k], samples[k])
        BY <1>3, <3>1
      <4> QED BY <2>1, <4>1, <4>2, PushKeeps, DrawnAppend
    <3>2. CASE k \notin pushed
      BY <1>3, <2>1, <3>2
    <3> QED BY <3>1, <3>2
  <2>3. series'[k].samples \in Seq(Samples) /\ Drawn(series'[k].samples, fed'[k])
    BY <2>2, ThinnedDrawn DEF Faithful, SeriesRecords, Digest
  <2> QED BY <1>3, <2>1, <2>2, <2>3
<1>6. DOMAIN series' = Keys /\ DOMAIN fed' = Keys
  BY <1>3
<1> QED BY <1>5, <1>6 DEF ChartInv

\* Every step keeps the charts true to the history.
LEMMA ChartStep == TypedInv /\ ChartInv /\ [Next]_vars => ChartInv'
<1> SUFFICES ASSUME TypedInv, ChartInv, [Next]_vars PROVE ChartInv' OBVIOUS
<1>1. CASE SampleAll \/ SampleWhileSetBack
  <2>1. PICK answer, hAt, gAt : TurnOf(answer, hAt, gAt)
    BY <1>1, SampleIsTurn DEF TypedInv
  <2> QED BY <2>1, TurnCharts
<1>2. CASE AdjustThreshold \/ UNCHANGED vars
  BY <1>2 DEF AdjustThreshold, vars, ChartInv
<1> QED BY <1>1, <1>2 DEF Next

\* What a series stands for is what ExtremaSurvive says.
LEMMA ChartExtrema == ChartInv => ExtremaSurvive
<1> SUFFICES ASSUME ChartInv PROVE ExtremaSurvive OBVIOUS
<1> SUFFICES ASSUME NEW k \in Keys, NEW n \in DOMAIN fed[k],
                    Renderable(fed[k][n]),
                    (fed[k][n].ts \div BucketWidth) * BucketWidth >= series[k].samples[1].ts,
                    \A m, l \in DOMAIN fed[k] :
                      fed[k][m].ts = fed[k][l].ts /\ SameBucket(fed[k][m], fed[k][n]) => m = l
             PROVE  \E s, t \in Range(series[k].samples) :
                      /\ Renderable(s) /\ SameBucket(s, fed[k][n]) /\ s.val <= fed[k][n].val
                      /\ Renderable(t) /\ SameBucket(t, fed[k][n]) /\ fed[k][n].val <= t.val
  BY DEF ExtremaSurvive, Range
<1> DEFINE f == fed[k]
           a == series[k].samples
           r == f[n]
<1>1. f \in Seq(Samples) /\ a \in Seq(Samples) /\ Extremal(a, f)
  BY DEF ChartInv, Faithful, SeriesRecords, Digest
<1>2. DOMAIN f = 1 .. Len(f) /\ DOMAIN a = 1 .. Len(a)
  BY <1>1
<1>3. n \in 1 .. Len(f) /\ Distinct(f, r) /\ StartOf(r) >= a[1].ts
  BY <1>2 DEF Distinct, StartOf
<1>4. Bounded(a, r)
  BY <1>1, <1>3 DEF Extremal
<1>5. \A i \in 1 .. Len(a) : a[i] \in Range(a)
  BY <1>2 DEF Range
<1> HIDE DEF a, r
<1>6. \E s, t \in Range(a) : /\ Renderable(s) /\ SameBucket(s, r) /\ s.val <= r.val
                            /\ Renderable(t) /\ SameBucket(t, r) /\ r.val <= t.val
  BY <1>4, <1>5 DEF Bounded
<1> QED BY <1>6 DEF a, r

\* What is drawn of the history never bridges.
LEMMA ChartLines == ChartInv => LinesNeverBridge
<1> SUFFICES ASSUME ChartInv, NEW k \in Keys, NEW segment \in Segments(Shown(k)),
                    NEW i \in 1 .. Len(segment.points) - 1, NEW n \in DOMAIN fed[k]
             PROVE  LET from == segment.points[i].ts
                        to == segment.points[i + 1].ts
                    IN  /\ from < fed[k][n].ts /\ fed[k][n].ts < to =>
                             Renderable(fed[k][n]) /\ fed[k][n].state = segment.state
                        /\ n > 1 /\ from <= fed[k][n - 1].ts /\ fed[k][n].ts <= to =>
                             fed[k][n].ts - fed[k][n - 1].ts <= GapLimit
  BY DEF LinesNeverBridge
<1>1. Shown(k) \in Seq(Samples) /\ Drawn(Shown(k), fed[k])
  BY DEF ChartInv, Shown
<1>2. fed[k] \in Seq(Samples) /\ Ordered(fed[k])
  BY DEF ChartInv, Faithful
<1> QED BY <1>1, <1>2, LinesOf

ChartsInv == TypedInv /\ ChartInv

\* Downsampling keeps the extrema of every bucket that starts after the oldest
\* sample left, for any policy, through any number of compactions
\* (TimeSeries::compact, prune_expired).
THEOREM ExtremaCorrect == Spec => []ExtremaSurvive
<1>1. Init => ChartsInv
  BY TypedInit, ChartInit DEF ChartsInv
<1>2. ChartsInv /\ [Next]_vars => ChartsInv'
  BY TypedStep, ChartStep DEF ChartsInv
<1>3. ChartsInv => ExtremaSurvive
  BY ChartExtrema DEF ChartsInv
<1> QED BY <1>1, <1>2, <1>3, PTL DEF Spec

\* A line of the chart never runs across a sample that was not drawn, one of the
\* other class, or a pause of the sampling (ChartProjection::build).
THEOREM LinesCorrect == Spec => []LinesNeverBridge
<1>1. Init => ChartsInv
  BY TypedInit, ChartInit DEF ChartsInv
<1>2. ChartsInv /\ [Next]_vars => ChartsInv'
  BY TypedStep, ChartStep DEF ChartsInv
<1>3. ChartsInv => LinesNeverBridge
  BY ChartLines DEF ChartsInv
<1> QED BY <1>1, <1>2, <1>3, PTL DEF Spec

-----------------------------------------------------------------------------
(* The board                                                               *)

BoardFields == {"threshold", "inst", "events", "latest", "controlError", "observationError"}
InstFields == {"active", "trigger", "clear", "last", "seen"}

BoardShape ==
  /\ DOMAIN board = BoardFields
  /\ DOMAIN board.inst = RuleIds \X Keys /\ DOMAIN board.latest = RuleIds \X Keys
  /\ RuleIds \subseteq DOMAIN board.threshold
  /\ \A ik \in RuleIds \X Keys : DOMAIN board.inst[ik] = InstFields
  /\ DOMAIN watched = RuleIds \X Keys

\* A rule is known by its id.
LEMMA RuleIsOne ==
  ASSUME NEW i \in DOMAIN Rules
  PROVE  RuleOf(Rules[i].id) = i /\ Rules[i].id \in RuleIds
  BY RulesAssumption DEF RuleOf, RuleIds

\* The samples of a turn that the engine reaches, and the instances it touches.
Reached(g, b, samples) ==
  {k \in DOMAIN samples :
     \A j \in {l \in DOMAIN samples : Refuses(b, l, samples[l])} : j = Cpu \/ ~Precedes(g, j, k)}

Seen(g, b, samples) == [k \in Reached(g, b, samples) |-> samples[k]]

\* What a turn shows to the alerts are samples.
LEMMA MonitoredTyped ==
  ASSUME TypedInv', IsReading(hw'.usage)
  PROVE  /\ DOMAIN Monitored(hw', gpu') \subseteq Keys
         /\ \A k \in DOMAIN Monitored(hw', gpu') : Monitored(hw', gpu')[k] \in Samples
<1> DEFINE samples == Monitored(hw', gpu')
<1>1. DOMAIN samples \subseteq Keys
  BY DEF Monitored, Keys, P!Adapters
<1>2. ASSUME NEW k \in DOMAIN samples PROVE samples[k] \in Samples
  <2>1. CASE k = Cpu
    BY <2>1, SampleOfTyped DEF Monitored
  <2>2. CASE k # Cpu
    <3>1. k \in P!Identities /\ gpu'.previous[k] # None
      BY <2>2 DEF Monitored, P!Adapters
    <3>2. IsReading(gpu'.previous[k].temp)
      BY <3>1 DEF TypedInv, AdapterTyped
    <3> QED BY <2>2, <3>2, SampleOfTyped DEF Monitored
  <2> QED BY <2>1, <2>2
<1> QED BY <1>1, <1>2

\* What a turn does to the board, field by field.
LEMMA TurnBoard ==
  ASSUME BoardShape, NEW answer, NEW hAt, NEW gAt, Turn(answer, hAt, gAt),
         NEW samples, samples = Monitored(hw', gpu'),
         NEW seen, seen = Seen(gpu', board, samples)
  PROVE  /\ board'.threshold = board.threshold
         /\ board'.observationError =
              ({k \in DOMAIN samples : Refuses(board, k, samples[k])} # {})
         /\ DOMAIN board' = BoardFields
         /\ DOMAIN board'.inst = RuleIds \X Keys /\ DOMAIN board'.latest = RuleIds \X Keys
         /\ DOMAIN watched' = RuleIds \X Keys
         /\ page'.alerts = board'
         /\ \A ik \in RuleIds \X Keys :
              IF ik \in Touched(board, seen)
              THEN LET out == Evaluation(board, ik[2], RuleOf(ik[1]), seen[ik[2]]) IN
                   /\ board'.inst[ik] = out.st
                   /\ watched'[ik] = Append(watched[ik], seen[ik[2]])
                   /\ ~Refuses(board, ik[2], seen[ik[2]]) => board'.latest[ik] = out.presentation
              ELSE board'.inst[ik] = board.inst[ik] /\ watched'[ik] = watched[ik]
<1> DEFINE refused == {k \in DOMAIN samples : Refuses(board, k, samples[k])}
           order == SetToSortSeq(Reached(gpu', board, samples), LAMBDA j, k : Precedes(gpu', j, k))
           out == [ik \in Touched(board, seen) |->
                     Evaluation(board, ik[2], RuleOf(ik[1]), seen[ik[2]])]
           shown == {ik \in DOMAIN out : ~Refuses(board, ik[2], seen[ik[2]])}
           b == Observed(board, seen, order)
<1>1. /\ board' = [b EXCEPT !.observationError = refused # {}]
      /\ watched' = [ik \in DOMAIN watched |->
                        IF ik \in Touched(board, seen) THEN Append(watched[ik], seen[ik[2]])
                        ELSE watched[ik]]
  <2>1. board' = ObserveAlerts(gpu', samples).board /\ watched' = ObserveAlerts(gpu', samples).watched
    BY DEF Turn
  <2>2. /\ ObserveAlerts(gpu', samples).board = [b EXCEPT !.observationError = refused # {}]
        /\ ObserveAlerts(gpu', samples).watched =
             [ik \in DOMAIN watched |->
                IF ik \in Touched(board, seen) THEN Append(watched[ik], seen[ik[2]])
                ELSE watched[ik]]
    BY DEF ObserveAlerts, Seen, Reached
  <2> HIDE DEF b, refused
  <2> QED BY <2>1, <2>2
<1>2. page'.alerts = board'
  BY DEF Turn
<1>3. /\ DOMAIN b = BoardFields /\ b.threshold = board.threshold
      /\ b.inst = [ik \in DOMAIN board.inst |-> IF ik \in DOMAIN out THEN out[ik].st ELSE board.inst[ik]]
      /\ b.latest = [ik \in DOMAIN board.latest |->
                       IF ik \in shown THEN out[ik].presentation ELSE board.latest[ik]]
  BY DEF Observed, BoardShape, BoardFields
<1> HIDE DEF b, refused, order
<1>4. /\ DOMAIN board' = BoardFields /\ board'.threshold = board.threshold
      /\ board'.inst = b.inst /\ board'.latest = b.latest
      /\ board'.observationError = (refused # {})
  BY <1>1, <1>3 DEF BoardFields
<1>5. /\ DOMAIN board'.inst = RuleIds \X Keys /\ DOMAIN board'.latest = RuleIds \X Keys
      /\ DOMAIN watched' = RuleIds \X Keys
  BY <1>1, <1>3, <1>4 DEF BoardShape
<1>6. ASSUME NEW ik \in RuleIds \X Keys, ik \in Touched(board, seen)
      PROVE  LET one == Evaluation(board, ik[2], RuleOf(ik[1]), seen[ik[2]]) IN
             /\ board'.inst[ik] = one.st
             /\ watched'[ik] = Append(watched[ik], seen[ik[2]])
             /\ ~Refuses(board, ik[2], seen[ik[2]]) => board'.latest[ik] = one.presentation
  BY <1>1, <1>3, <1>4, <1>6 DEF BoardShape
<1>7. ASSUME NEW ik \in RuleIds \X Keys, ik \notin Touched(board, seen)
      PROVE  board'.inst[ik] = board.inst[ik] /\ watched'[ik] = watched[ik]
  BY <1>1, <1>3, <1>4, <1>7 DEF BoardShape
<1> QED BY <1>2, <1>4, <1>5, <1>6, <1>7 DEF refused

\* What an evaluation says.
LEMMA EvaluationSays ==
  ASSUME NEW rule, NEW threshold, NEW st, NEW x
  PROVE  EvaluateSample(rule, threshold, st, x).presentation = "Suppressed" <=> x.state # "Live"
  BY DEF EvaluateSample, EvaluateActive, EvaluateInactive, Outcome

-----------------------------------------------------------------------------
(* The evidence of a transition                                            *)

Adjustment == Sample(None, None, "Adjusted")
Watches == Seq(Samples \cup {Adjustment})

\* A window that is open is backed by the last samples that were evaluated.
Backed(w, samples, rule, threshold, fires) ==
  /\ w \in [start : Nat, count : Nat]
  /\ \E m \in 1 .. Len(samples) :
       /\ samples[m].ts = w.start /\ w.count <= Len(samples) - m + 1
       /\ \A n \in m .. Len(samples) :
            samples[n].state = "Live" /\ Holds(rule, threshold, fires, samples[n].val)

WindowBacked(w, samples, rule, threshold, fires) ==
  w = None \/ Backed(w, samples, rule, threshold, fires)

\* A window that grows by a live sample that holds is backed.
LEMMA GrownBacked ==
  ASSUME NEW w, NEW samples \in Watches, NEW rule, NEW threshold, NEW fires, NEW x \in Samples,
         WindowBacked(w, samples, rule, threshold, fires),
         x.state = "Live", Holds(rule, threshold, fires, x.val)
  PROVE  Backed(Grown(w, x.ts), Append(samples, x), rule, threshold, fires)
<1> DEFINE l == Len(samples)
           ss == Append(samples, x)
<1>0. /\ l \in Nat /\ Len(ss) = l + 1 /\ ss[l + 1] = x
      /\ \A n \in 1 .. l : ss[n] = samples[n]
  BY DEF Watches
<1>1. x.ts \in Nat
  BY DEF Samples
<1> HIDE DEF ss
<1>2. CASE w = None
  <2>1. Grown(w, x.ts) = [start |-> x.ts, count |-> 1]
    BY <1>2 DEF Grown
  <2>2. \A n \in l + 1 .. Len(ss) : n = l + 1
    BY <1>0
  <2>3. l + 1 \in 1 .. Len(ss) /\ 1 <= Len(ss) - (l + 1) + 1
    BY <1>0
  <2> QED BY <1>0, <1>1, <2>1, <2>2, <2>3 DEF Backed, ss
<1>3. CASE w # None
  <2>1. w \in [start : Nat, count : Nat]
    BY <1>3 DEF WindowBacked, Backed
  <2>2. PICK m \in 1 .. l :
          /\ samples[m].ts = w.start /\ w.count <= l - m + 1
          /\ \A n \in m .. l :
               samples[n].state = "Live" /\ Holds(rule, threshold, fires, samples[n].val)
    BY <1>3 DEF WindowBacked, Backed
  <2>3. /\ Grown(w, x.ts) \in [start : Nat, count : Nat] /\ Grown(w, x.ts).start = w.start
        /\ Grown(w, x.ts).count <= w.count + 1 /\ Grown(w, x.ts).count \in Nat
    BY <1>3, <2>1 DEF Grown
  <2>4. m \in 1 .. Len(ss) /\ ss[m].ts = w.start /\ Grown(w, x.ts).count <= Len(ss) - m + 1
    <3>1. w.count \in Nat
      BY <2>1
    <3> QED BY <1>0, <2>2, <2>3, <3>1
  <2>5. ASSUME NEW n \in m .. Len(ss)
        PROVE  ss[n].state = "Live" /\ Holds(rule, threshold, fires, ss[n].val)
    <3>1. CASE n = l + 1
      BY <1>0, <3>1
    <3>2. CASE n # l + 1
      <4>1. n \in m .. l /\ n \in 1 .. l
        BY <1>0, <3>2
      <4> QED BY <1>0, <2>2, <4>1
    <3> QED BY <3>1, <3>2
  <2> QED BY <2>3, <2>4, <2>5 DEF Backed, ss
<1> QED BY <1>2, <1>3

\* A ripe window is the evidence that a transition needs.
LEMMA RipeSustained ==
  ASSUME NEW i \in DOMAIN Rules, NEW w, NEW samples \in Watches, NEW x \in Samples,
         NEW threshold, NEW fires,
         Backed(w, Append(samples, x), Rules[i], threshold, fires), Ripe(Rules[i], w, x.ts)
  PROVE  Sustained(Append(samples, x), Rules[i], threshold, fires)
<1> DEFINE ss == Append(samples, x)
<1>0. /\ Len(samples) \in Nat /\ Len(ss) = Len(samples) + 1 /\ ss[Len(ss)] = x
      /\ DOMAIN ss = 1 .. Len(ss)
  BY DEF Watches
<1>1. /\ Rules[i].window \in Nat /\ Rules[i].window > 0 /\ Rules[i].minLive \in Nat
  BY RulesAssumption DEF ValidRule
<1>2. x.ts \in Nat /\ w.start \in Nat /\ w.count \in Nat
  BY DEF Samples, Backed
<1> HIDE DEF ss
<1>3. PICK m \in 1 .. Len(ss) :
        /\ ss[m].ts = w.start /\ w.count <= Len(ss) - m + 1
        /\ \A n \in m .. Len(ss) :
             ss[n].state = "Live" /\ Holds(Rules[i], threshold, fires, ss[n].val)
  BY DEF Backed, ss
<1>4. x.ts - w.start >= Rules[i].window
  BY <1>1, <1>2 DEF Ripe, SatSub
<1>5. Len(ss) - m + 1 >= Rules[i].minLive
  BY <1>0, <1>1, <1>2, <1>3 DEF Ripe
<1> QED BY <1>0, <1>3, <1>4, <1>5 DEF Sustained, ss

\* An evaluation keeps the windows backed, and a transition has its evidence.
LEMMA EvaluationEarned ==
  ASSUME NEW i \in DOMAIN Rules, NEW threshold, NEW st, NEW samples \in Watches, NEW x \in Samples,
         DOMAIN st = InstFields,
         WindowBacked(st.trigger, samples, Rules[i], threshold, TRUE),
         WindowBacked(st.clear, samples, Rules[i], threshold, FALSE),
         NEW new, new = EvaluateSample(Rules[i], threshold, st, x).st
  PROVE  /\ DOMAIN new = InstFields
         /\ WindowBacked(new.trigger, Append(samples, x), Rules[i], threshold, TRUE)
         /\ WindowBacked(new.clear, Append(samples, x), Rules[i], threshold, FALSE)
         /\ new.active # st.active =>
              Sustained(Append(samples, x), Rules[i], threshold, new.active)
<1> DEFINE ss == Append(samples, x)
           none == NoWindows(st)
<1>1. DOMAIN none = InstFields /\ none.trigger = None /\ none.clear = None /\ none.active = st.active
  BY DEF NoWindows, InstFields
<1> HIDE DEF ss, none
<1>2. CASE new = none
  BY <1>1, <1>2 DEF WindowBacked
<1>3. CASE x.state = "Live" /\ st.active
  <2> DEFINE w == Grown(st.clear, x.ts)
  <2>1. CASE ~ClearHolds(Rules[i], threshold, x.val)
    <3>1. new = none
      BY <1>3, <2>1 DEF EvaluateSample, EvaluateActive, Outcome, none
    <3> QED BY <1>2, <3>1
  <2>2. CASE ClearHolds(Rules[i], threshold, x.val)
    <3>1. Backed(w, ss, Rules[i], threshold, FALSE)
      BY <1>3, <2>2, GrownBacked DEF Holds, ss
    <3> HIDE DEF w
    <3>2. CASE Ripe(Rules[i], w, x.ts) /\ DebounceSatisfied(Rules[i], st, x.ts)
      <4>1. new = [none EXCEPT !.active = FALSE, !.last = x.ts]
        BY <1>3, <2>2, <3>2 DEF EvaluateSample, EvaluateActive, Outcome, none, w
      <4>2. /\ DOMAIN new = InstFields /\ new.trigger = None /\ new.clear = None
            /\ new.active = FALSE
        BY <1>1, <4>1 DEF InstFields
      <4>3. Sustained(ss, Rules[i], threshold, FALSE)
        BY <3>1, <3>2, RipeSustained DEF ss
      <4> QED BY <4>2, <4>3 DEF WindowBacked, ss
    <3>3. CASE ~(Ripe(Rules[i], w, x.ts) /\ DebounceSatisfied(Rules[i], st, x.ts))
      <4>1. new = [none EXCEPT !.clear = w]
        BY <1>3, <2>2, <3>3 DEF EvaluateSample, EvaluateActive, Outcome, none, w
      <4>2. /\ DOMAIN new = InstFields /\ new.trigger = None /\ new.clear = w
            /\ new.active = st.active
        BY <1>1, <4>1 DEF InstFields
      <4> QED BY <3>1, <4>2 DEF WindowBacked, ss
    <3> QED BY <3>2, <3>3
  <2> QED BY <2>1, <2>2
<1>4. CASE x.state = "Live" /\ ~st.active
  <2> DEFINE w == Grown(st.trigger, x.ts)
  <2>1. CASE ~TriggerHolds(Rules[i], threshold, x.val) \/ ~DebounceSatisfied(Rules[i], st, x.ts)
    <3>1. new = none
      BY <1>4, <2>1 DEF EvaluateSample, EvaluateInactive, Outcome, none
    <3> QED BY <1>2, <3>1
  <2>2. CASE TriggerHolds(Rules[i], threshold, x.val) /\ DebounceSatisfied(Rules[i], st, x.ts)
    <3>1. Backed(w, ss, Rules[i], threshold, TRUE)
      BY <1>4, <2>2, GrownBacked DEF Holds, ss
    <3> HIDE DEF w
    <3>2. CASE Ripe(Rules[i], w, x.ts)
      <4>1. new = [none EXCEPT !.active = TRUE, !.last = x.ts]
        BY <1>4, <2>2, <3>2 DEF EvaluateSample, EvaluateInactive, Outcome, none, w
      <4>2. /\ DOMAIN new = InstFields /\ new.trigger = None /\ new.clear = None
            /\ new.active = TRUE
        BY <1>1, <4>1 DEF InstFields
      <4>3. Sustained(ss, Rules[i], threshold, TRUE)
        BY <3>1, <3>2, RipeSustained DEF ss
      <4> QED BY <4>2, <4>3 DEF WindowBacked, ss
    <3>3. CASE ~Ripe(Rules[i], w, x.ts)
      <4>1. new = [none EXCEPT !.trigger = w]
        BY <1>4, <2>2, <3>3 DEF EvaluateSample, EvaluateInactive, Outcome, none, w
      <4>2. /\ DOMAIN new = InstFields /\ new.trigger = w /\ new.clear = None
            /\ new.active = st.active
        BY <1>1, <4>1 DEF InstFields
      <4> QED BY <3>1, <4>2 DEF WindowBacked, ss
    <3> QED BY <3>2, <3>3
  <2> QED BY <2>1, <2>2
<1>5. CASE x.state # "Live"
  <2>1. new = none
    BY <1>5 DEF EvaluateSample, Outcome, none
  <2> QED BY <1>2, <2>1
<1> QED BY <1>3, <1>4, <1>5 DEF ss

-----------------------------------------------------------------------------
(* The alerts                                                              *)

EvidenceInv ==
  \A i \in DOMAIN Rules, k \in Keys :
    LET ik == <<Rules[i].id, k>>
        threshold == board.threshold[Rules[i].id]
    IN  /\ watched[ik] \in Watches
        /\ WindowBacked(board.inst[ik].trigger, watched[ik], Rules[i], threshold, TRUE)
        /\ WindowBacked(board.inst[ik].clear, watched[ik], Rules[i], threshold, FALSE)

AlertInv == BoardShape /\ EvidenceInv /\ AlertsAgreeWithCards

\* At the start no window is open, and no card is shown.
LEMMA AlertInit == Init => AlertInv
<1> SUFFICES ASSUME Init PROVE AlertInv OBVIOUS
<1>1. BoardShape
  BY RulesAssumption
     DEF Init, BoardShape, BoardFields, InstFields, NewBoard, NewInstance
<1>2. ASSUME NEW i \in DOMAIN Rules, NEW k \in Keys
      PROVE  /\ watched[<<Rules[i].id, k>>] = <<>>
             /\ board.inst[<<Rules[i].id, k>>] = NewInstance
  BY <1>2, RuleIsOne DEF Init, NewBoard
<1>3. EvidenceInv
  <2>1. <<>> \in Watches /\ NewInstance.trigger = None /\ NewInstance.clear = None
    BY DEF Watches, NewInstance
  <2> QED BY <1>2, <2>1 DEF EvidenceInv, WindowBacked
<1>4. AlertsAgreeWithCards
  BY DEF Init, NewPage, AlertsAgreeWithCards, Keys
<1> QED BY <1>1, <1>3, <1>4 DEF AlertInv

\* The evidence of one alert, before and after a step.
Earned(i, k) ==
  LET ik == <<Rules[i].id, k>>
      threshold == board'.threshold[Rules[i].id]
      new == board'.inst[ik]
  IN  /\ DOMAIN new = InstFields /\ watched'[ik] \in Watches
      /\ WindowBacked(new.trigger, watched'[ik], Rules[i], threshold, TRUE)
      /\ WindowBacked(new.clear, watched'[ik], Rules[i], threshold, FALSE)
      /\ new.active # board.inst[ik].active =>
           Sustained(watched'[ik], Rules[i], threshold, new.active)

\* A turn, whether it evaluates the rule or not.
LEMMA TurnEarned ==
  ASSUME TypedInv, AlertInv, NEW answer, NEW hAt, NEW gAt, TurnOf(answer, hAt, gAt),
         NEW i \in DOMAIN Rules, NEW k \in Keys
  PROVE  Earned(i, k)
<1> DEFINE ik == <<Rules[i].id, k>>
           samples == Monitored(hw', gpu')
           seen == Seen(gpu', board, samples)
           threshold == board.threshold[Rules[i].id]
<1>1. /\ watched[ik] \in Watches
      /\ WindowBacked(board.inst[ik].trigger, watched[ik], Rules[i], threshold, TRUE)
      /\ WindowBacked(board.inst[ik].clear, watched[ik], Rules[i], threshold, FALSE)
  BY DEF AlertInv, EvidenceInv
<1>2. ik \in RuleIds \X Keys /\ DOMAIN board.inst[ik] = InstFields
  BY RuleIsOne DEF AlertInv, BoardShape
<1>3. /\ \A l \in DOMAIN samples : samples[l] \in Samples
      /\ \A l \in DOMAIN seen : l \in DOMAIN samples /\ seen[l] = samples[l]
  <2>1. TypedInv' /\ IsReading(hw'.usage)
    BY TurnTyped DEF TurnOf
  <2> QED BY <2>1, MonitoredTyped DEF Seen, Reached
<1> HIDE DEF samples, seen, ik
<1>4. /\ board'.threshold = board.threshold
      /\ IF ik \in Touched(board, seen)
         THEN LET out == Evaluation(board, ik[2], RuleOf(ik[1]), seen[ik[2]]) IN
              board'.inst[ik] = out.st /\ watched'[ik] = Append(watched[ik], seen[ik[2]])
         ELSE board'.inst[ik] = board.inst[ik] /\ watched'[ik] = watched[ik]
  BY <1>2, TurnBoard DEF TurnOf, AlertInv, samples, seen
<1>5. CASE ik \in Touched(board, seen)
  <2> DEFINE x == seen[k]
             st == [board.inst[ik] EXCEPT !.seen = x.ts]
  <2>1. k \in DOMAIN seen /\ ik[2] = k /\ RuleOf(ik[1]) = i
    BY <1>5, RuleIsOne DEF Touched, ik
  <2>2. x \in Samples
    BY <1>3, <2>1
  <2>3. board'.inst[ik] = EvaluateSample(Rules[i], threshold, st, x).st
        /\ watched'[ik] = Append(watched[ik], x)
    BY <1>4, <1>5, <2>1 DEF Evaluation, ik
  <2>4. /\ DOMAIN st = InstFields /\ st.active = board.inst[ik].active
        /\ st.trigger = board.inst[ik].trigger /\ st.clear = board.inst[ik].clear
    BY <1>2 DEF InstFields
  <2> HIDE DEF x, st, threshold
  <2>5. /\ DOMAIN board'.inst[ik] = InstFields
        /\ WindowBacked(board'.inst[ik].trigger, Append(watched[ik], x), Rules[i], threshold, TRUE)
        /\ WindowBacked(board'.inst[ik].clear, Append(watched[ik], x), Rules[i], threshold, FALSE)
        /\ board'.inst[ik].active # st.active =>
             Sustained(Append(watched[ik], x), Rules[i], threshold, board'.inst[ik].active)
    BY <1>1, <2>2, <2>3, <2>4, EvaluationEarned
  <2>6. watched'[ik] \in Watches
    BY <1>1, <2>2, <2>3 DEF Watches
  <2> QED BY <1>4, <2>3, <2>4, <2>5, <2>6 DEF Earned, ik, threshold
<1>6. CASE ik \notin Touched(board, seen)
  BY <1>1, <1>2, <1>4, <1>6 DEF Earned, ik
<1> QED BY <1>5, <1>6

\* An adjusted threshold starts the evidence of its rule anew.
LEMMA AdjustEarned ==
  ASSUME AlertInv, AdjustThreshold, NEW i \in DOMAIN Rules, NEW k \in Keys
  PROVE  Earned(i, k) /\ board'.inst[<<Rules[i].id, k>>].active = board.inst[<<Rules[i].id, k>>].active
<1> DEFINE ik == <<Rules[i].id, k>>
           id == Rules[i].id
           old == board.inst[ik]
<1>1. PICK a \in Adjustments :
        /\ board' = AdjustedThreshold(board, Rules[a.rule], a.dTrigger, a.dClear)
        /\ watched' = [jl \in DOMAIN watched |->
                IF board'.threshold[jl[1]] # board.threshold[jl[1]]
                THEN Append(watched[jl], Adjustment) ELSE watched[jl]]
  BY DEF AdjustThreshold, Adjustment
<1>2. /\ watched[ik] \in Watches
      /\ WindowBacked(old.trigger, watched[ik], Rules[i], board.threshold[id], TRUE)
      /\ WindowBacked(old.clear, watched[ik], Rules[i], board.threshold[id], FALSE)
  BY DEF AlertInv, EvidenceInv
<1>3. ik \in RuleIds \X Keys /\ DOMAIN old = InstFields /\ id \in RuleIds /\ ik[1] = id
  BY RuleIsOne DEF AlertInv, BoardShape
<1>4. /\ DOMAIN board = BoardFields /\ DOMAIN board.inst = RuleIds \X Keys
      /\ RuleIds \subseteq DOMAIN board.threshold /\ DOMAIN watched = RuleIds \X Keys
  BY DEF AlertInv, BoardShape
<1> HIDE DEF ik, id
<1>5. watched'[ik] = IF board'.threshold[id] # board.threshold[id]
                     THEN Append(watched[ik], Adjustment) ELSE watched[ik]
  BY <1>1, <1>3, <1>4
<1>6. watched'[ik] \in Watches
  BY <1>2, <1>5 DEF Watches
<1>7. \/ board'.threshold[id] = board.threshold[id] /\ board'.inst[ik] = old
      \/ board'.inst[ik] = NoWindows(old)
  <2> DEFINE rule == Rules[a.rule]
             threshold == [trigger |-> board.threshold[rule.id].trigger + a.dTrigger,
                           clear   |-> board.threshold[rule.id].clear + a.dClear]
  <2>1. CASE ~ValidRule(rule, threshold)
    <3>1. board' = [board EXCEPT !.controlError = TRUE]
      BY <1>1, <2>1 DEF AdjustedThreshold
    <3> QED BY <1>4, <3>1 DEF BoardFields
  <2>2. CASE ValidRule(rule, threshold)
    <3>1. board' = [board EXCEPT
                     !.controlError = FALSE,
                     !.threshold[rule.id] = threshold,
                     !.inst = [jl \in DOMAIN @ |->
                                 IF jl[1] = rule.id THEN NoWindows(@[jl]) ELSE @[jl]]]
      BY <1>1, <2>2 DEF AdjustedThreshold
    <3> HIDE DEF threshold, rule
    <3>2. /\ board'.threshold = [board.threshold EXCEPT ![rule.id] = threshold]
          /\ board'.inst = [jl \in DOMAIN board.inst |->
                IF jl[1] = rule.id THEN NoWindows(board.inst[jl]) ELSE board.inst[jl]]
      BY <1>4, <3>1 DEF BoardFields
    <3>3. CASE id = rule.id
      BY <1>3, <1>4, <3>2, <3>3
    <3>4. CASE id # rule.id
      BY <1>3, <1>4, <3>2, <3>4
    <3> QED BY <3>3, <3>4
  <2> QED BY <2>1, <2>2
<1>8. CASE board'.threshold[id] = board.threshold[id] /\ board'.inst[ik] = old
  BY <1>2, <1>3, <1>5, <1>6, <1>8 DEF Earned, ik, id
<1>9. CASE board'.inst[ik] = NoWindows(old)
  <2>1. /\ DOMAIN NoWindows(old) = InstFields /\ NoWindows(old).active = old.active
        /\ NoWindows(old).trigger = None /\ NoWindows(old).clear = None
    BY <1>3 DEF NoWindows, InstFields
  <2> QED BY <1>6, <1>9, <2>1 DEF Earned, WindowBacked, ik
<1> QED BY <1>7, <1>8, <1>9 DEF ik

\* An adjusted threshold leaves the fields of the board.
LEMMA AdjustShape ==
  ASSUME BoardShape, AdjustThreshold
  PROVE  /\ DOMAIN board' = BoardFields
         /\ DOMAIN board'.inst = RuleIds \X Keys /\ DOMAIN board'.latest = RuleIds \X Keys
         /\ RuleIds \subseteq DOMAIN board'.threshold
         /\ DOMAIN watched' = RuleIds \X Keys
<1>1. PICK a \in Adjustments :
        /\ board' = AdjustedThreshold(board, Rules[a.rule], a.dTrigger, a.dClear)
        /\ DOMAIN watched' = DOMAIN watched
  BY DEF AdjustThreshold
<1>2. /\ DOMAIN board' = BoardFields /\ DOMAIN board'.inst = DOMAIN board.inst
      /\ board'.latest = board.latest /\ DOMAIN board'.threshold = DOMAIN board.threshold
  BY <1>1 DEF AdjustedThreshold, BoardShape, BoardFields
<1> QED BY <1>1, <1>2 DEF BoardShape

\* What every alert has earned is the evidence after the step.
LEMMA EarnedEvidence ==
  ASSUME \A i \in DOMAIN Rules, k \in Keys : Earned(i, k)
  PROVE  EvidenceInv' /\ \A ik \in RuleIds \X Keys : DOMAIN board'.inst[ik] = InstFields
<1>1. EvidenceInv'
  BY DEF EvidenceInv, Earned
<1>2. ASSUME NEW ik \in RuleIds \X Keys PROVE DOMAIN board'.inst[ik] = InstFields
  <2>1. PICK i \in DOMAIN Rules : ik[1] = Rules[i].id
    BY DEF RuleIds
  <2>2. ik = <<Rules[i].id, ik[2]>> /\ ik[2] \in Keys
    BY <2>1
  <2> QED BY <2>2 DEF Earned
<1> QED BY <1>1, <1>2

\* The cards and the alerts that one turn publishes.
LEMMA TurnAgrees ==
  ASSUME TypedInv, BoardShape, NEW answer, NEW hAt, NEW gAt, TurnOf(answer, hAt, gAt)
  PROVE  AlertsAgreeWithCards'
<1> DEFINE samples == Monitored(hw', gpu')
           seen == Seen(gpu', board, samples)
<1>1. /\ page'.usage = hw'.usage /\ page'.adapters = gpu'.previous
      /\ page'.alerts = board'
  BY DEF TurnOf, Turn
<1> SUFFICES ASSUME ~board'.observationError, NEW i \in DOMAIN Rules, NEW k \in Keys,
                    NEW card,
                    card = IF k = Cpu THEN hw'.usage
                           ELSE IF gpu'.previous[k] = None THEN None ELSE gpu'.previous[k].temp,
                    Rules[i].metric = MetricOf(k), card # None
             PROVE  board'.latest[<<Rules[i].id, k>>] = "Suppressed" <=> card.kind # "Live"
  BY <1>1 DEF AlertsAgreeWithCards
<1> DEFINE ik == <<Rules[i].id, k>>
<1>2. ik \in RuleIds \X Keys /\ ik[1] = Rules[i].id /\ ik[2] = k /\ RuleOf(ik[1]) = i
  BY RuleIsOne
<1>3. k \in DOMAIN samples /\ samples[k] = SampleOf(card)
  BY DEF Monitored, P!Adapters, Keys
<1> HIDE DEF samples, seen, ik
<1>4. {l \in DOMAIN samples : Refuses(board, l, samples[l])} = {}
  BY TurnBoard DEF TurnOf, samples
<1>5. k \in DOMAIN seen /\ seen[k] = samples[k] /\ ~Refuses(board, k, seen[k])
  BY <1>3, <1>4 DEF seen, Seen, Reached
<1>6. ik \in Touched(board, seen)
  <2>1. i \in Evaluated(board, k, seen[k])
    BY <1>5 DEF Evaluated, Matching, Refuses
  <2> QED BY <1>2, <1>5, <2>1 DEF Touched
<1>7. board'.latest[ik] = Evaluation(board, k, i, seen[k]).presentation
  BY <1>2, <1>5, <1>6, TurnBoard DEF TurnOf, samples, seen
<1>8. board'.latest[ik] = "Suppressed" <=> seen[k].state # "Live"
  BY <1>7, EvaluationSays DEF Evaluation
<1> QED BY <1>3, <1>5, <1>8 DEF SampleOf, Sample, ik

\* Every step keeps the evidence, and every transition had it.
LEMMA AlertStep ==
  ASSUME TypedInv, AlertInv, [Next]_vars
  PROVE  AlertInv' /\ (UNCHANGED vars \/ \A i \in DOMAIN Rules, k \in Keys : Earned(i, k))
<1>1. CASE SampleAll \/ SampleWhileSetBack
  <2>1. PICK answer, hAt, gAt : TurnOf(answer, hAt, gAt)
    BY <1>1, SampleIsTurn DEF TypedInv
  <2>2. \A i \in DOMAIN Rules, k \in Keys : Earned(i, k)
    BY <2>1, TurnEarned
  <2>3. AlertsAgreeWithCards'
    BY <2>1, TurnAgrees DEF AlertInv
  <2>4. /\ DOMAIN board' = BoardFields
        /\ DOMAIN board'.inst = RuleIds \X Keys /\ DOMAIN board'.latest = RuleIds \X Keys
        /\ RuleIds \subseteq DOMAIN board'.threshold
        /\ DOMAIN watched' = RuleIds \X Keys
    BY <2>1, TurnBoard DEF TurnOf, AlertInv, BoardShape
  <2> QED BY <2>2, <2>3, <2>4, EarnedEvidence DEF AlertInv, BoardShape
<1>2. CASE AdjustThreshold
  <2>1. \A i \in DOMAIN Rules, k \in Keys : Earned(i, k)
    BY <1>2, AdjustEarned
  <2>2. AlertsAgreeWithCards'
    BY <1>2 DEF AdjustThreshold, AlertInv, AlertsAgreeWithCards
  <2> QED BY <1>2, <2>1, <2>2, AdjustShape, EarnedEvidence DEF AlertInv, BoardShape
<1>3. CASE UNCHANGED vars
  BY <1>3 DEF vars, AlertInv, BoardShape, EvidenceInv, AlertsAgreeWithCards
<1> QED BY <1>1, <1>2, <1>3 DEF Next

AlertsInv == TypedInv /\ AlertInv

\* The invariant of the alerts, with the types it needs.
LEMMA AlertsInvariant == Spec => []AlertsInv
<1>1. Init => AlertsInv
  BY TypedInit, AlertInit DEF AlertsInv
<1>2. AlertsInv /\ [Next]_vars => AlertsInv'
  BY TypedStep, AlertStep DEF AlertsInv
<1> QED BY <1>1, <1>2, PTL DEF Spec

\* Cards and alerts of one page agree, for any rules and adapters
\* (AlertEngine::observe, observe_one).
THEOREM AgreementCorrect == Spec => []AlertsAgreeWithCards
<1>1. AlertsInv => AlertsAgreeWithCards
  BY DEF AlertsInv, AlertInv
<1> QED BY <1>1, AlertsInvariant, PTL

EarnedStep ==
  \A i \in DOMAIN Rules, k \in Keys :
    LET ik == <<Rules[i].id, k>> IN
    board'.inst[ik].active # board.inst[ik].active =>
      Sustained(watched'[ik], Rules[i], board'.threshold[Rules[i].id], board'.inst[ik].active)

\* An alert fires and resolves on sustained live evidence only, under the
\* threshold of the moment, however the clock is set back and the thresholds are
\* adjusted (evaluate_live, update_threshold).
THEOREM EarnedCorrect == Spec => AlertsAreEarned
<1>1. AlertsInv /\ [Next]_vars => [EarnedStep]_vars
  <2> SUFFICES ASSUME AlertsInv, [Next]_vars PROVE UNCHANGED vars \/ EarnedStep
    OBVIOUS
  <2>1. UNCHANGED vars \/ \A i \in DOMAIN Rules, k \in Keys : Earned(i, k)
    BY AlertStep DEF AlertsInv
  <2> QED BY <2>1 DEF EarnedStep, Earned
<1>2. Spec => [][EarnedStep]_vars
  BY <1>1, AlertsInvariant, PTL DEF Spec
<1> QED BY <1>2 DEF AlertsAreEarned, EarnedStep
=============================================================================
