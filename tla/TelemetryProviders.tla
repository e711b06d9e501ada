------------------------- MODULE TelemetryProviders -------------------------
(***************************************************************************)
(* The two providers the telemetry worker samples: hardware_telemetry.rs   *)
(* (processor and memory) and gpu_telemetry.rs (NVML adapters).  Each      *)
(* keeps the readings of its last snapshot: a query that fails now is      *)
(* answered with the last value, marked stale, and the time at which that  *)
(* value was live.  A reading is [kind, val, obs, at].                     *)
(***************************************************************************)
EXTENDS Integers, Sequences, FiniteSets, SequencesExt

CONSTANTS
    None,
    Devices,    \* NVML indices of the adapters
    Uuids       \* their UUIDs

(* An adapter is known by its UUID, or by its index when the UUID query    *)
(* fails.  A UUID can move to another index, and one index can stand for   *)
(* several devices in turn.                                                *)
Identities == ({"uuid"} \X Uuids) \cup ({"index"} \X Devices)

Reading(kind, val, obs, at) == [kind |-> kind, val |-> val, obs |-> obs, at |-> at]

LiveReading(val, at) == Reading("Live", val, None, at)
UnavailableReading(at) == Reading("Unavailable", None, None, at)

(* Mutant: a reading that stays stale is dated anew.                       *)
FailedOrStaleDatedAnew(previous, at) ==
    IF previous = None \/ previous.kind \notin {"Live", "Stale"}
    THEN Reading("Error", None, None, at)
    ELSE Reading("Stale", previous.val, previous.at, at)

(* failed_or_stale_reading, stale_or_error: a failed query.                *)
FailedOrStale(previous, at) ==
    IF previous = None \/ previous.kind \notin {"Live", "Stale"}
    THEN Reading("Error", None, None, at)
    ELSE Reading("Stale", previous.val,
                 IF previous.kind = "Live" THEN previous.at ELSE previous.obs, at)

(* stale_reading: the adapter of the reading was not enumerated.           *)
StaleReading(previous, at) ==
    IF previous.kind \in {"Live", "Stale"} THEN FailedOrStale(previous, at)
    ELSE Reading(previous.kind, None, None, at)

-----------------------------------------------------------------------------
(* WindowsHardwareTelemetryProvider.  The processor counters are taken as  *)
(* the number of processors they cover; what two of them say of the time   *)
(* between them is an input: a usage, or None for a delta that is refused  *)
(* (a counter that moved backwards or did not move).                       *)

NewHardware == [times |-> None, usage |-> None, memory |-> None]

CpuUsage(hw, cpu, at) ==
    CASE cpu = None -> FailedOrStale(hw.usage, at)
      [] cpu # None /\ (hw.times # cpu.processors \/ cpu.usage = None) -> UnavailableReading(at)
      [] OTHER -> LiveReading(cpu.usage, at)

(* query_memory and platform_memory: None for a failed query and for more  *)
(* available than total memory.                                            *)
MemoryReading(hw, memory, at) ==
    IF memory = None THEN FailedOrStale(hw.memory, at) ELSE LiveReading(memory, at)

SampleHardware(hw, cpu, memory, at) ==
    [times  |-> IF cpu = None THEN hw.times ELSE cpu.processors,
     usage  |-> CpuUsage(hw, cpu, at),
     memory |-> MemoryReading(hw, memory, at)]

-----------------------------------------------------------------------------
(* GpuTelemetryCollector over the NVML backend.  A metric query answers    *)
(* [result, val] with an NVML result class; the library is loaded by the   *)
(* first sample that can load it and is kept from then on.                 *)

NewGpu == [loaded |-> FALSE, previous |-> [i \in Identities |-> None], count |-> None]

(* metric_result and convert_metric.                                       *)
MetricReading(metric, previous, at) ==
    CASE metric.result = "Success" -> LiveReading(metric.val, at)
      [] metric.result = "NotSupported" -> UnavailableReading(at)
      [] OTHER -> FailedOrStale(previous, at)

(* GpuAdapterIdentity::key. *)
IdentityOf(device, answer) ==
    IF answer.uuid = None THEN <<"index", device>> ELSE <<"uuid", answer.uuid>>

ConvertAdapter(gpu, identity, device, answer, at) ==
    LET previous == gpu.previous[identity] IN
    [index |-> device,
     util |-> MetricReading(answer.util, IF previous = None THEN None ELSE previous.util, at),
     temp |-> MetricReading(answer.temp, IF previous = None THEN None ELSE previous.temp, at)]

StaleAdapter(previous, at) ==
    [index |-> previous.index,
     util |-> StaleReading(previous.util, at), temp |-> StaleReading(previous.temp, at)]

(* provider_failure: the library cannot be loaded, the count or a handle   *)
(* query fails.  Every known adapter is carried on as stale.               *)
ProviderFailure(gpu, at) ==
    [gpu EXCEPT !.previous = [i \in Identities |->
        IF @[i] = None THEN None ELSE StaleAdapter(@[i], at)]]

(* The readings of the enumerated adapters, and a stale reading for every  *)
(* known adapter that was not enumerated.                                  *)
Enumerated(gpu, answers, at) ==
    LET named(i) == {d \in DOMAIN answers : IdentityOf(d, answers[d]) = i}
        device(i) == CHOOSE d \in named(i) : TRUE
    IN
    [loaded   |-> TRUE,
     previous |-> [i \in Identities |->
        IF named(i) # {} THEN ConvertAdapter(gpu, i, device(i), answers[device(i)], at)
        ELSE IF gpu.previous[i] = None THEN None
        ELSE StaleAdapter(gpu.previous[i], at)],
     count    |-> [val |-> Cardinality(DOMAIN answers), at |-> at]]

(* An input says whether nvml.dll can be loaded, whether the devices can   *)
(* be enumerated, what the enumerated devices answer, and which class the  *)
(* result code of a failure has (provider_error).                          *)
Answered(gpu, input) == (gpu.loaded \/ input.library) /\ input.enumerates

SampleGpu(gpu, input, at) ==
    IF Answered(gpu, input) THEN Enumerated(gpu, input.answers, at)
    ELSE [ProviderFailure(gpu, at) EXCEPT !.loaded = @ \/ input.library]

(* provider_adapter_count of the snapshot.                                 *)
AdapterCount(gpu, input, at) ==
    CASE Answered(gpu, input) -> LiveReading(Cardinality(DOMAIN input.answers), at)
      [] ~Answered(gpu, input) /\ gpu.count # None ->
            Reading("Stale", gpu.count.val, gpu.count.at, at)
      [] OTHER -> Reading(input.failure, None, None, at)

(* The adapters of the snapshot, in the order of their indices; of one     *)
(* index, the order of a stable sort after a hash map, taken as fixed:     *)
(* adapters with a UUID first, in the order of their UUIDs.                *)
Adapters(gpu) == {i \in Identities : gpu.previous[i] # None}

Before(gpu, i, j) ==
    LET at(k) == gpu.previous[k].index IN
    \/ at(i) < at(j)
    \/ at(i) = at(j) /\ i[1] = "uuid" /\ (j[1] = "index" \/ i[2] < j[2])
=============================================================================
