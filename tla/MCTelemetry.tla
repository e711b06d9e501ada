----------------------------- MODULE MCTelemetry -----------------------------
(* An adapter that moves to a second index while another device, whose     *)
(* UUID query fails, takes the first; two rules as in default_rules, a     *)
(* sample a second and now and then a late one.                            *)
EXTENDS Telemetry, TLC

MCDevices == {1, 2}
MCUuids == {7}

CpuRule == [id |-> "cpu", metric |-> "cpu.total_usage", above |-> TRUE,
            window |-> 1, debounce |-> 3, minLive |-> 2, low |-> 0, high |-> 4]
GpuRule == [id |-> "gpu", metric |-> "gpu.temperature", above |-> TRUE,
            window |-> 2, debounce |-> 1, minLive |-> 2, low |-> 0, high |-> 4]
MCRules == <<CpuRule, GpuRule>>
MCDefaultThreshold == [id \in {"cpu", "gpu"} |-> [trigger |-> 3, clear |-> 1]]
Ok(v) == [result |-> "Success", val |-> v]
NotSupported == [result |-> "NotSupported", val |-> None]
Fails == [result |-> "Error", val |-> None]
In(delay, cpu, memory, library, enumerates, answers) ==
    [delay |-> delay, cpu |-> cpu, memory |-> memory,
     gpu |-> [library |-> library, enumerates |-> enumerates, answers |-> answers,
             failure |-> "Unavailable"]]
Counters(n, usage) == [processors |-> n, usage |-> usage]
Adapter(uuid, util, temp) == 1 :> [uuid |-> uuid, util |-> util, temp |-> temp]
Moved(answers, util, temp) == answers @@ 2 :> [uuid |-> 7, util |-> util, temp |-> temp]

MCAnswers ==
    {In(1, Counters(2, 3), 1, TRUE, TRUE, Adapter(7, Ok(1), Ok(1))),
     In(2, Counters(2, 3), 1, TRUE, TRUE, Adapter(7, Ok(1), Ok(1))),
     In(1, Counters(2, 1), None, TRUE, TRUE, Adapter(7, Ok(2), Ok(3))),
     In(1, None, 1, FALSE, TRUE, <<>>),
     In(2, Counters(1, 3), 1, TRUE, TRUE, Moved(Adapter(None, NotSupported, Fails), Ok(2), Ok(3)))}

(* A host and an adapter that answer every second, for MissingGapsAreReal. *)
MCSteadyAnswers ==
    {In(1, Counters(2, u), 1, TRUE, TRUE, Adapter(7, Ok(1), Ok(1))) : u \in {1, 3}}

MCAdjustments ==
    {[rule |-> 1, dTrigger |-> 1, dClear |-> 0], [rule |-> 2, dTrigger |-> 0, dClear |-> 1]}
=============================================================================
