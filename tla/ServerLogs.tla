------------------------------ MODULE ServerLogs ------------------------------
(***************************************************************************)
(* The output of the managed server (server_logs.rs): for each start a     *)
(* capture with a bounded ring in memory and a bounded file on disk, two   *)
(* threads that drain the pipes of the process into it (server_process.rs),*)
(* and a pump that copies snapshots into what the page shows               *)
(* (server_ui_clean.rs).  The captures of all starts on one port share one *)
(* file.  A line is its length; the lifecycle around it is ServerLifecycle.*)
(***************************************************************************)
EXTENDS Integers, Sequences, SequencesExt, FiniteSets, FiniteSetsExt

CONSTANTS
    Streams,        \* stdout and stderr
    Sizes,          \* lengths of a line
    Heading,        \* what encode_entry adds to a line
    Retention,      \* retention_limit_bytes of the ring
    DiskRetention,  \* retention_limit_bytes of the file
    MaxStarts,      \* bound: servers
    MaxLines,       \* bound: lines that are pushed
    MaxFailures     \* bound: failures of the disk, of a pipe and of a spawn

ASSUME LogsAssumption ==
    /\ Sizes \subseteq Nat \ {0} /\ Sizes # {} /\ Heading \in Nat
    /\ Retention \in Nat \ {0} /\ DiskRetention \in Nat \ {0}

Starts == 1..MaxStarts

VARIABLES
    alive,      \* the starts whose process has not exited
    captures,   \* start -> ServerLogCapture
    drains,     \* start, stream -> the thread
    file,       \* [bytes, disturbed]
    page,       \* ServerUiState: [generation, owned, logs]
    starting,   \* run_start: [at, start]
    pumps,      \* start -> the thread
    spent       \* [lines, failures]

vars == <<alive, captures, drains, file, page, starting, pumps, spent>>

NewCapture(bytes) ==
    [entries |-> <<>>, retained |-> 0, next |-> 0, evicted |-> 0,
     current |-> bytes]

(* What a snapshot tells of a capture: whose it is and how far it goes.    *)
Snapshot(g) == [start |-> g, next |-> captures[g].next]
Nothing == [start |-> 0, next |-> 0]

Idle == [at |-> "idle", start |-> 0]

Threads(pc) == [s \in Streams |-> [pc |-> pc, bytes |-> 0]]

Init ==
    /\ alive = {}
    /\ captures = [g \in Starts |-> NewCapture(0)]
    /\ drains = [g \in Starts |-> Threads("none")]
    /\ file = [bytes |-> 0, disturbed |-> FALSE]
    /\ page = [generation |-> 0, owned |-> FALSE, logs |-> Nothing]
    /\ starting = Idle
    /\ pumps = [g \in Starts |-> [pc |-> "none", keep |-> FALSE, logs |-> Nothing]]
    /\ spent = [lines |-> 0, failures |-> 0]

Spends(lines, failures) ==
    /\ spent.lines + lines <= MaxLines /\ spent.failures + failures <= MaxFailures
    /\ spent' = [lines |-> spent.lines + lines, failures |-> spent.failures + failures]

-----------------------------------------------------------------------------
(* The process.  What it wrote before it exited may still be in its pipes. *)

Exit(g) ==
    /\ g \in alive
    /\ alive' = alive \ {g}
    /\ UNCHANGED <<captures, drains, file, page, starting, pumps, spent>>

-----------------------------------------------------------------------------
(* The page.                                                               *)

(* run_start opens the capture: the size of the file is read here, while   *)
(* the drains of an earlier server may still have lines for that file.     *)
OpenCapture ==
    LET g == page.generation + 1 IN
    /\ ~page.owned /\ starting = Idle /\ g \in Starts
    /\ captures' = [captures EXCEPT ![g] = NewCapture(file.bytes)]
    /\ drains' = [drains EXCEPT ![g] = Threads("open")]
    /\ starting' = [at |-> "spawn", start |-> g]
    /\ UNCHANGED <<alive, file, page, pumps, spent>>

(* start_server_with_log_capture: the process and its drains.              *)
SpawnServer ==
    LET g == starting.start IN
    /\ starting.at = "spawn"
    /\ alive' = alive \cup {g}
    /\ drains' = [drains EXCEPT ![g] = Threads("read")]
    /\ starting' = [starting EXCEPT !.at = "adopt"]
    /\ UNCHANGED <<captures, file, page, pumps, spent>>

(* It fails, and the capture is dropped.                                   *)
SpawnFails ==
    /\ starting.at = "spawn" /\ Spends(0, 1)
    /\ drains' = [drains EXCEPT ![starting.start] = Threads("none")]
    /\ starting' = Idle
    /\ UNCHANGED <<alive, captures, file, page, pumps>>

(* The page takes the process over, which may have written and exited, and *)
(* the pump is spawned.                                                    *)
Adopt ==
    LET g == starting.start IN
    /\ starting.at = "adopt"
    /\ page' = [generation |-> g, owned |-> TRUE, logs |-> Snapshot(g)]
    /\ pumps' = [pumps EXCEPT ![g].pc = "decide"]
    /\ starting' = [starting EXCEPT !.at = "readiness"]
    /\ UNCHANGED <<alive, captures, drains, file, spent>>

(* The end of wait_for_server_ready, whatever came of it.                  *)
ReadinessEnds ==
    /\ starting.at = "readiness"
    /\ page' = [page EXCEPT !.logs = Snapshot(starting.start)]
    /\ starting' = Idle
    /\ UNCHANGED <<alive, captures, drains, file, pumps, spent>>

(* The process was seen to have exited: by the monitor, which leaves the   *)
(* logs to the pump, or by a stop or a kill, which takes a last snapshot.  *)
Disown ==
    /\ page.owned /\ page.generation \notin alive
    /\ \E logs \in {page.logs, Snapshot(page.generation)} :
         page' = [page EXCEPT !.owned = FALSE, !.logs = logs]
    /\ UNCHANGED <<alive, captures, drains, file, starting, pumps, spent>>

-----------------------------------------------------------------------------
(* ServerLogBuffer::push: a line longer than the ring loses its beginning, *)
(* and the oldest entries make room.                                       *)

Bytes(entries) == FoldSeq(LAMBDA entry, sum : entry.bytes + sum, 0, entries)
Truncated(bytes) == Min({bytes, Retention})

(* How many entries go: the fewest that leave room.                        *)
Evicted(capture, bytes) ==
    CHOOSE n \in 0..Len(capture.entries) :
        /\ Bytes(SubSeq(capture.entries, n + 1, Len(capture.entries))) + bytes <= Retention
        /\ \A k \in 0..(n - 1) :
             Bytes(SubSeq(capture.entries, k + 1, Len(capture.entries))) + bytes > Retention

Pushed(capture, length) ==
    LET bytes == Truncated(length)
        n == Evicted(capture, bytes)
    IN  [capture EXCEPT
            !.entries = Append(SubSeq(@, n + 1, Len(@)), [sequence |-> capture.next,
                                                         bytes |-> bytes]),
            !.retained = @ - Bytes(SubSeq(capture.entries, 1, n)) + bytes,
            !.next = @ + 1, !.evicted = @ + n]

(* spawn_log_drain: a line is read and pushed.                             *)
Drain(g, s) ==
    /\ drains[g][s].pc = "read" /\ Spends(1, 0)
    /\ \E length \in Sizes :
        /\ captures' = [captures EXCEPT ![g] = Pushed(@, length)]
        /\ drains' = [drains EXCEPT ![g][s] =
                [pc |-> "append", bytes |-> Truncated(length) + Heading]]
    /\ UNCHANGED <<alive, file, page, starting, pumps>>

(* The pipe cannot be read: a line that says so is the last.               *)
DrainBreaks(g, s) ==
    /\ drains[g][s].pc = "read" /\ Spends(1, 1)
    /\ captures' = [captures EXCEPT ![g] = Pushed(@, Min(Sizes))]
    /\ drains' = [drains EXCEPT ![g][s] =
            [pc |-> "appendLast", bytes |-> Truncated(Min(Sizes)) + Heading]]
    /\ UNCHANGED <<alive, file, page, starting, pumps>>

DrainEnds(g, s) ==
    /\ drains[g][s].pc = "read" /\ g \notin alive
    /\ drains' = [drains EXCEPT ![g][s] = [pc |-> "done", bytes |-> 0]]
    /\ UNCHANGED <<alive, captures, file, page, starting, pumps, spent>>

-----------------------------------------------------------------------------
(* BoundedServerLogFile::append, under the lock of the capture's file.     *)

Encoded(g, s) == Min({drains[g][s].bytes, DiskRetention})
Rotates(g, s) == captures[g].current + Encoded(g, s) > DiskRetention

Appended(g, s) ==
    drains' = [drains EXCEPT ![g][s] =
        [pc |-> IF @.pc = "append" THEN "read" ELSE "done", bytes |-> 0]]

(* The captures of other starts that are open still.                       *)
Overlaps(g) == \E h \in Starts \ {g}, s \in Streams : drains[h][s].pc \notin {"none", "done"}

(* Mutant: what was written to the file is not counted.                    *)
AppendUncounted(g, s) ==
    LET kept == IF Rotates(g, s) THEN 0 ELSE file.bytes IN
    /\ drains[g][s].pc \in {"append", "appendLast"}
    /\ file' = [bytes |-> kept + Encoded(g, s), disturbed |-> file.disturbed \/ Overlaps(g)]
    /\ captures' = [captures EXCEPT ![g].current = IF Rotates(g, s) THEN 0 ELSE @]
    /\ Appended(g, s)
    /\ UNCHANGED <<alive, page, starting, pumps, spent>>

AppendLine(g, s) ==
    LET kept == IF Rotates(g, s) THEN 0 ELSE file.bytes IN
    /\ drains[g][s].pc \in {"append", "appendLast"}
    /\ file' = [bytes |-> kept + Encoded(g, s), disturbed |-> file.disturbed \/ Overlaps(g)]
    /\ captures' = [captures EXCEPT ![g].current =
            (IF Rotates(g, s) THEN 0 ELSE @) + Encoded(g, s)]
    /\ Appended(g, s)
    /\ UNCHANGED <<alive, page, starting, pumps, spent>>

(* The file cannot be opened, or a part of the line is written: of what was*)
(* done the capture remembers only that it wanted to begin anew.           *)
AppendFails(g, s) ==
    /\ drains[g][s].pc \in {"append", "appendLast"} /\ Spends(0, 1)
    /\ \/ file' = [file EXCEPT !.disturbed = TRUE]
       \/ \E part \in {0, Encoded(g, s) - 1} :
            file' = [bytes |-> (IF Rotates(g, s) THEN 0 ELSE file.bytes) + part,
                     disturbed |-> TRUE]
    /\ captures' = [captures EXCEPT
            ![g].current = IF Rotates(g, s) THEN 0 ELSE @]
    /\ Appended(g, s)
    /\ UNCHANGED <<alive, page, starting, pumps>>

DrainStep(g, s) ==
    \/ Drain(g, s) \/ DrainBreaks(g, s) \/ DrainEnds(g, s) \/ AppendLine(g, s) \/ AppendFails(g, s)

-----------------------------------------------------------------------------
(* spawn_log_pump: whether to go on is read first, then the snapshot is    *)
(* taken, then the page is written; after the last round the pump ends.    *)

PumpDecides(g) ==
    /\ pumps[g].pc = "decide"
    /\ pumps' = [pumps EXCEPT ![g] =
            [pc |-> "read", keep |-> page.generation = g /\ page.owned, logs |-> Nothing]]
    /\ UNCHANGED <<alive, captures, drains, file, page, starting, spent>>

PumpReads(g) ==
    /\ pumps[g].pc = "read"
    /\ pumps' = [pumps EXCEPT ![g].pc = "write", ![g].logs = Snapshot(g)]
    /\ UNCHANGED <<alive, captures, drains, file, page, starting, spent>>

(* Mutant: the pump ends after its first round.                            *)
PumpWritesOnce(g) ==
    /\ pumps[g].pc = "write"
    /\ page' = [page EXCEPT !.logs = pumps[g].logs]
    /\ pumps' = [pumps EXCEPT ![g] = [pc |-> "done", keep |-> FALSE, logs |-> Nothing]]
    /\ UNCHANGED <<alive, captures, drains, file, starting, spent>>

PumpWrites(g) ==
    /\ pumps[g].pc = "write"
    /\ page' = [page EXCEPT !.logs = pumps[g].logs]
    /\ pumps' = [pumps EXCEPT ![g] =
            [pc |-> IF pumps[g].keep THEN "decide" ELSE "done", keep |-> FALSE, logs |-> Nothing]]
    /\ UNCHANGED <<alive, captures, drains, file, starting, spent>>

Pump(g) == PumpDecides(g) \/ PumpReads(g) \/ PumpWrites(g)

Next ==
    \/ OpenCapture \/ SpawnServer \/ SpawnFails \/ Adopt \/ ReadinessEnds \/ Disown
    \/ \E g \in Starts :
        \/ Exit(g) \/ Pump(g)
        \/ \E s \in Streams : DrainStep(g, s)

Spec == Init /\ [][Next]_vars

(* The pump sleeps 180 ms and goes on; the page is never locked for long.  *)
FairSpec == Spec /\ \A g \in Starts : WF_vars(Pump(g))

-----------------------------------------------------------------------------
(* The file stays within its limit, through rotations and the captures of  *)
(* one server after another, as long as no two of them write at a time and *)
(* no write fails (BoundedServerLogFile::append).                          *)
FileIsBounded == ~file.disturbed => file.bytes <= DiskRetention

(* While a server is the page's own, the page catches up with what was     *)
(* captured of it, although the pump of an earlier server may write over   *)
(* it once more (spawn_log_pump).                                          *)
Behind == page.owned /\ page.logs # Snapshot(page.generation)
PageCatchesUp == Behind ~> ~Behind
=============================================================================
