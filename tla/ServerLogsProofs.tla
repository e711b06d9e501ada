---------------------------- MODULE ServerLogsProofs ----------------------------
(***************************************************************************)
(* Proofs about ServerLogs, for any number of starts, lines and failures,  *)
(* any lengths of lines and any limits.                                    *)
(***************************************************************************)
EXTENDS ServerLogs, WellFoundedInduction, TLAPS

-----------------------------------------------------------------------------
(* The inductive invariant                                                 *)

CaptureFields == {"entries", "retained", "next", "evicted", "current"}
Drains == [pc : {"none", "open", "read", "append", "appendLast", "done"}, bytes : Nat]

\* The types of what the file depends on.
FileType ==
  /\ file \in [bytes : Nat, disturbed : BOOLEAN]
  /\ DOMAIN captures = Starts
  /\ \A g \in Starts : DOMAIN captures[g] = CaptureFields /\ captures[g].current \in Nat
  /\ drains \in [Starts -> [Streams -> Drains]]

Appending(g, s) == drains[g][s].pc \in {"append", "appendLast"}
Draining(g, s) == drains[g][s].pc \notin {"none", "done"}

\* An encoded line is never empty.
LinesInv == \A g \in Starts, s \in Streams : Appending(g, s) => drains[g][s].bytes # 0

\* While nothing disturbs the file it is within its limit, and every capture
\* that may still write to it knows its size.
KnownInv ==
  ~file.disturbed =>
    /\ file.bytes <= DiskRetention
    /\ \A g \in Starts, s \in Streams : Draining(g, s) => captures[g].current = file.bytes

\* A capture that waits for its process has not been written to.
OpenInv ==
  /\ DOMAIN starting = {"at", "start"}
  /\ starting.at = "spawn" =>
       /\ starting.start \in Starts
       /\ \A s \in Streams : drains[starting.start][s].pc = "open"

LogsInv == FileType /\ LinesInv /\ KnownInv /\ OpenInv

-----------------------------------------------------------------------------
(* Lemmas about the operators                                              *)

LEMMA MinOfTwo ==
  ASSUME NEW a \in Nat, NEW b \in Nat
  PROVE  Min({a, b}) \in {a, b} /\ Min({a, b}) <= a /\ Min({a, b}) <= b
<1>1. \E x \in {a, b} : \A y \in {a, b} : x <= y
  <2>1. CASE a <= b BY <2>1
  <2>2. CASE b <= a BY <2>2
  <2> QED BY <2>1, <2>2
<1> QED BY <1>1 DEF Min

LEMMA LeastSize == Min(Sizes) \in Nat \ {0}
<1>1. Sizes \subseteq Nat \ {0} /\ Sizes # {}
  BY LogsAssumption DEF LogsAssumption
<1>2. PICK n \in Sizes : \A m \in Sizes : ~ (<<m, n>> \in OpToRel(<, Nat))
  BY <1>1, NatLessThanWellFounded, WFMin
<1>3. \A m \in Sizes : n <= m
  <2>1. ASSUME NEW m \in Sizes, m < n PROVE FALSE
    <3>1. <<m, n>> \in OpToRel(<, Nat)
      BY <1>1, <2>1 DEF OpToRel
    <3> QED BY <1>2, <3>1
  <2> QED BY <1>1, <2>1
<1>4. Min(Sizes) \in Sizes
  BY <1>3 DEF Min
<1> QED BY <1>1, <1>4

\* What a drain hands to the file is not empty.
LEMMA LineLength ==
  ASSUME NEW length \in Nat \ {0}
  PROVE  Truncated(length) + Heading \in Nat \ {0}
<1>1. Retention \in Nat \ {0} /\ Heading \in Nat
  BY LogsAssumption DEF LogsAssumption
<1>2. Truncated(length) \in {length, Retention}
  BY <1>1, MinOfTwo DEF Truncated
<1> QED BY <1>1, <1>2

LEMMA EncodedFits ==
  ASSUME LogsInv, NEW g \in Starts, NEW s \in Streams, Appending(g, s)
  PROVE  Encoded(g, s) \in Nat \ {0} /\ Encoded(g, s) <= DiskRetention
<1>1. DiskRetention \in Nat \ {0}
  BY LogsAssumption DEF LogsAssumption
<1>2. drains[g][s].bytes \in Nat \ {0}
  BY DEF LogsInv, FileType, LinesInv, Drains
<1>3. /\ Encoded(g, s) \in {drains[g][s].bytes, DiskRetention}
      /\ Encoded(g, s) <= DiskRetention
  BY <1>1, <1>2, MinOfTwo DEF Encoded
<1> QED BY <1>1, <1>2, <1>3

\* What a line does to the ring leaves the size of the file alone.
LEMMA PushedKeeps ==
  ASSUME NEW capture, NEW length, DOMAIN capture = CaptureFields
  PROVE  /\ DOMAIN Pushed(capture, length) = CaptureFields
         /\ Pushed(capture, length).current = capture.current
<1> PICK entries, retained, next, evicted :
      Pushed(capture, length) =
        [capture EXCEPT !.entries = entries, !.retained = retained,
                        !.next = next, !.evicted = evicted]
  BY DEF Pushed
<1> QED BY DEF CaptureFields

-----------------------------------------------------------------------------
(* The steps                                                               *)

LEMMA LogsInit ==
  ASSUME Init
  PROVE  LogsInv
BY LogsAssumption
   DEF Init, LogsInv, FileType, LinesInv, KnownInv, OpenInv, NewCapture, CaptureFields, Drains,
       Appending, Draining, Threads, Idle, LogsAssumption

\* The file and the sizes that are known of it stay; a drain that changes is
\* one that was active or is done.
LEMMA DrainKept ==
  ASSUME LogsInv, NEW g \in Starts, NEW s \in Streams, NEW drain \in Drains,
         drain.pc \in {"append", "appendLast"} => drain.bytes # 0,
         drain.pc # "done" => Draining(g, s),
         drains' = [drains EXCEPT ![g][s] = drain],
         drains[g][s].pc # "open",
         UNCHANGED <<file, starting>>,
         DOMAIN captures' = Starts,
         \A h \in Starts : /\ DOMAIN captures'[h] = CaptureFields
                           /\ captures'[h].current = captures[h].current
  PROVE  LogsInv'
<1>1. FileType'
  BY DEF LogsInv, FileType
<1>2. \A h \in Starts, t \in Streams :
        drains'[h][t] = IF h = g /\ t = s THEN drain ELSE drains[h][t]
  BY DEF LogsInv, FileType
<1>3. LinesInv'
  BY <1>2 DEF LogsInv, LinesInv, Appending
<1>4. KnownInv'
  BY <1>2 DEF LogsInv, KnownInv, Draining, Drains
<1>5. OpenInv'
  BY <1>2 DEF LogsInv, OpenInv
<1> QED BY <1>1, <1>3, <1>4, <1>5 DEF LogsInv

LEMMA OpenKeeps ==
  ASSUME LogsInv, OpenCapture
  PROVE  LogsInv'
<1> DEFINE g == page.generation + 1
           new == Threads("open")
<1>1. /\ g \in Starts
      /\ captures' = [captures EXCEPT ![g] = NewCapture(file.bytes)]
      /\ drains' = [drains EXCEPT ![g] = new]
      /\ starting' = [at |-> "spawn", start |-> g]
      /\ UNCHANGED file
  BY DEF OpenCapture
<1> HIDE DEF g
<1>2. new \in [Streams -> Drains] /\ \A t \in Streams : new[t].pc = "open"
  BY DEF Drains, Threads
<1> HIDE DEF new
<1>3. \A h \in Starts :
        /\ captures'[h] = IF h = g THEN NewCapture(file.bytes) ELSE captures[h]
        /\ \A t \in Streams : drains'[h][t] = IF h = g THEN new[t] ELSE drains[h][t]
  BY <1>1 DEF LogsInv, FileType
<1>4. /\ DOMAIN NewCapture(file.bytes) = CaptureFields
      /\ NewCapture(file.bytes).current = file.bytes
  BY DEF NewCapture, CaptureFields
<1>5. FileType'
  BY <1>1, <1>2, <1>3, <1>4 DEF LogsInv, FileType
<1>6. LinesInv'
  BY <1>1, <1>2, <1>3 DEF LogsInv, LinesInv, Appending
<1>7. KnownInv'
  BY <1>1, <1>3, <1>4 DEF LogsInv, KnownInv, Draining
<1>8. OpenInv'
  BY <1>1, <1>2, <1>3 DEF OpenInv
<1> QED BY <1>5, <1>6, <1>7, <1>8 DEF LogsInv

\* The capture that was opened gets its drains, or is dropped.
LEMMA SpawnKeeps ==
  ASSUME LogsInv, SpawnServer \/ SpawnFails
  PROVE  LogsInv'
<1> DEFINE g == starting.start
<1>1. PICK pc \in {"read", "none"} : drains' = [drains EXCEPT ![g] = Threads(pc)]
  BY DEF SpawnServer, SpawnFails
<1>2. /\ g \in Starts /\ \A t \in Streams : drains[g][t].pc = "open"
      /\ UNCHANGED <<captures, file>>
      /\ DOMAIN starting' = {"at", "start"} /\ starting'.at # "spawn"
  <2>1. starting.at = "spawn" /\ UNCHANGED <<captures, file>>
    BY DEF SpawnServer, SpawnFails
  <2>2. DOMAIN starting' = {"at", "start"} /\ starting'.at # "spawn"
    <3>1. CASE SpawnServer
      BY <3>1 DEF SpawnServer, LogsInv, OpenInv
    <3>2. CASE SpawnFails
      BY <3>2 DEF SpawnFails, Idle
    <3> QED BY <3>1, <3>2
  <2> QED BY <2>1, <2>2 DEF LogsInv, OpenInv
<1> HIDE DEF g
<1>3. /\ Threads(pc) \in [Streams -> Drains]
      /\ \A t \in Streams : Threads(pc)[t].pc = pc
  BY DEF Drains, Threads
<1>4. \A h \in Starts, t \in Streams :
        drains'[h][t] = IF h = g THEN Threads(pc)[t] ELSE drains[h][t]
  BY <1>1, <1>2 DEF LogsInv, FileType
<1>5. FileType'
  BY <1>1, <1>2, <1>3 DEF LogsInv, FileType
<1>6. LinesInv'
  BY <1>2, <1>3, <1>4 DEF LogsInv, LinesInv, Appending
<1>7. KnownInv'
  BY <1>2, <1>3, <1>4 DEF LogsInv, KnownInv, Draining
<1>8. OpenInv'
  BY <1>2 DEF OpenInv
<1> QED BY <1>5, <1>6, <1>7, <1>8 DEF LogsInv

LEMMA ReadKeeps ==
  ASSUME LogsInv, NEW g \in Starts, NEW s \in Streams, NEW length,
         NEW drain \in Drains, drain.pc \in {"append", "appendLast"}, drain.bytes # 0,
         drains[g][s].pc = "read",
         captures' = [captures EXCEPT ![g] = Pushed(@, length)],
         drains' = [drains EXCEPT ![g][s] = drain],
         UNCHANGED <<file, starting>>
  PROVE  LogsInv'
<1>1. \A h \in Starts : DOMAIN captures[h] = CaptureFields
  BY DEF LogsInv, FileType
<1>2. /\ DOMAIN captures' = Starts
      /\ \A h \in Starts : captures'[h] = IF h = g THEN Pushed(captures[g], length)
                                          ELSE captures[h]
  BY DEF LogsInv, FileType
<1>3. /\ DOMAIN Pushed(captures[g], length) = CaptureFields
      /\ Pushed(captures[g], length).current = captures[g].current
  BY <1>1, PushedKeeps
<1>4. \A h \in Starts : /\ DOMAIN captures'[h] = CaptureFields
                        /\ captures'[h].current = captures[h].current
  BY <1>1, <1>2, <1>3
<1>5. Draining(g, s)
  BY DEF Draining
<1> QED BY <1>2, <1>4, <1>5, DrainKept

\* A line is read and waits for the file.
LEMMA LineWaits ==
  ASSUME NEW length \in Nat \ {0}, NEW pc \in {"append", "appendLast"}
  PROVE  LET drain == [pc |-> pc, bytes |-> Truncated(length) + Heading]
         IN  drain \in Drains /\ drain.pc = pc /\ drain.bytes # 0
BY LineLength DEF Drains

LEMMA DrainEndsKeeps ==
  ASSUME LogsInv, NEW g \in Starts, NEW s \in Streams, DrainEnds(g, s)
  PROVE  LogsInv'
<1> DEFINE drain == [pc |-> "done", bytes |-> 0]
<1>1. /\ drain \in Drains /\ drain.pc = "done"
      /\ drains[g][s].pc # "open"
      /\ drains' = [drains EXCEPT ![g][s] = drain]
  BY DEF DrainEnds, Drains
<1> HIDE DEF drain
<1>2. UNCHANGED <<file, captures, starting>>
  BY DEF DrainEnds
<1>3. DOMAIN captures' = Starts /\ \A h \in Starts :
        DOMAIN captures'[h] = CaptureFields /\ captures'[h].current = captures[h].current
  BY <1>2 DEF LogsInv, FileType
<1> QED BY <1>1, <1>2, <1>3, DrainKept

\* After an append the drain reads on or is done.
LEMMA AppendedDrain ==
  ASSUME LogsInv, NEW g \in Starts, NEW s \in Streams, Appended(g, s)
  PROVE  /\ drains' \in [Starts -> [Streams -> Drains]]
         /\ \A h \in Starts, t \in Streams :
              h # g \/ t # s => drains'[h][t] = drains[h][t]
         /\ drains'[g][s].pc \in {"read", "done"}
         /\ Appending(g, s) /\ starting' = starting => OpenInv'
<1> DEFINE drain == [pc |-> IF drains[g][s].pc = "append" THEN "read" ELSE "done",
                     bytes |-> 0]
<1>1. drain \in Drains /\ drain.pc \in {"read", "done"}
  BY DEF Drains
<1>2. drains' = [drains EXCEPT ![g][s] = drain]
  BY DEF Appended
<1> HIDE DEF drain
<1>3. \A h \in Starts, t \in Streams :
        drains'[h][t] = IF h = g /\ t = s THEN drain ELSE drains[h][t]
  BY <1>2 DEF LogsInv, FileType
<1>4. Appending(g, s) /\ starting' = starting => OpenInv'
  BY <1>3 DEF LogsInv, OpenInv, Appending
<1> QED BY <1>1, <1>2, <1>3, <1>4 DEF LogsInv, FileType

LEMMA AppendLineKeeps ==
  ASSUME LogsInv, NEW g \in Starts, NEW s \in Streams, AppendLine(g, s)
  PROVE  LogsInv'
<1> DEFINE kept == IF Rotates(g, s) THEN 0 ELSE file.bytes
           known == IF Rotates(g, s) THEN 0 ELSE captures[g].current
           line == Encoded(g, s)
<1>1. Appending(g, s)
  BY DEF AppendLine, Appending
<1>2. line \in Nat \ {0} /\ line <= DiskRetention /\ DiskRetention \in Nat
  BY <1>1, EncodedFits, LogsAssumption DEF LogsAssumption
<1>3. /\ file' = [bytes |-> kept + line, disturbed |-> file.disturbed \/ Overlaps(g)]
      /\ captures' = [captures EXCEPT ![g].current = known + line]
      /\ Appended(g, s)
  BY DEF AppendLine, LogsInv, FileType
<1>4. kept \in Nat /\ known \in Nat /\ known + line \in Nat
  BY <1>2 DEF LogsInv, FileType
<1>5. file' \in [bytes : Nat, disturbed : BOOLEAN]
  BY <1>2, <1>3, <1>4 DEF LogsInv, FileType, Overlaps
<1>6. /\ DOMAIN captures' = Starts
      /\ \A h \in Starts : DOMAIN captures'[h] = CaptureFields
      /\ captures'[g].current = known + line
      /\ \A h \in Starts \ {g} : captures'[h] = captures[h]
  BY <1>3 DEF LogsInv, FileType, CaptureFields
<1>7. FileType'
  BY <1>3, <1>4, <1>5, <1>6, AppendedDrain DEF LogsInv, FileType
<1>8. LinesInv'
  BY <1>3, AppendedDrain DEF LogsInv, LinesInv, Appending
<1>9. ASSUME ~file'.disturbed
      PROVE  /\ file'.bytes <= DiskRetention
             /\ \A h \in Starts, t \in Streams :
                  Draining(h, t)' => captures'[h].current = file'.bytes
  <2>1. ~file.disturbed /\ ~Overlaps(g) /\ file'.bytes = kept + line
    BY <1>3, <1>9
  <2>2. captures[g].current = file.bytes
    BY <1>1, <2>1 DEF LogsInv, KnownInv, Draining, Appending
  <2>3. file'.bytes = known + line /\ file'.bytes <= DiskRetention
    BY <1>2, <2>1, <2>2 DEF Rotates, LogsInv, FileType
  <2>4. \A h \in Starts, t \in Streams : Draining(h, t)' => h = g
    BY <1>3, <2>1, AppendedDrain DEF Overlaps, Draining
  <2> QED BY <1>6, <2>3, <2>4
<1>10. KnownInv'
  BY <1>9 DEF KnownInv
<1>11. OpenInv'
  BY <1>1, <1>3, AppendedDrain DEF AppendLine
<1> QED BY <1>7, <1>8, <1>10, <1>11 DEF LogsInv

LEMMA AppendFailsKeeps ==
  ASSUME LogsInv, NEW g \in Starts, NEW s \in Streams, AppendFails(g, s)
  PROVE  LogsInv'
<1> DEFINE known == IF Rotates(g, s) THEN 0 ELSE captures[g].current
           line == Encoded(g, s)
<1>1. Appending(g, s)
  BY DEF AppendFails, Appending
<1>2. line \in Nat \ {0}
  BY <1>1, EncodedFits
<1>3. /\ captures' = [captures EXCEPT ![g].current = known]
      /\ Appended(g, s)
  BY DEF AppendFails, LogsInv, FileType
<1>4. file' \in [bytes : Nat, disturbed : {TRUE}]
  <2> HIDE DEF line
  <2>1. line - 1 \in Nat
    BY <1>2
  <2>2. \/ file' = [file EXCEPT !.disturbed = TRUE]
        \/ \E part \in {0, line - 1} :
             file' = [bytes |-> (IF Rotates(g, s) THEN 0 ELSE file.bytes) + part,
                      disturbed |-> TRUE]
    BY DEF AppendFails, line
  <2>3. file.bytes \in Nat /\ file \in [bytes : Nat, disturbed : BOOLEAN]
    BY DEF LogsInv, FileType
  <2>4. CASE file' = [file EXCEPT !.disturbed = TRUE]
    BY <2>3, <2>4
  <2>5. ASSUME NEW part \in {0, line - 1},
               file' = [bytes |-> (IF Rotates(g, s) THEN 0 ELSE file.bytes) + part,
                        disturbed |-> TRUE]
        PROVE  file' \in [bytes : Nat, disturbed : {TRUE}]
    <3> DEFINE bytes == (IF Rotates(g, s) THEN 0 ELSE file.bytes) + part
    <3>1. bytes \in Nat
      BY <2>1, <2>3
    <3> HIDE DEF bytes
    <3>2. file' = [bytes |-> bytes, disturbed |-> TRUE]
      BY <2>5 DEF bytes
    <3> QED BY <3>1, <3>2
  <2> QED BY <2>2, <2>4, <2>5
<1>5. /\ DOMAIN captures' = Starts
      /\ \A h \in Starts : DOMAIN captures'[h] = CaptureFields /\ captures'[h].current \in Nat
  BY <1>3 DEF LogsInv, FileType, CaptureFields
<1>6. FileType'
  BY <1>3, <1>4, <1>5, AppendedDrain DEF FileType
<1>7. LinesInv'
  BY <1>3, AppendedDrain DEF LogsInv, LinesInv, Appending
<1>8. KnownInv'
  BY <1>4 DEF KnownInv
<1>9. OpenInv'
  BY <1>1, <1>3, AppendedDrain DEF AppendFails
<1> QED BY <1>6, <1>7, <1>8, <1>9 DEF LogsInv

\* The process, the page and the pumps do not touch the file.
LEMMA OthersKeep ==
  ASSUME LogsInv, UNCHANGED <<file, captures, drains>>,
         \/ starting' = starting
         \/ DOMAIN starting' = {"at", "start"} /\ starting'.at # "spawn"
  PROVE  LogsInv'
BY DEF LogsInv, FileType, LinesInv, KnownInv, OpenInv, Appending, Draining

LEMMA LogsNext ==
  ASSUME LogsInv, [Next]_vars
  PROVE  LogsInv'
<1>1. CASE OpenCapture \/ SpawnServer \/ SpawnFails
  BY <1>1, OpenKeeps, SpawnKeeps
<1>2. ASSUME NEW g \in Starts, NEW s \in Streams, DrainStep(g, s)
      PROVE  LogsInv'
  <2>1. CASE Drain(g, s)
    <3> PICK length \in Sizes :
          /\ captures' = [captures EXCEPT ![g] = Pushed(@, length)]
          /\ drains' = [drains EXCEPT ![g][s] =
                [pc |-> "append", bytes |-> Truncated(length) + Heading]]
      BY <2>1 DEF Drain
    <3> DEFINE drain == [pc |-> "append", bytes |-> Truncated(length) + Heading]
    <3>1. drain \in Drains /\ drain.pc = "append" /\ drain.bytes # 0
      BY LineWaits, LogsAssumption DEF LogsAssumption
    <3>2. /\ drains[g][s].pc = "read" /\ UNCHANGED <<file, starting>>
          /\ drains' = [drains EXCEPT ![g][s] = drain]
      BY <2>1 DEF Drain
    <3> HIDE DEF drain
    <3> QED BY <3>1, <3>2, ReadKeeps
  <2>2. CASE DrainBreaks(g, s)
    <3> DEFINE drain == [pc |-> "appendLast", bytes |-> Truncated(Min(Sizes)) + Heading]
    <3>1. drain \in Drains /\ drain.pc = "appendLast" /\ drain.bytes # 0
      BY LineWaits, LeastSize
    <3>2. /\ drains[g][s].pc = "read" /\ UNCHANGED <<file, starting>>
          /\ captures' = [captures EXCEPT ![g] = Pushed(@, Min(Sizes))]
          /\ drains' = [drains EXCEPT ![g][s] = drain]
      BY <2>2 DEF DrainBreaks
    <3> HIDE DEF drain
    <3> QED BY <3>1, <3>2, ReadKeeps
  <2>3. CASE DrainEnds(g, s) \/ AppendLine(g, s) \/ AppendFails(g, s)
    BY <2>3, DrainEndsKeeps, AppendLineKeeps, AppendFailsKeeps
  <2> QED BY <1>2, <2>1, <2>2, <2>3 DEF DrainStep
<1>3. CASE \/ Disown \/ UNCHANGED vars
           \/ \E g \in Starts : Exit(g) \/ Pump(g)
  <2>1. UNCHANGED <<file, captures, drains, starting>>
    BY <1>3 DEF Disown, vars, Exit, Pump, PumpDecides, PumpReads, PumpWrites
  <2> QED BY <2>1, OthersKeep
<1>4. CASE Adopt \/ ReadinessEnds
  <2>1. UNCHANGED <<file, captures, drains>>
    BY <1>4 DEF Adopt, ReadinessEnds
  <2>2. DOMAIN starting' = {"at", "start"} /\ starting'.at # "spawn"
    BY <1>4 DEF Adopt, ReadinessEnds, Idle, LogsInv, OpenInv
  <2> QED BY <2>1, <2>2, OthersKeep
<1> QED BY <1>1, <1>2, <1>3, <1>4 DEF Next

LEMMA LogsCorrect == Spec => []LogsInv
BY LogsInit, LogsNext, PTL DEF Spec

\* The file of the logs stays within its limit through rotations and the
\* captures of one server after another, as long as no two of them write at
\* a time and no write fails (BoundedServerLogFile::append).
THEOREM FileCorrect == Spec => []FileIsBounded
<1>1. LogsInv => FileIsBounded
  BY DEF LogsInv, KnownInv, FileIsBounded
<1> QED BY <1>1, LogsCorrect, PTL
================================================================================
