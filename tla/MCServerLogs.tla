----------------------------- MODULE MCServerLogs -----------------------------
(* Two servers on one port. *)
EXTENDS ServerLogs

(* Lines for the ring, some of them longer than it.                        *)
Lines == BoundedSeq(1..(Retention + 1), 4)

(* Whatever lines are pushed, the ring holds the newest of them without a  *)
(* gap, in no more bytes than its limit, it drops nothing that had room,   *)
(* and its counters add up (ServerLogBuffer::push).                        *)
RingIsNewest(lines) ==
    LET capture == FoldLeft(Pushed, NewCapture(0), lines)
        kept == Len(capture.entries)
        Newest(n) == [i \in 1..n |-> Truncated(lines[Len(lines) - n + i])]
        Size(n) == FoldSeq(+, 0, Newest(n))
    IN  /\ capture.next = Len(lines)
        /\ capture.evicted + kept = Len(lines)
        /\ capture.retained = Size(kept)
        /\ \A i \in 1..kept : capture.entries[i] =
                [sequence |-> Len(lines) - kept + i - 1, bytes |-> Newest(kept)[i]]
        /\ Size(kept) <= Retention
        /\ kept < Len(lines) => Size(kept + 1) > Retention

ASSUME RingAssumption == \A lines \in Lines : RingIsNewest(lines)
=============================================================================
