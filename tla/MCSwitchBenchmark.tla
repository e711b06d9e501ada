--------------------------- MODULE MCSwitchBenchmark ---------------------------
(* One round trip; the router has the two models of the trip. *)
EXTENDS SwitchBenchmark
=============================================================================
