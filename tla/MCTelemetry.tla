---------------------------- MODULE MCTelemetry -----------------------------
(* One process with a clock that is right.                                   *)
EXTENDS Telemetry

MCOffset == [p \in {"p"} |-> 0]
=============================================================================
