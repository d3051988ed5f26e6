---------------------------- MODULE MCTelemetry ----------------------------
(***************************************************************************)
(* An instance of Telemetry for TLC: queues of one place, so that both     *)
(* senders wait for the line.                                              *)
(***************************************************************************)
EXTENDS Telemetry

OneRequest == {[type |-> "CMD", payload |-> "ping"]}
=============================================================================
