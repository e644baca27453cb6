---------------------------- MODULE MCMonitorLoop ----------------------------
(* The paper monitor worker for TLC. *)
EXTENDS MonitorLoop

\* No target, one, and both.
MCPlans == {{}, {"target_1"}, {"target_1", "target_2"}}
=============================================================================
