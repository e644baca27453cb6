---------------------------- MODULE MCPositions ----------------------------
(* Manual positions and other callers of the sessions table, for TLC. *)
EXTENDS Positions

\* A loss and a win.
MCPnls == {-2, 3}
=============================================================================
