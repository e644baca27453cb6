--------------------------- MODULE MCPaperTrading ---------------------------
(* The paper-trade lifecycle for TLC. *)
EXTENDS PaperTrading, TLC

\* A loss and a win.
MCPnls == {-2, 3}

\* Losses only.
MCLosses == {-2}

MCApproved == {"APPROVED"}

MCVerdicts == {"APPROVED", "REJECTED"}

MCSetupPerms == Permutations(Setups)
=============================================================================
