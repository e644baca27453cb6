---------------------------- MODULE MCLiveDecision ----------------------------
(* The live decision for TLC: no trade, and one buy at either of two strikes. *)
EXTENDS LiveDecision

CONSTANTS none, buy1, buy2

MCDecisions == {none, buy1, buy2}

MCSignature == [d \in Decisions |-> IF d = none THEN "NO_TRADE" ELSE "CE_BUY"]

MCSetupOf == [d \in Decisions |-> IF d = none THEN NoSetup ELSE d]
=============================================================================
