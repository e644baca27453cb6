------------------------------ MODULE MCPipeline ------------------------------
(* The decision pipeline for TLC: every combination of a few readings. *)
EXTENDS Pipeline

\* The timeframes agree, or one has no bias, or one is missing and one is against
\* the others.
MCFrames ==
  LET Agreed(b) == [t \in {"3m", "5m", "15m", "daily"} |-> b]
  IN {Agreed(100), Agreed(-100), [Agreed(-100) EXCEPT !["3m"] = 0],
      [t \in {"3m", "15m", "daily"} |-> IF t = "3m" THEN -100 ELSE 100]}

\* Heavy put or call writing, spot beyond the wall or not, and a leg at the
\* money that is priced, not priced, or poor for its risk.
MCChains ==
  {NoChain}
    \cup [pcr : {170}, net : {40}, zone : {"ABOVE"}, rr : {None, 100, 167}]
    \cup [pcr : {30}, net : {-40}, zone : {"BELOW"}, rr : {None, 167}]
    \cup [pcr : {170}, net : {40}, zone : {"BETWEEN"}, rr : {167}]
    \cup [pcr : {30}, net : {-40}, zone : {"BETWEEN"}, rr : {167}]

MCVwapSides == {-1, 1}
MCGaps == {-80, 80}
MCOpens == {-1, 0, 1}
MCMacds == {-2, 2}
MCLiquidities == {-400, 400}
MCEdgeSets == {{"HIGH"}}
MCVetoSets == {{}, {"STALE_DATA"}}
=============================================================================
