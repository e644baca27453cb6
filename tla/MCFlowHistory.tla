---------------------------- MODULE MCFlowHistory ----------------------------
(* The flow history under two endpoints, for TLC. *)
EXTENDS FlowHistory, TLC

\* A calm market, a strong one, and a collapse with a low ratio.
MCSummaries ==
  {[score |-> 0, pcr |-> 100, bias |-> "NEUTRAL", confident |-> TRUE],
   [score |-> 20, pcr |-> 70, bias |-> "BULLISH", confident |-> TRUE],
   [score |-> 60, pcr |-> 140, bias |-> "BEARISH", confident |-> TRUE]}

MCPerms == Permutations(Threads)
=============================================================================
