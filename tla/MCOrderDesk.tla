----------------------------- MODULE MCOrderDesk -----------------------------
(* The order desk for TLC. *)
EXTENDS OrderDesk

\* Half a lot and a lot.
MCQuantities == {1, 2}

\* A lot at the higher price is beyond the capital of the cfg.
MCPrices == {1, 3}
=============================================================================
