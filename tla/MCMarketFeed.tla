----------------------------- MODULE MCMarketFeed -----------------------------
(* The market-data supervisor for TLC. *)
EXTENDS MarketFeed
===============================================================================
