---------------------------- MODULE DailyLedger ----------------------------
(***************************************************************************)
(* What record_trade_result promises its callers, with no threads, no SQL  *)
(* and no failures: each trading day has one row of totals, and the result *)
(* of a trade enters all of them in one indivisible step.                  *)
(***************************************************************************)
EXTENDS Integers

CONSTANTS
  Day,   \* the trading days
  Pnls   \* the results a trade can have, in rupees

VARIABLE total

Zero == [trades_today |-> 0, daily_pnl |-> 0, wins |-> 0, losses |-> 0]

Add(t, pnl) ==
  [trades_today |-> t.trades_today + 1,
   daily_pnl    |-> t.daily_pnl + pnl,
   wins         |-> IF pnl > 0 THEN t.wins + 1 ELSE t.wins,
   losses       |-> IF pnl > 0 THEN t.losses ELSE t.losses + 1]

Init == total = [d \in Day |-> Zero]

Record(d, pnl) == total' = [total EXCEPT ![d] = Add(@, pnl)]

Next == \E d \in Day, pnl \in Pnls : Record(d, pnl)

Spec == Init /\ [][Next]_total
=============================================================================
