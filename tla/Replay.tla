------------------------------- MODULE Replay -------------------------------
(***************************************************************************)
(* A strategy-lab request: validate_strategy of app/strategy_lab.py and    *)
(* the functions of app/strategy_validation.py that it calls in turn,      *)
(* replay_signals, summarize_trades and walk_forward_splits.  One action   *)
(* is one iteration of one of their loops, or the step between two.        *)
(*                                                                         *)
(* Prices are integers and amounts are multiples of 1/RateScale rupees, so *)
(* that no rounding is needed.  A candle is known by its place in the      *)
(* sorted frame; a signal by the number of candles at or before its time.  *)
(* Win rates, the profit factor, the deviation and the groups by regime    *)
(* are left out of the summary.                                            *)
(***************************************************************************)
EXTENDS Integers, Sequences

CONSTANTS
  Requests,   \* the requests a behaviour may start from
  RateScale   \* cost rates are multiples of 1/RateScale

Candle == [open : Nat, high : Nat, low : Nat, close : Nat]

\* The OHLC relationship of _validate_candles.
Coherent(c) ==
  /\ c.low <= c.open /\ c.open <= c.high
  /\ c.low <= c.close /\ c.close <= c.high

Signal == [after : Nat, side : {"LONG", "SHORT"}, stop_loss : Nat, target : Nat]

Config ==
  [initial_capital : Nat \ {0}, quantity : Nat \ {0}, slippage_points : Nat,
   cost_rate : Nat, max_holding_bars : Nat \ {0}]

WalkForward == [enabled : BOOLEAN, train_size : Int, test_size : Int, step_size : Int]

\* What passes the checks at the head of validate_strategy and replay_signals.
Request ==
  [candles : Seq({c \in Candle : Coherent(c)}), signals : Seq(Signal),
   config : Config, walk_forward : WalkForward]

ASSUME ReplayAssumption ==
  /\ RateScale \in Nat \ {0}
  /\ Requests \subseteq Request
  /\ \A r \in Requests : Len(r.candles) >= 2

VARIABLES
  request,    \* the request
  pc,         \* the loop it is in
  i,          \* the signal replay_signals is at
  j,          \* the candle its inner loop is at
  trades,     \* the trades so far
  summary,    \* the locals of summarize_trades
  train_end,  \* the local of walk_forward_splits
  splits      \* its list

replayVars == <<i, j, trades>>
vars == <<request, pc, replayVars, summary, train_end, splits>>

candles == request.candles
config == request.config

Trade ==
  [signal : Signal, entry_at : Nat, entry : Int, exit_at : Nat, exit : Int,
   reason : {"STOP_LOSS", "TARGET", "TIME_EXIT"}, net_pnl : Int]

Split == [train_start : {0}, train_end : Nat, test_start : Nat, test_end : Nat]

NoSummary == [counted |-> 0, wins |-> 0, losses |-> 0,
              equity |-> 0, peak |-> 0, max_drawdown |-> 0]

ReplayTypeOK ==
  /\ request \in Requests
  /\ pc \in {"signal", "bar", "summary", "splits", "done", "error"}
  /\ i \in Nat \ {0}
  /\ j \in Nat
  /\ trades \in Seq(Trade)
  /\ summary \in [counted : Nat, wins : Nat, losses : Nat,
                  equity : Int, peak : Int, max_drawdown : Int]
  /\ train_end \in Nat
  /\ splits \in Seq(Split)

ReplayInit ==
  /\ request \in Requests
  /\ pc = "signal"
  /\ i = 1
  /\ j = 0
  /\ trades = << >>
  /\ summary = NoSummary
  /\ train_end = 0
  /\ splits = << >>

-----------------------------------------------------------------------------
(***************************************************************************)
(* replay_signals.                                                         *)
(***************************************************************************)
Smaller(a, b) == IF a <= b THEN a ELSE b
Larger(a, b) == IF a >= b THEN a ELSE b
Abs(a) == IF a < 0 THEN -a ELSE a

Direction(s) == IF s.side = "LONG" THEN 1 ELSE -1

\* mutant: searchsorted with side="left"
EntryAtLeft(s) == Larger(s.after, 1)

\* The candle strictly after the signal.
EntryAt(s) == s.after + 1

\* A price that slippage has made worse, for a buyer of the trade's side.
Entry(s) == candles[EntryAt(s)].open + Direction(s) * config.slippage_points

\* mutant: a stop filled at its own price
ExitPriceNoSlip(s, level) == level

\* A stop or a target after slippage.
ExitPrice(s, level) == level - Direction(s) * config.slippage_points

Enters(s) ==
  /\ EntryAt(s) <= Len(candles)
  /\ IF s.side = "LONG" THEN s.stop_loss < Entry(s) /\ Entry(s) < s.target
                        ELSE s.target < Entry(s) /\ Entry(s) < s.stop_loss

\* mutant: the holding period is ignored
LastBarAll(s) == Len(candles)

\* The last candle a trade may be held on.
LastBar(s) == Smaller(EntryAt(s) + config.max_holding_bars - 1, Len(candles))

HitStop(s, c) == IF s.side = "LONG" THEN c.low <= s.stop_loss ELSE c.high >= s.stop_loss
HitTarget(s, c) == IF s.side = "LONG" THEN c.high >= s.target ELSE c.low <= s.target

Net(s, exit) ==
  config.quantity * (Direction(s) * (exit - Entry(s)) * RateScale
                       - (Abs(Entry(s)) + Abs(exit)) * config.cost_rate)

NoSignalLeft == pc = "signal" /\ i > Len(request.signals)

SkipSignal ==
  /\ pc = "signal"
  /\ i <= Len(request.signals)
  /\ ~Enters(request.signals[i])
  /\ i' = i + 1
  /\ UNCHANGED <<request, pc, j, trades, summary, train_end, splits>>

EnterTrade ==
  /\ pc = "signal"
  /\ i <= Len(request.signals)
  /\ Enters(request.signals[i])
  /\ pc' = "bar"
  /\ j' = EntryAt(request.signals[i])
  /\ UNCHANGED <<request, i, trades, summary, train_end, splits>>

\* The trade of signal i leaves at candle j.
LeaveTrade(exit, reason) ==
  LET s == request.signals[i] IN
  /\ trades' = Append(trades,
       [signal |-> s, entry_at |-> EntryAt(s), entry |-> Entry(s),
        exit_at |-> j, exit |-> exit, reason |-> reason, net_pnl |-> Net(s, exit)])
  /\ pc' = "signal"
  /\ i' = i + 1
  /\ UNCHANGED <<request, j, summary, train_end, splits>>

\* mutant: the target is looked at first
ReplayBarTargetFirst ==
  LET s == request.signals[i]
      c == candles[j] IN
  /\ pc = "bar"
  /\ \/ ~HitTarget(s, c) /\ HitStop(s, c) /\ LeaveTrade(ExitPrice(s, s.stop_loss), "STOP_LOSS")
     \/ HitTarget(s, c) /\ LeaveTrade(ExitPrice(s, s.target), "TARGET")
     \/ ~HitStop(s, c) /\ ~HitTarget(s, c) /\ j = LastBar(s) /\ LeaveTrade(c.close, "TIME_EXIT")
     \/ /\ ~HitStop(s, c) /\ ~HitTarget(s, c) /\ j < LastBar(s)
        /\ j' = j + 1
        /\ UNCHANGED <<request, pc, i, trades, summary, train_end, splits>>

\* One iteration of the inner loop: the stop first, then the target.  After the
\* last candle the loop leaves the exit at its close.
ReplayBar ==
  LET s == request.signals[i]
      c == candles[j] IN
  /\ pc = "bar"
  /\ \/ HitStop(s, c) /\ LeaveTrade(ExitPrice(s, s.stop_loss), "STOP_LOSS")
     \/ ~HitStop(s, c) /\ HitTarget(s, c) /\ LeaveTrade(ExitPrice(s, s.target), "TARGET")
     \/ ~HitStop(s, c) /\ ~HitTarget(s, c) /\ j = LastBar(s) /\ LeaveTrade(c.close, "TIME_EXIT")
     \/ /\ ~HitStop(s, c) /\ ~HitTarget(s, c) /\ j < LastBar(s)
        /\ j' = j + 1
        /\ UNCHANGED <<request, pc, i, trades, summary, train_end, splits>>

-----------------------------------------------------------------------------
(***************************************************************************)
(* summarize_trades; without trades it returns at once.                    *)
(***************************************************************************)
StartSummary ==
  /\ NoSignalLeft
  /\ pc' = "summary"
  /\ summary' = [NoSummary EXCEPT !.equity = config.initial_capital * RateScale,
                                  !.peak = config.initial_capital * RateScale]
  /\ UNCHANGED <<request, replayVars, train_end, splits>>

\* mutant: the fall is measured from the peak before this trade
DrawdownFromOldPeak(s, equity) == Larger(s.max_drawdown, s.peak - s.equity)

Drawdown(s, equity) == Larger(s.max_drawdown, Larger(s.peak, equity) - equity)

CountTrade ==
  LET pnl == trades[summary.counted + 1].net_pnl
      equity == summary.equity + pnl IN
  /\ pc = "summary"
  /\ summary.counted < Len(trades)
  /\ summary' =
       [counted |-> summary.counted + 1,
        wins |-> summary.wins + IF pnl > 0 THEN 1 ELSE 0,
        losses |-> summary.losses + IF pnl < 0 THEN 1 ELSE 0,
        equity |-> equity,
        peak |-> Larger(summary.peak, equity),
        max_drawdown |-> Drawdown(summary, equity)]
  /\ UNCHANGED <<request, pc, replayVars, train_end, splits>>

-----------------------------------------------------------------------------
(***************************************************************************)
(* walk_forward_splits, when the request enables it and has four candles.  *)
(* An omitted size is given its default before the request is formed.      *)
(***************************************************************************)
wf == request.walk_forward

\* step_size or test_size
Step == IF wf.step_size = 0 THEN wf.test_size ELSE wf.step_size

ValidSizes == wf.train_size > 0 /\ wf.test_size > 0 /\ Step > 0

WantsSplits == wf.enabled /\ Len(candles) >= 4

StartSplits ==
  /\ pc = "summary"
  /\ summary.counted = Len(trades)
  /\ pc' = IF ~WantsSplits THEN "done" ELSE IF ValidSizes THEN "splits" ELSE "error"
  /\ train_end' = IF pc' = "splits" THEN wf.train_size ELSE 0
  /\ UNCHANGED <<request, replayVars, summary, splits>>

Fits == train_end + wf.test_size <= Len(candles)

\* mutant: the training window is moved before the test is cut
AddSplitLate ==
  /\ pc = "splits"
  /\ Fits
  /\ splits' = Append(splits,
       [train_start |-> 0, train_end |-> train_end + Step,
        test_start |-> train_end, test_end |-> train_end + wf.test_size])
  /\ train_end' = train_end + Step
  /\ UNCHANGED <<request, pc, replayVars, summary>>

AddSplit ==
  /\ pc = "splits"
  /\ Fits
  /\ splits' = Append(splits,
       [train_start |-> 0, train_end |-> train_end,
        test_start |-> train_end, test_end |-> train_end + wf.test_size])
  /\ train_end' = train_end + Step
  /\ UNCHANGED <<request, pc, replayVars, summary>>

EndSplits ==
  /\ pc = "splits"
  /\ ~Fits
  /\ pc' = "done"
  /\ UNCHANGED <<request, replayVars, summary, train_end, splits>>

ReplayNext ==
  \/ SkipSignal
  \/ EnterTrade
  \/ ReplayBar
  \/ StartSummary
  \/ CountTrade
  \/ StartSplits
  \/ AddSplit
  \/ EndSplits

ReplaySpec == ReplayInit /\ [][ReplayNext]_vars

-----------------------------------------------------------------------------
(***************************************************************************)
(* A trade as the candles cs make it, said without the loop: it enters on  *)
(* the candle after its signal, no earlier candle touches its stop or its  *)
(* target, and its exit is what the candle it leaves on says.              *)
(***************************************************************************)
IsReplay(t, cs) ==
  LET s == t.signal
      last == Smaller(s.after + config.max_holding_bars, Len(cs))
      c == cs[t.exit_at] IN
  /\ t.entry_at > s.after /\ t.exit_at \in t.entry_at .. last
  /\ t.entry = cs[s.after + 1].open + Direction(s) * config.slippage_points
  /\ \A k \in t.entry_at .. t.exit_at - 1 : ~HitStop(s, cs[k]) /\ ~HitTarget(s, cs[k])
  /\ \/ /\ t.reason = "STOP_LOSS" /\ HitStop(s, c)
        /\ t.exit = ExitPrice(s, s.stop_loss)
     \/ /\ t.reason = "TARGET" /\ ~HitStop(s, c) /\ HitTarget(s, c)
        /\ t.exit = ExitPrice(s, s.target)
     \/ /\ t.reason = "TIME_EXIT" /\ ~HitStop(s, c) /\ ~HitTarget(s, c)
        /\ t.exit_at = last /\ t.exit = c.close

(***************************************************************************)
(* "Replay signals without look-ahead bias" (strategy_validation.py, line  *)
(* 78): had the candles ended anywhere after a trade's exit, the replay    *)
(* would have made the same trade.                                         *)
(***************************************************************************)
NoLookAhead ==
  \A k \in DOMAIN trades :
    \A n \in trades[k].exit_at .. Len(candles) :
      IsReplay(trades[k], SubSeq(candles, 1, n))

(***************************************************************************)
(* The prices at which the orders of a trade can fill within a candle,     *)
(* whatever the path between its four prices and whatever the slippage up  *)
(* to the configured one.  A candle that opens beyond the target fills     *)
(* there; one that opens beyond the stop as well, see GapsThroughStop.     *)
(***************************************************************************)
LevelsReached(s, c) ==
  IF \/ Direction(s) * (c.open - s.stop_loss) <= 0
     \/ Direction(s) * (c.open - s.target) >= 0
  THEN {c.open}
  ELSE {x \in {s.stop_loss} : HitStop(s, c)} \cup {x \in {s.target} : HitTarget(s, c)}

Fills(s, c) ==
  UNION {{x - Direction(s) * slip : slip \in 0 .. config.slippage_points} :
           x \in LevelsReached(s, c)}

GapsThroughStop(t) ==
  Direction(t.signal) * (candles[t.exit_at].open - t.signal.stop_loss) <= 0

(***************************************************************************)
(* "Deliberately pessimistic where OHLC data cannot prove event ordering"  *)
(* (strategy_validation.py, line 4): no course of the market within the    *)
(* candles, and no smaller slippage, gives a trade a worse exit than the   *)
(* replay does.  A candle that opens beyond the stop is the exception: the *)
(* replay fills the stop at its own price there, the market at the open.   *)
(* A time exit is at the close, without slippage, for both.                *)
(***************************************************************************)
NoBetterThanMarket ==
  \A k \in DOMAIN trades :
    LET t == trades[k]
        s == t.signal
        untouched(n) == \A b \in t.entry_at .. n : Fills(s, candles[b]) = {}
        noBetterThan(x) == Direction(s) * (x - t.exit) >= 0
    IN ~GapsThroughStop(t) =>
         /\ \A at \in t.entry_at .. LastBar(s) :
              untouched(at - 1) => \A x \in Fills(s, candles[at]) : noBetterThan(x)
         /\ untouched(LastBar(s)) => noBetterThan(candles[LastBar(s)].close)

(***************************************************************************)
(* The drawdown of the summary is the worst fall of the account between    *)
(* any two moments, its starting capital included.                         *)
(***************************************************************************)
Equity[n \in Nat] ==
  IF n = 0 THEN config.initial_capital * RateScale ELSE Equity[n - 1] + trades[n].net_pnl

DrawdownIsWorstFall ==
  pc \in {"splits", "done"} =>
    /\ \E b \in 0 .. Len(trades) : \E a \in 0 .. b :
         summary.max_drawdown = Equity[a] - Equity[b]
    /\ \A b \in 0 .. Len(trades) : \A a \in 0 .. b :
         Equity[a] - Equity[b] <= summary.max_drawdown

(***************************************************************************)
(* "Chronological train/test indices with no overlap leakage" (line 191):  *)
(* no test starts before its training ends or reaches beyond the data, and *)
(* with the default step, the size of a test, no candle is tested twice    *)
(* and none between the first test and the last is left out.               *)
(***************************************************************************)
SplitsDoNotLeak ==
  LET tested(x) == {k \in DOMAIN splits : splits[k].test_start <= x /\ x < splits[k].test_end} IN
  /\ \A k \in DOMAIN splits :
       /\ splits[k].train_end <= splits[k].test_start
       /\ splits[k].test_start < splits[k].test_end
       /\ splits[k].test_end <= Len(candles)
  /\ (pc = "done" /\ WantsSplits /\ Step = wf.test_size) =>
       /\ \A x \in wf.train_size .. Len(candles) - 1 :
            /\ \A k, l \in tested(x) : k = l
            /\ tested(x) = {} => x >= train_end /\ Len(candles) - train_end < wf.test_size
=============================================================================
