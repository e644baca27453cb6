----------------------------- MODULE ReplayProofs -----------------------------
(***************************************************************************)
(* The replay is free of look-ahead and never flatters a trade, the        *)
(* drawdown of its summary is the worst fall there was, and the            *)
(* walk-forward splits do not leak, for requests of any size.              *)
(*                                                                         *)
(* The invariant says of the inner loop that no candle before j touches    *)
(* the stop or the target of the trade, so that each trade it books is the *)
(* one IsReplay describes; of the splits, with the default step, that they *)
(* cover the candles from the first test to train_end once each.           *)
(***************************************************************************)
EXTENDS Replay, TLAPS, SequenceTheorems, WellFoundedInduction

Booked(t) ==
  /\ t \in Trade
  /\ t.entry_at = t.signal.after + 1
  /\ Enters(t.signal)
  /\ IsReplay(t, candles)

BookedInv == \A k \in DOMAIN trades : Booked(trades[k])

BarInv ==
  pc = "bar" =>
    LET s == request.signals[i] IN
    /\ i \in DOMAIN request.signals
    /\ Enters(s)
    /\ j \in EntryAt(s) .. LastBar(s)
    /\ \A k \in EntryAt(s) .. j - 1 : ~HitStop(s, candles[k]) /\ ~HitTarget(s, candles[k])

Covers(ss, k, x) == ss[k].test_start <= x /\ x < ss[k].test_end

SplitInv ==
  /\ pc \in {"signal", "bar", "summary", "error"} => splits = << >>
  /\ splits # << >> => WantsSplits
  /\ pc = "splits" => WantsSplits /\ ValidSizes
  /\ pc = "splits" => train_end >= wf.train_size
  /\ \A k \in DOMAIN splits :
       /\ splits[k].train_end <= splits[k].test_start
       /\ splits[k].test_start < splits[k].test_end
       /\ splits[k].test_end <= Len(candles)

CoverInv ==
  (pc \in {"splits", "done"} /\ WantsSplits /\ Step = wf.test_size) =>
    /\ pc = "done" => ~Fits
    /\ \A k \in DOMAIN splits : splits[k].test_end <= train_end
    /\ \A x \in wf.train_size .. train_end - 1 : \E k \in DOMAIN splits : Covers(splits, k, x)
    /\ \A x \in Int : \A k, l \in DOMAIN splits : Covers(splits, k, x) /\ Covers(splits, l, x) => k = l

Inv ==
  /\ ReplayTypeOK
  /\ BarInv
  /\ BookedInv
  /\ SplitInv
  /\ CoverInv

-----------------------------------------------------------------------------
(***************************************************************************)
(* Requests.                                                               *)
(***************************************************************************)

\* The fields of a request, typed.
LEMMA RequestTyped ==
  ASSUME request \in Requests
  PROVE  /\ candles \in Seq(Candle)
         /\ \A k \in DOMAIN candles : candles[k] \in Candle /\ Coherent(candles[k])
         /\ request.signals \in Seq(Signal)
         /\ config \in Config
         /\ wf \in WalkForward
<1>1. request \in Request
  BY ReplayAssumption
<1>2. candles \in Seq({c \in Candle : Coherent(c)})
  BY <1>1 DEF Request, candles
<1>3. \A k \in DOMAIN candles : candles[k] \in {c \in Candle : Coherent(c)}
  BY <1>2, ElementOfSeq
<1>4. candles \in Seq(Candle)
  BY <1>2, SeqMonotonic, Zenon DEF candles
<1> QED
  BY <1>1, <1>3, <1>4 DEF Request, config, wf, candles

\* Multiplying by the direction of a signal is a change of sign.
LEMMA DirectionIsSign ==
  ASSUME NEW s \in Signal, NEW x \in Int
  PROVE  Direction(s) * x = IF s.side = "LONG" THEN x ELSE -x
  BY DEF Direction, Signal

\* The operators of the replay, typed.
LEMMA ReplayTyped ==
  ASSUME request \in Requests, NEW s \in Signal
  PROVE  /\ EntryAt(s) \in Nat
         /\ EntryAt(s) >= 1
         /\ LastBar(s) \in Int
         /\ LastBar(s) <= Len(candles)
         /\ Enters(s) => /\ EntryAt(s) \in 1 .. Len(candles)
                         /\ EntryAt(s) <= LastBar(s)
                         /\ Entry(s) \in Int
         /\ \A level \in Int : ExitPrice(s, level) \in Int
         /\ \A exit \in Int : Enters(s) => Net(s, exit) \in Int
<1>1. /\ candles \in Seq(Candle)
      /\ config \in Config
      /\ s.after \in Nat
      /\ Len(candles) \in Nat
      /\ config.max_holding_bars \in Nat \ {0}
      /\ config.slippage_points \in Nat
      /\ config.quantity \in Nat
      /\ config.cost_rate \in Nat
      /\ RateScale \in Nat
      /\ Direction(s) \in Int
  BY RequestTyped, ReplayAssumption DEF Signal, Config, Direction
<1>2. /\ EntryAt(s) \in Nat
      /\ EntryAt(s) >= 1
      /\ LastBar(s) \in Int
      /\ LastBar(s) <= Len(candles)
  BY <1>1 DEF EntryAt, LastBar, Smaller
<1>3. ASSUME Enters(s)
      PROVE  /\ EntryAt(s) \in 1 .. Len(candles)
             /\ EntryAt(s) <= LastBar(s)
             /\ Entry(s) \in Int
  <2>1. EntryAt(s) \in 1 .. Len(candles)
    BY <1>1, <1>2, <1>3 DEF Enters
  <2>2. EntryAt(s) <= LastBar(s)
    BY <1>1, <2>1 DEF LastBar, Smaller
  <2>3. candles[EntryAt(s)] \in Candle
    BY <1>1, <2>1, ElementOfSeq, Zenon
  <2>4. candles[EntryAt(s)].open \in Nat
    BY <2>3 DEF Candle
  <2>5. Direction(s) * config.slippage_points \in Int
    BY <1>1
  <2> QED
    BY <2>1, <2>2, <2>4, <2>5 DEF Entry
<1>4. ASSUME NEW level \in Int
      PROVE  ExitPrice(s, level) \in Int
  <2>1. Direction(s) * config.slippage_points \in Int
    BY <1>1
  <2> QED
    BY <2>1 DEF ExitPrice
<1>5. ASSUME NEW exit \in Int, Enters(s)
      PROVE  Net(s, exit) \in Int
  <2>1. Entry(s) \in Int
    BY <1>3, <1>5
  <2>2. Direction(s) * (exit - Entry(s)) \in Int
    BY <2>1, DirectionIsSign
  <2>3. Abs(Entry(s)) + Abs(exit) \in Int
    BY <2>1 DEF Abs
  <2>4. /\ Direction(s) * (exit - Entry(s)) * RateScale \in Int
        /\ (Abs(Entry(s)) + Abs(exit)) * config.cost_rate \in Int
    BY <1>1, <2>2, <2>3
  <2> QED
    BY <1>1, <2>4 DEF Net
<1> QED
  BY <1>2, <1>3, <1>4, <1>5

\* The candle a trade is at, and the prices on it, typed.
LEMMA BarTyped ==
  ASSUME request \in Requests, BarInv, pc = "bar"
  PROVE  /\ request.signals[i] \in Signal
         /\ Enters(request.signals[i])
         /\ j \in 1 .. Len(candles)
         /\ candles[j] \in Candle
         /\ Coherent(candles[j])
<1>1. /\ request.signals[i] \in Signal
      /\ Enters(request.signals[i])
  <2>1. request.signals \in Seq(Signal) /\ i \in DOMAIN request.signals
    BY RequestTyped DEF BarInv
  <2>2. request.signals[i] \in Signal
    BY <2>1, ElementOfSeq, LenProperties
  <2> QED
    BY <2>2 DEF BarInv
<1>2. j \in 1 .. Len(candles)
  <2>1. j \in EntryAt(request.signals[i]) .. LastBar(request.signals[i])
    BY DEF BarInv
  <2>2. /\ EntryAt(request.signals[i]) \in Nat
        /\ EntryAt(request.signals[i]) >= 1
        /\ LastBar(request.signals[i]) \in Int
        /\ LastBar(request.signals[i]) <= Len(candles)
    BY <1>1, ReplayTyped
  <2>3. Len(candles) \in Nat
    BY RequestTyped
  <2> QED
    BY <2>1, <2>2, <2>3
<1> QED
  BY <1>1, <1>2, RequestTyped, LenProperties

-----------------------------------------------------------------------------
(***************************************************************************)
(* The inner loop.                                                         *)
(***************************************************************************)

\* The trade that leaves at candle j is the one IsReplay describes.
LEMMA LeavingIsBooked ==
  ASSUME ReplayTypeOK, BarInv, pc = "bar", NEW exit, NEW reason,
         LET s == request.signals[i]
             c == candles[j]
         IN \/ /\ reason = "STOP_LOSS" /\ HitStop(s, c)
               /\ exit = ExitPrice(s, s.stop_loss)
            \/ /\ reason = "TARGET" /\ ~HitStop(s, c) /\ HitTarget(s, c)
               /\ exit = ExitPrice(s, s.target)
            \/ /\ reason = "TIME_EXIT" /\ ~HitStop(s, c) /\ ~HitTarget(s, c)
               /\ j = LastBar(s) /\ exit = c.close
  PROVE  LET s == request.signals[i]
         IN Booked([signal |-> s, entry_at |-> EntryAt(s), entry |-> Entry(s),
                    exit_at |-> j, exit |-> exit, reason |-> reason, net_pnl |-> Net(s, exit)])
<1> DEFINE s == request.signals[i]
           t == [signal |-> s, entry_at |-> EntryAt(s), entry |-> Entry(s),
                 exit_at |-> j, exit |-> exit, reason |-> reason, net_pnl |-> Net(s, exit)]
<1>1. /\ s \in Signal
      /\ Enters(s)
      /\ candles[j] \in Candle
      /\ request \in Requests
      /\ j \in Nat
  BY BarTyped DEF ReplayTypeOK
<1>2. exit \in Int /\ reason \in {"STOP_LOSS", "TARGET", "TIME_EXIT"}
  <2>1. s.stop_loss \in Int /\ s.target \in Int /\ candles[j].close \in Int
    BY <1>1 DEF Signal, Candle
  <2> QED
    BY <1>1, <2>1, ReplayTyped
<1>3. t \in Trade
  BY <1>1, <1>2, ReplayTyped DEF Trade
<1>4. /\ s.after \in Nat
      /\ config.max_holding_bars \in Nat
      /\ Len(candles) \in Nat
  BY <1>1, RequestTyped, LenProperties DEF Signal, Config
<1>5. LastBar(s) = Smaller(s.after + config.max_holding_bars, Len(candles))
  BY <1>4 DEF LastBar, EntryAt
<1>6. /\ j \in EntryAt(s) .. LastBar(s)
      /\ \A k \in EntryAt(s) .. j - 1 : ~HitStop(s, candles[k]) /\ ~HitTarget(s, candles[k])
  BY DEF BarInv
<1>7. /\ t.signal = s
      /\ t.entry_at = EntryAt(s)
      /\ t.entry = Entry(s)
      /\ t.exit_at = j
      /\ t.exit = exit
      /\ t.reason = reason
  OBVIOUS
<1>8. EntryAt(s) = s.after + 1 /\ EntryAt(s) > s.after
  BY <1>4 DEF EntryAt
<1>9. Entry(s) = candles[s.after + 1].open + Direction(s) * config.slippage_points
  BY <1>8 DEF Entry
<1> HIDE DEF t, s
<1>10. IsReplay(t, candles)
  BY <1>5, <1>6, <1>7, <1>8, <1>9 DEF IsReplay, s
<1> QED
  BY <1>1, <1>3, <1>7, <1>8, <1>10 DEF Booked, t, s

\* A trade stays the same when the candles are cut off after its exit.
LEMMA PrefixReplays ==
  ASSUME request \in Requests, NEW t, Booked(t), NEW n \in t.exit_at .. Len(candles)
  PROVE  IsReplay(t, SubSeq(candles, 1, n))
<1> DEFINE cs == SubSeq(candles, 1, n)
<1>1. /\ t.signal \in Signal
      /\ t.signal.after \in Nat
      /\ t.exit_at \in Nat
      /\ t.entry_at = t.signal.after + 1
      /\ candles \in Seq(Candle)
      /\ Len(candles) \in Nat
      /\ config.max_holding_bars \in Nat
  BY RequestTyped DEF Booked, Trade, Signal, Config
<1>2. t.exit_at \in t.entry_at .. Smaller(t.signal.after + config.max_holding_bars, Len(candles))
  BY DEF Booked, IsReplay
<1>3. /\ Len(cs) = n
      /\ \A k \in 1 .. n : cs[k] = candles[k]
  BY <1>1, <1>2, SubSeqProperties
<1> HIDE DEF cs
<1>4. /\ \A k \in t.entry_at .. t.exit_at : cs[k] = candles[k]
      /\ cs[t.signal.after + 1] = candles[t.signal.after + 1]
      /\ cs[t.exit_at] = candles[t.exit_at]
  <2>1. 1 <= t.entry_at /\ t.entry_at <= t.exit_at /\ t.exit_at <= n
    BY <1>1, <1>2 DEF Smaller
  <2> QED
    BY <1>1, <1>3, <2>1
<1>5. /\ t.exit_at \in t.entry_at .. Smaller(t.signal.after + config.max_holding_bars, Len(cs))
      /\ t.exit_at = Smaller(t.signal.after + config.max_holding_bars, Len(candles))
           => t.exit_at = Smaller(t.signal.after + config.max_holding_bars, Len(cs))
  BY <1>1, <1>2, <1>3 DEF Smaller
<1>6. \A k \in t.entry_at .. t.exit_at - 1 : cs[k] = candles[k]
  BY <1>1, <1>4
<1>7. IsReplay(t, cs)
  BY <1>4, <1>5, <1>6 DEF Booked, IsReplay
<1> QED
  BY <1>7 DEF cs

-----------------------------------------------------------------------------
(***************************************************************************)
(* The market.                                                             *)
(***************************************************************************)

\* An order of the trade fills within a candle just when the loop sees one of
\* its levels touched there.
LEMMA FillsWhenTouched ==
  ASSUME request \in Requests, NEW s \in Signal, NEW c \in Candle, Coherent(c)
  PROVE  Fills(s, c) # {} <=> HitStop(s, c) \/ HitTarget(s, c)
<1>1. /\ c.open \in Int /\ s.stop_loss \in Int /\ s.target \in Int
      /\ config.slippage_points \in Nat
  BY RequestTyped DEF Signal, Candle, Config
<1>2. /\ Direction(s) * (c.open - s.stop_loss) <= 0 => HitStop(s, c)
      /\ Direction(s) * (c.open - s.target) >= 0 => HitTarget(s, c)
  BY <1>1 DEF Direction, HitStop, HitTarget, Coherent, Candle
<1>3. LevelsReached(s, c) # {} <=> HitStop(s, c) \/ HitTarget(s, c)
  BY <1>2 DEF LevelsReached
<1>4. 0 \in 0 .. config.slippage_points
  BY <1>1
<1>5. Fills(s, c) # {} <=> LevelsReached(s, c) # {}
  BY <1>4 DEF Fills
<1> QED
  BY <1>3, <1>5

\* Where the market does not open beyond the stop, no fill within the candle the
\* trade leaves on is worse than the exit of the replay.
LEMMA ExitIsWorstFill ==
  ASSUME request \in Requests, NEW s \in Signal, NEW c \in Candle, Coherent(c), Enters(s),
         Direction(s) * (c.open - s.stop_loss) > 0, NEW exit,
         \/ HitStop(s, c) /\ exit = ExitPrice(s, s.stop_loss)
         \/ ~HitStop(s, c) /\ exit = ExitPrice(s, s.target),
         NEW x \in Fills(s, c)
  PROVE  Direction(s) * (x - exit) >= 0
<1>1. /\ c.open \in Int /\ s.stop_loss \in Int /\ s.target \in Int
      /\ config.slippage_points \in Nat
      /\ Entry(s) \in Int
      /\ s.side \in {"LONG", "SHORT"}
  BY RequestTyped, ReplayTyped DEF Signal, Candle, Config
<1>2. PICK level \in LevelsReached(s, c) : \E slip \in 0 .. config.slippage_points :
        x = level - Direction(s) * slip
  BY DEF Fills
<1> PICK slip \in 0 .. config.slippage_points : x = level - Direction(s) * slip
  BY <1>2
<1>3. \/ level = c.open /\ Direction(s) * (c.open - s.target) >= 0
      \/ level = s.stop_loss /\ HitStop(s, c)
      \/ level = s.target
  BY <1>1 DEF LevelsReached, Direction
<1>4. CASE s.side = "LONG"
  <2>1. Direction(s) = 1
    BY <1>4 DEF Direction
  <2>2. s.stop_loss < s.target
    BY <1>1, <1>4 DEF Enters
  <2> QED
    BY <1>1, <1>3, <2>1, <2>2 DEF ExitPrice
<1>5. CASE s.side = "SHORT"
  <2>1. Direction(s) = -1
    BY <1>5 DEF Direction
  <2>2. s.target < s.stop_loss
    BY <1>1, <1>5 DEF Enters
  <2> QED
    BY <1>1, <1>3, <2>1, <2>2 DEF ExitPrice
<1> QED
  BY <1>1, <1>4, <1>5

\* No course of the market gives a booked trade a worse exit.
LEMMA BookedIsWorst ==
  ASSUME request \in Requests, NEW t, Booked(t), ~GapsThroughStop(t)
  PROVE  LET s == t.signal
             untouched(n) == \A b \in t.entry_at .. n : Fills(s, candles[b]) = {}
             noBetterThan(x) == Direction(s) * (x - t.exit) >= 0
         IN /\ \A at \in t.entry_at .. LastBar(s) :
                 untouched(at - 1) => \A x \in Fills(s, candles[at]) : noBetterThan(x)
            /\ untouched(LastBar(s)) => noBetterThan(candles[LastBar(s)].close)
<1> DEFINE s == t.signal
           c == candles[t.exit_at]
           last == LastBar(s)
<1>1. /\ s \in Signal
      /\ Enters(s)
      /\ t.exit_at \in Int /\ t.entry_at \in Int
      /\ t.exit \in Int
      /\ t.entry_at >= 1
      /\ last \in Int
      /\ last <= Len(candles)
      /\ Len(candles) \in Nat
      /\ t.entry_at = EntryAt(s)
  BY ReplayTyped, RequestTyped DEF Booked, Trade, EntryAt, Signal
<1>2. /\ t.exit_at >= t.entry_at
      /\ t.exit_at <= last
      /\ t.reason = "TIME_EXIT" => t.exit_at = last
  <2>1. s.after \in Nat /\ config.max_holding_bars \in Nat
    BY <1>1, RequestTyped DEF Signal, Config
  <2>2. last = Smaller(s.after + config.max_holding_bars, Len(candles))
    BY <2>1 DEF LastBar, EntryAt
  <2> QED
    BY <1>1, <2>2 DEF Booked, IsReplay
<1>3. \A b \in t.entry_at .. last : candles[b] \in Candle /\ Coherent(candles[b])
  BY <1>1, RequestTyped, LenProperties
<1>4. /\ c \in Candle /\ Coherent(c)
  BY <1>1, <1>2, <1>3
<1>5. /\ \A k \in t.entry_at .. t.exit_at - 1 : ~HitStop(s, candles[k]) /\ ~HitTarget(s, candles[k])
      /\ \/ HitStop(s, c) /\ t.exit = ExitPrice(s, s.stop_loss)
         \/ ~HitStop(s, c) /\ HitTarget(s, c) /\ t.exit = ExitPrice(s, s.target)
         \/ /\ ~HitStop(s, c) /\ ~HitTarget(s, c)
            /\ t.exit_at = last /\ t.exit = c.close
  BY <1>2 DEF Booked, IsReplay
<1>6. Direction(s) * (c.open - s.stop_loss) > 0
  <2>1. c.open - s.stop_loss \in Int
    <3>1. \A o \in Candle, v \in Signal : o.open - v.stop_loss \in Int
      BY DEF Signal, Candle
    <3> QED
      BY <1>1, <1>4, <3>1
  <2>2. Direction(s) * (c.open - s.stop_loss) \in Int
    BY <1>1, <2>1, DirectionIsSign
  <2> QED
    BY <2>2 DEF GapsThroughStop
<1> HIDE DEF s, c, last
<1>7. ASSUME NEW at \in t.entry_at .. last,
             \A b \in t.entry_at .. at - 1 : Fills(s, candles[b]) = {},
             NEW x \in Fills(s, candles[at])
      PROVE  Direction(s) * (x - t.exit) >= 0
  <2>1. CASE at < t.exit_at
    <3>1. ~HitStop(s, candles[at]) /\ ~HitTarget(s, candles[at])
      BY <1>1, <1>5, <2>1
    <3> QED
      BY <1>1, <1>3, <3>1, <1>7, FillsWhenTouched
  <2>2. CASE at = t.exit_at
    <3>1. candles[at] = c
      BY <2>2 DEF c
    <3>2. HitStop(s, c) \/ HitTarget(s, c)
      BY <1>1, <1>4, <1>7, <3>1, FillsWhenTouched
    <3> QED
      BY <1>1, <1>4, <1>5, <1>6, <1>7, <3>1, <3>2, ExitIsWorstFill
  <2>3. CASE at > t.exit_at
    <3>1. t.exit_at \in t.entry_at .. at - 1 /\ t.exit_at # last
      BY <1>1, <1>2, <2>3
    <3>2. Fills(s, c) = {}
      BY <1>7, <3>1 DEF c
    <3> QED
      BY <1>1, <1>4, <1>5, <3>1, <3>2, FillsWhenTouched
  <2> QED
    BY <1>1, <2>1, <2>2, <2>3
<1>8. ASSUME \A b \in t.entry_at .. last : Fills(s, candles[b]) = {}
      PROVE  Direction(s) * (candles[last].close - t.exit) >= 0
  <2> t.exit_at \in t.entry_at .. last
    BY <1>1, <1>2
  <2>1. Fills(s, c) = {}
    BY <1>8 DEF c
  <2>2. t.exit_at = last /\ t.exit = c.close
    BY <1>1, <1>4, <1>5, <2>1, FillsWhenTouched
  <2>3. candles[last].close - t.exit = 0
    BY <1>1, <2>2 DEF c
  <2> QED
    BY <2>3, <1>1, DirectionIsSign
<1> QED
  BY <1>7, <1>8 DEF s, last

-----------------------------------------------------------------------------
(***************************************************************************)
(* The invariant.                                                          *)
(***************************************************************************)
LEMMA InitInv == ReplayInit => Inv
<1> SUFFICES ASSUME ReplayInit PROVE Inv
  OBVIOUS
<1>1. ReplayTypeOK
  BY DEF ReplayInit, ReplayTypeOK, NoSummary
<1>2. BarInv
  BY DEF ReplayInit, BarInv
<1>3. BookedInv
  BY DEF ReplayInit, BookedInv
<1>4. SplitInv
  BY DEF ReplayInit, SplitInv
<1>5. CoverInv
  BY DEF ReplayInit, CoverInv
<1> QED
  BY <1>1, <1>2, <1>3, <1>4, <1>5 DEF Inv

\* What is said of a trade, of a signal and of the requested splits depends on
\* the request only.
LEMMA SameRequest ==
  ASSUME UNCHANGED request
  PROVE  /\ (\A k \in DOMAIN trades' : Booked(trades'[k])) => BookedInv'
         /\ candles' = candles
         /\ wf' = wf
         /\ WantsSplits' = WantsSplits
         /\ ValidSizes' = ValidSizes
         /\ Step' = Step
         /\ \A s : /\ EntryAt(s)' = EntryAt(s)
                   /\ LastBar(s)' = LastBar(s)
                   /\ Enters(s)' = Enters(s)
  BY DEF BookedInv, Booked, IsReplay, candles, config, wf, WantsSplits, ValidSizes, Step, EntryAt,
         LastBar, Enters, Entry, ExitPrice

\* A trade that is booked joins trades that are.
LEMMA LeaveKeepsTrades ==
  ASSUME Inv, pc = "bar", NEW exit, NEW reason, LeaveTrade(exit, reason),
         Booked([signal |-> request.signals[i], entry_at |-> EntryAt(request.signals[i]),
                 entry |-> Entry(request.signals[i]), exit_at |-> j, exit |-> exit,
                 reason |-> reason, net_pnl |-> Net(request.signals[i], exit)])
  PROVE  /\ trades' \in Seq(Trade)
         /\ \A k \in DOMAIN trades' : Booked(trades'[k])
<1> DEFINE t == [signal |-> request.signals[i], entry_at |-> EntryAt(request.signals[i]),
                 entry |-> Entry(request.signals[i]), exit_at |-> j, exit |-> exit,
                 reason |-> reason, net_pnl |-> Net(request.signals[i], exit)]
<1>1. trades' = Append(trades, t)
  BY DEF LeaveTrade
<1>2. t \in Trade /\ trades \in Seq(Trade)
  BY DEF Booked, Inv, ReplayTypeOK
<1>3. Booked(t) /\ \A k \in DOMAIN trades : Booked(trades[k])
  BY DEF Inv, BookedInv
<1> HIDE DEF t
<1>4. trades' \in Seq(Trade) /\ DOMAIN trades' = 1 .. Len(trades) + 1
  BY <1>1, <1>2, AppendProperties, LenProperties
<1>5. ASSUME NEW k \in DOMAIN trades'
      PROVE  Booked(trades'[k])
  <2>1. CASE k \in 1 .. Len(trades)
    BY <1>1, <1>2, <1>3, <2>1, AppendProperties, LenProperties
  <2>2. CASE k = Len(trades) + 1
    BY <1>1, <1>2, <1>3, <2>2, AppendProperties
  <2>3. Len(trades) \in Nat
    BY <1>2, LenProperties
  <2> QED
    BY <1>4, <2>1, <2>2, <2>3
<1> QED
  BY <1>4, <1>5

\* One iteration of the inner loop.
LEMMA BarStep ==
  ASSUME Inv, ReplayBar
  PROVE  Inv'
<1> DEFINE s == request.signals[i]
           c == candles[j]
<1>1. /\ request \in Requests
      /\ pc = "bar"
      /\ BarInv
      /\ ReplayTypeOK
      /\ i \in Nat /\ j \in Nat
      /\ request' = request
      /\ UNCHANGED <<summary, train_end, splits>>
  BY DEF Inv, ReplayTypeOK, ReplayBar, LeaveTrade
<1>2. ASSUME NEW exit, NEW reason, LeaveTrade(exit, reason),
             \/ /\ reason = "STOP_LOSS" /\ HitStop(s, c)
                /\ exit = ExitPrice(s, s.stop_loss)
             \/ /\ reason = "TARGET" /\ ~HitStop(s, c) /\ HitTarget(s, c)
                /\ exit = ExitPrice(s, s.target)
             \/ /\ reason = "TIME_EXIT" /\ ~HitStop(s, c) /\ ~HitTarget(s, c)
                /\ j = LastBar(s) /\ exit = c.close
      PROVE  Inv'
  <2>1. /\ trades' \in Seq(Trade)
        /\ \A k \in DOMAIN trades' : Booked(trades'[k])
    BY <1>1, <1>2, LeavingIsBooked, LeaveKeepsTrades
  <2>2. BookedInv'
    BY <1>1, <2>1, SameRequest
  <2>3. pc' = "signal" /\ i' = i + 1 /\ j' = j
    BY <1>2 DEF LeaveTrade
  <2>4. ReplayTypeOK'
    BY <1>1, <2>1, <2>3 DEF ReplayTypeOK
  <2>5. BarInv' /\ CoverInv'
    BY <2>3 DEF BarInv, CoverInv
  <2>6. SplitInv'
    BY <1>1, <2>3, SameRequest DEF Inv, SplitInv
  <2> QED
    BY <2>2, <2>4, <2>5, <2>6 DEF Inv
<1>3. ASSUME ~HitStop(s, c), ~HitTarget(s, c), j < LastBar(s), j' = j + 1,
             UNCHANGED <<request, pc, i, trades, summary, train_end, splits>>
      PROVE  Inv'
  <2>1. ReplayTypeOK'
    BY <1>1, <1>3 DEF ReplayTypeOK
  <2>2. BarInv'
    <3>1. /\ s \in Signal
          /\ Enters(s)
          /\ i \in DOMAIN request.signals
          /\ j \in EntryAt(s) .. LastBar(s)
          /\ \A k \in EntryAt(s) .. j - 1 : ~HitStop(s, candles[k]) /\ ~HitTarget(s, candles[k])
      BY <1>1, BarTyped DEF BarInv
    <3>2. EntryAt(s) \in Int /\ LastBar(s) \in Int
      BY <1>1, <3>1, ReplayTyped
    <3>3. j + 1 \in EntryAt(s) .. LastBar(s)
      BY <1>1, <1>3, <3>1, <3>2
    <3>4. \A k \in EntryAt(s) .. (j + 1) - 1 : ~HitStop(s, candles[k]) /\ ~HitTarget(s, candles[k])
      BY <1>1, <1>3, <3>1, <3>2
    <3>5. request.signals'[i'] = s /\ candles' = candles
      BY <1>3 DEF candles
    <3> QED
      BY <1>1, <1>3, <3>1, <3>3, <3>4, <3>5, SameRequest DEF BarInv, HitStop, HitTarget
  <2>3. BookedInv'
    BY <1>1, <1>3, SameRequest DEF Inv, BookedInv
  <2>4. SplitInv' /\ CoverInv'
    BY <1>1, <1>3, SameRequest DEF Inv, SplitInv, CoverInv
  <2> QED
    BY <2>1, <2>2, <2>3, <2>4 DEF Inv
<1> QED
  BY <1>2, <1>3 DEF ReplayBar

\* The steps between the loops, and summarize_trades.
LEMMA OuterStep ==
  ASSUME Inv, \/ SkipSignal \/ EnterTrade \/ StartSummary \/ CountTrade
              \/ StartSplits \/ EndSplits \/ UNCHANGED vars
  PROVE  Inv'
<1> USE DEF replayVars
<1>1. /\ ReplayTypeOK /\ BarInv /\ BookedInv /\ SplitInv /\ CoverInv
      /\ UNCHANGED <<request, trades, splits>>
  BY DEF Inv, SkipSignal, EnterTrade, StartSummary, CountTrade, StartSplits, EndSplits, vars
<1>2. BookedInv'
  BY <1>1, SameRequest DEF BookedInv
<1>3. /\ RateScale \in Nat
      /\ config.initial_capital \in Nat
      /\ wf \in WalkForward
      /\ request.signals \in Seq(Signal)
  BY <1>1, RequestTyped, ReplayAssumption DEF ReplayTypeOK, Config
<1>4. CASE SkipSignal \/ UNCHANGED vars
  <2>1. ReplayTypeOK'
    <3>1. UNCHANGED <<request, pc, j, trades, summary, train_end, splits>>
      BY <1>4 DEF SkipSignal, vars
    <3>2. i' \in Nat \ {0}
      <4>1. i \in Nat \ {0} /\ i' \in {i, i + 1}
        BY <1>1, <1>4 DEF ReplayTypeOK, SkipSignal, vars
      <4> QED
        BY <4>1
    <3> QED
      BY <1>1, <3>1, <3>2 DEF ReplayTypeOK
  <2>2. BarInv'
    <3>1. CASE SkipSignal
      BY <3>1 DEF SkipSignal, BarInv
    <3>2. CASE UNCHANGED vars
      <4>1. UNCHANGED <<request, pc, i, j>>
        BY <3>2 DEF vars
      <4> QED
        BY <1>1, <4>1, SameRequest DEF BarInv, HitStop, HitTarget
    <3> QED
      BY <1>4, <3>1, <3>2
  <2>3. SplitInv' /\ CoverInv'
    <3>1. UNCHANGED <<request, pc, train_end, splits>>
      BY <1>4 DEF SkipSignal, vars
    <3>2. SplitInv'
      BY <1>1, <3>1, SameRequest DEF SplitInv
    <3>3. CoverInv'
      BY <1>1, <3>1, SameRequest DEF CoverInv, Covers, Fits
    <3> QED
      BY <3>2, <3>3
  <2> QED
    BY <1>2, <2>1, <2>2, <2>3 DEF Inv
<1>5. CASE EnterTrade
  <2> DEFINE s == request.signals[i]
  <2>1. i \in DOMAIN request.signals /\ s \in Signal /\ Enters(s)
    BY <1>5, <1>1, <1>3, ElementOfSeq, LenProperties DEF EnterTrade, ReplayTypeOK
  <2>2. EntryAt(s) \in Nat /\ EntryAt(s) <= LastBar(s) /\ LastBar(s) \in Int
    BY <1>1, <2>1, ReplayTyped DEF ReplayTypeOK
  <2>3. j' = EntryAt(s) /\ i' = i /\ pc' = "bar" /\ UNCHANGED <<summary, train_end>>
    BY <1>5 DEF EnterTrade
  <2>4. ReplayTypeOK'
    BY <1>1, <2>2, <2>3 DEF ReplayTypeOK
  <2>5. BarInv'
    BY <1>1, <2>1, <2>2, <2>3, SameRequest DEF BarInv
  <2>6. SplitInv' /\ CoverInv'
    BY <1>5, <1>1, <2>3, SameRequest DEF SplitInv, CoverInv, EnterTrade
  <2> QED
    BY <1>2, <2>4, <2>5, <2>6 DEF Inv
<1>6. CASE StartSummary \/ CountTrade
  <2>1. summary' \in [counted : Nat, wins : Nat, losses : Nat,
                      equity : Int, peak : Int, max_drawdown : Int]
    <3>1. CASE StartSummary
      <4>1. config.initial_capital * RateScale \in Int
        BY <1>3
      <4>2. summary' = [counted |-> 0, wins |-> 0, losses |-> 0,
                        equity |-> config.initial_capital * RateScale,
                        peak |-> config.initial_capital * RateScale, max_drawdown |-> 0]
        BY <3>1 DEF StartSummary, NoSummary
      <4> QED
        BY <4>1, <4>2
    <3>2. CASE CountTrade
      <4>1. summary.counted + 1 \in 1 .. Len(trades)
        BY <3>2, <1>1, LenProperties DEF CountTrade, ReplayTypeOK
      <4>2. trades[summary.counted + 1] \in Trade
        BY <4>1, <1>1, ElementOfSeq, Zenon DEF ReplayTypeOK
      <4>3. trades[summary.counted + 1].net_pnl \in Int
        BY <4>2 DEF Trade
      <4> DEFINE pnl == trades[summary.counted + 1].net_pnl
                 equity == summary.equity + pnl
      <4>4. /\ summary.counted \in Nat /\ summary.wins \in Nat /\ summary.losses \in Nat
            /\ summary.equity \in Int /\ summary.peak \in Int /\ summary.max_drawdown \in Int
        BY <1>1 DEF ReplayTypeOK
      <4>5. equity \in Int
        BY <4>3, <4>4
      <4>6. /\ Larger(summary.peak, equity) \in Int
            /\ Drawdown(summary, equity) \in Int
        BY <4>4, <4>5 DEF Drawdown, Larger
      <4>7. /\ summary.wins + (IF pnl > 0 THEN 1 ELSE 0) \in Nat
            /\ summary.losses + (IF pnl < 0 THEN 1 ELSE 0) \in Nat
            /\ summary.counted + 1 \in Nat
        BY <4>4
      <4> QED
        BY <3>2, <4>5, <4>6, <4>7 DEF CountTrade
    <3> QED
      BY <1>6, <3>1, <3>2
  <2>2. /\ pc \in {"signal", "summary"}
        /\ pc' = "summary"
        /\ UNCHANGED <<i, j, train_end>>
    BY <1>6 DEF StartSummary, CountTrade, NoSignalLeft
  <2>3. ReplayTypeOK'
    BY <1>1, <2>1, <2>2 DEF ReplayTypeOK
  <2>4. BarInv' /\ CoverInv'
    BY <2>2 DEF BarInv, CoverInv
  <2>5. SplitInv'
    BY <1>1, <2>2, SameRequest DEF SplitInv
  <2> QED
    BY <1>2, <2>3, <2>4, <2>5 DEF Inv
<1>7. CASE StartSplits
  <2>1. /\ splits = << >>
        /\ pc' \in {"splits", "done", "error"}
        /\ pc' = "splits" => WantsSplits /\ ValidSizes /\ train_end' = wf.train_size
        /\ pc' # "splits" => train_end' = 0
        /\ pc' = "done" => ~WantsSplits
        /\ UNCHANGED <<i, j, summary>>
    BY <1>7, <1>1 DEF StartSplits, SplitInv
  <2>2. wf.train_size \in Int /\ (ValidSizes => wf.train_size \in Nat)
    BY <1>3 DEF WalkForward, ValidSizes
  <2>3. ReplayTypeOK'
    BY <1>1, <2>1, <2>2 DEF ReplayTypeOK
  <2>4. BarInv'
    BY <2>1 DEF BarInv
  <2>5. SplitInv'
    BY <1>1, <2>1, <2>2, SameRequest DEF SplitInv
  <2>6. CoverInv'
    <3>1. DOMAIN splits' = {} /\ (pc' = "splits" => wf.train_size .. train_end' - 1 = {})
      BY <1>1, <2>1, <2>2
    <3> QED
      BY <1>1, <2>1, <3>1, SameRequest DEF CoverInv
  <2> QED
    BY <1>2, <2>3, <2>4, <2>5, <2>6 DEF Inv
<1>8. CASE EndSplits
  <2>1. /\ pc = "splits" /\ pc' = "done" /\ ~Fits
        /\ UNCHANGED <<i, j, summary, train_end>>
    BY <1>8 DEF EndSplits
  <2>2. ReplayTypeOK'
    BY <1>1, <2>1 DEF ReplayTypeOK
  <2>3. BarInv'
    BY <2>1 DEF BarInv
  <2>4. SplitInv'
    BY <1>1, <2>1, SameRequest DEF SplitInv
  <2>5. CoverInv'
    BY <1>1, <2>1, SameRequest DEF CoverInv, Covers, Fits
  <2> QED
    BY <1>2, <2>2, <2>3, <2>4, <2>5 DEF Inv
<1> QED
  BY <1>4, <1>5, <1>6, <1>7, <1>8

\* One more split.
LEMMA AddSplitStep ==
  ASSUME Inv, AddSplit
  PROVE  Inv'
<1> DEFINE new == [train_start |-> 0, train_end |-> train_end,
                   test_start |-> train_end, test_end |-> train_end + wf.test_size]
           n == Len(splits)
<1>1. /\ ReplayTypeOK /\ BarInv /\ BookedInv /\ SplitInv /\ CoverInv
      /\ pc = "splits" /\ Fits
      /\ splits' = Append(splits, new)
      /\ train_end' = train_end + Step
      /\ UNCHANGED <<request, pc, i, j, trades, summary>>
  BY DEF Inv, AddSplit, replayVars
<1>2. /\ WantsSplits /\ ValidSizes
      /\ train_end \in Nat /\ train_end >= wf.train_size
      /\ splits \in Seq(Split)
      /\ wf \in WalkForward
      /\ Len(candles) \in Nat
  BY <1>1, RequestTyped DEF SplitInv, ReplayTypeOK
<1>3. /\ wf.test_size \in Nat \ {0}
      /\ Step \in Nat \ {0}
      /\ wf.train_size \in Nat \ {0}
  BY <1>2 DEF ValidSizes, WalkForward, Step
<1>4. new \in Split
  BY <1>2, <1>3 DEF Split
<1>5. /\ splits' \in Seq(Split)
      /\ splits' # << >>
      /\ DOMAIN splits' = 1 .. n + 1
      /\ DOMAIN splits = 1 .. n
      /\ n \in Nat
      /\ \A k \in 1 .. n : splits'[k] = splits[k]
      /\ splits'[n + 1] = new
  BY <1>1, <1>2, <1>4, AppendProperties, LenProperties
<1>6. /\ new.train_end = train_end
      /\ new.test_start = train_end
      /\ new.test_end = train_end + wf.test_size
      /\ train_end + wf.test_size <= Len(candles)
  BY <1>1 DEF Fits
<1> HIDE DEF new
<1>7. ReplayTypeOK'
  BY <1>1, <1>2, <1>3, <1>5 DEF ReplayTypeOK
<1>8. BarInv'
  BY <1>1 DEF BarInv
<1>9. BookedInv'
  BY <1>1, SameRequest DEF BookedInv
<1>10. SplitInv'
  <2>1. ASSUME NEW k \in DOMAIN splits'
        PROVE  /\ splits'[k].train_end <= splits'[k].test_start
               /\ splits'[k].test_start < splits'[k].test_end
               /\ splits'[k].test_end <= Len(candles)
    BY <1>1, <1>2, <1>3, <1>5, <1>6 DEF SplitInv
  <2> QED
    BY <1>1, <1>2, <1>3, <1>5, <2>1, SameRequest DEF SplitInv
<1>11. ASSUME Step = wf.test_size
       PROVE  /\ \A k \in DOMAIN splits' : splits'[k].test_end <= train_end'
              /\ \A x \in wf.train_size .. train_end' - 1 : \E k \in DOMAIN splits' : Covers(splits', k, x)
              /\ \A x \in Int : \A k, l \in DOMAIN splits' : Covers(splits', k, x) /\ Covers(splits', l, x) => k = l
  <2>1. /\ \A k \in 1 .. n : splits[k].test_end <= train_end
        /\ \A x \in wf.train_size .. train_end - 1 : \E k \in 1 .. n : Covers(splits, k, x)
        /\ \A x \in Int : \A k, l \in 1 .. n : Covers(splits, k, x) /\ Covers(splits, l, x) => k = l
    BY <1>1, <1>2, <1>5, <1>11 DEF CoverInv
  <2>2. \A k \in 1 .. n : splits[k].test_end \in Nat
    <3>1. \A k \in 1 .. n : splits[k] \in Split
      BY <1>2, ElementOfSeq
    <3> QED
      BY <3>1 DEF Split
  <2>3. /\ \A x : \A k \in 1 .. n : Covers(splits', k, x) <=> Covers(splits, k, x)
        /\ \A x : Covers(splits', n + 1, x) <=> train_end <= x /\ x < train_end'
    BY <1>1, <1>5, <1>6, <1>11 DEF Covers
  <2>4. \A x \in Int : \A k \in 1 .. n : Covers(splits, k, x) => x < train_end
    BY <1>2, <2>1, <2>2 DEF Covers
  <2>5. \A k \in DOMAIN splits' : splits'[k].test_end <= train_end'
    BY <1>1, <1>2, <1>3, <1>5, <1>6, <1>11, <2>1, <2>2
  <2>6. ASSUME NEW x \in wf.train_size .. train_end' - 1
        PROVE  \E k \in DOMAIN splits' : Covers(splits', k, x)
    <3>1. CASE x < train_end
      BY <1>2, <1>3, <1>5, <2>1, <2>3, <3>1
    <3>2. CASE x >= train_end
      BY <1>1, <1>2, <1>3, <1>5, <2>3, <3>2
    <3> QED
      BY <1>2, <1>3, <3>1, <3>2
  <2>7. ASSUME NEW x \in Int, NEW k \in DOMAIN splits', NEW l \in DOMAIN splits',
               Covers(splits', k, x), Covers(splits', l, x)
        PROVE  k = l
    BY <1>2, <1>5, <2>1, <2>3, <2>4, <2>7
  <2> QED
    BY <2>5, <2>6, <2>7
<1>12. CoverInv'
  BY <1>1, <1>11, SameRequest DEF CoverInv
<1> QED
  BY <1>7, <1>8, <1>9, <1>10, <1>12 DEF Inv

-----------------------------------------------------------------------------
(***************************************************************************)
(* The drawdown.  The provers see the recursive function Equity as a       *)
(* CHOOSE of one that satisfies its equation, so that one exists is shown  *)
(* first: by a smallest counterexample for its beginnings, which agree.    *)
(***************************************************************************)

LEMMA SmallestNumber ==
  ASSUME NEW B, B \subseteq Nat, B # {}
  PROVE  \E n \in B : \A m \in B : n <= m
<1>1. PICK n \in B : \A m \in B : <<m, n>> \notin OpToRel(<, Nat)
  BY NatLessThanWellFounded, WFMin
<1>2. ASSUME NEW m \in B
      PROVE  n <= m
  <2>1. ~(m < n)
    BY <1>1 DEF OpToRel
  <2> QED
    BY <2>1
<1> QED
  BY <1>2

\* The account a, started with e, has counted the first n of the results f.
Counts(a, e, f, n) ==
  a = [k \in 0 .. n |-> IF k = 0 THEN e ELSE a[k - 1] + f[k].net_pnl]

LEMMA CountsAgree ==
  ASSUME NEW e, NEW f, NEW m \in Nat, NEW n \in Nat, m <= n,
         NEW a, Counts(a, e, f, m), NEW b, Counts(b, e, f, n)
  PROVE  \A k \in 0 .. m : a[k] = b[k]
<1> DEFINE bad == {k \in 0 .. m : a[k] # b[k]}
<1> SUFFICES ASSUME bad # {} PROVE FALSE
  OBVIOUS
<1>1. PICK k \in bad : \A l \in bad : k <= l
  <2>1. bad \subseteq Nat
    OBVIOUS
  <2> HIDE DEF bad
  <2> QED
    BY <2>1, SmallestNumber
<1>2. /\ a[k] = IF k = 0 THEN e ELSE a[k - 1] + f[k].net_pnl
      /\ b[k] = IF k = 0 THEN e ELSE b[k - 1] + f[k].net_pnl
  BY DEF Counts
<1>3. k # 0
  BY <1>2
<1>4. k - 1 \in 0 .. m /\ k - 1 \notin bad
  BY <1>1, <1>3
<1> QED
  BY <1>2, <1>3, <1>4

LEMMA CountsExist ==
  ASSUME NEW e, NEW f, NEW n \in Nat
  PROVE  \E a : Counts(a, e, f, n)
<1> DEFINE bad == {k \in Nat : ~\E a : Counts(a, e, f, k)}
<1> SUFFICES ASSUME bad # {} PROVE FALSE
  OBVIOUS
<1>1. PICK k \in bad : \A l \in bad : k <= l
  <2>1. bad \subseteq Nat
    OBVIOUS
  <2> HIDE DEF bad
  <2> QED
    BY <2>1, SmallestNumber
<1>2. CASE k = 0
  <2> DEFINE a == [l \in 0 .. 0 |-> e]
  <2>1. Counts(a, e, f, 0)
    BY DEF Counts
  <2> QED
    BY <1>2, <2>1
<1>3. CASE k # 0
  <2>1. k - 1 \in Nat /\ k - 1 \notin bad
    BY <1>1, <1>3
  <2>2. PICK b : Counts(b, e, f, k - 1)
    BY <2>1
  <2> DEFINE a == [l \in 0 .. k |-> IF l = k THEN b[k - 1] + f[k].net_pnl ELSE b[l]]
  <2>3. ASSUME NEW l \in 0 .. k
        PROVE  a[l] = IF l = 0 THEN e ELSE a[l - 1] + f[l].net_pnl
    <3>1. CASE l = k
      <4>1. l - 1 \in 0 .. k /\ l - 1 # k /\ l # 0
        BY <1>3, <3>1
      <4> QED
        BY <3>1, <4>1
    <3>2. CASE l # k
      <4>1. l \in 0 .. k - 1 /\ (l # 0 => l - 1 \in 0 .. k /\ l - 1 # k)
        BY <3>2
      <4>2. b[l] = IF l = 0 THEN e ELSE b[l - 1] + f[l].net_pnl
        BY <2>2, <4>1 DEF Counts
      <4> QED
        BY <3>2, <4>1, <4>2
    <3> QED
      BY <3>1, <3>2
  <2>4. a = [l \in 0 .. k |-> a[l]]
    OBVIOUS
  <2>5. Counts(a, e, f, k)
    <3> HIDE DEF a
    <3> QED
      BY <2>3, <2>4 DEF Counts
  <2> QED
    BY <2>5
<1> QED
  BY <1>2, <1>3

\* The equation of Equity, for any start and any results.
Account(a, e, f) == a = [n \in Nat |-> IF n = 0 THEN e ELSE a[n - 1] + f[n].net_pnl]

LEMMA AccountExists ==
  ASSUME NEW e, NEW f
  PROVE  \E a : Account(a, e, f)
<1> DEFINE upTo(n) == CHOOSE a : Counts(a, e, f, n)
           a == [n \in Nat |-> upTo(n)[n]]
<1>1. ASSUME NEW n \in Nat
      PROVE  Counts(upTo(n), e, f, n)
  BY CountsExist
<1> HIDE DEF upTo
<1>2. ASSUME NEW n \in Nat
      PROVE  a[n] = IF n = 0 THEN e ELSE a[n - 1] + f[n].net_pnl
  <2>1. upTo(n)[n] = IF n = 0 THEN e ELSE upTo(n)[n - 1] + f[n].net_pnl
    <3>1. Counts(upTo(n), e, f, n) /\ n \in 0 .. n
      BY <1>1
    <3> HIDE DEF a
    <3> QED
      BY <3>1 DEF Counts
  <2>2. CASE n # 0
    <3>1. n - 1 \in Nat /\ n - 1 <= n /\ n - 1 \in 0 .. n - 1
      BY <2>2
    <3>2. upTo(n - 1)[n - 1] = upTo(n)[n - 1]
      BY <1>1, <3>1, CountsAgree
    <3> QED
      BY <2>1, <2>2, <3>1, <3>2
  <2> QED
    BY <2>1, <2>2
<1>3. a = [n \in Nat |-> a[n]]
  OBVIOUS
<1> HIDE DEF a
<1>4. Account(a, e, f)
  BY <1>2, <1>3 DEF Account
<1> QED
  BY <1>4

\* What the account is worth after each trade.
LEMMA EquityFacts ==
  ASSUME ReplayTypeOK
  PROVE  /\ Equity[0] = config.initial_capital * RateScale
         /\ \A n \in 1 .. Len(trades) : Equity[n] = Equity[n - 1] + trades[n].net_pnl
         /\ \A n \in 0 .. Len(trades) : Equity[n] \in Int
<1> DEFINE e == config.initial_capital * RateScale
<1>1. Equity = CHOOSE a : Account(a, e, trades)
  BY DEF Equity, Account
<1>2. Account(Equity, e, trades)
  BY <1>1, AccountExists
<1>3. e \in Int
  BY RequestTyped, ReplayAssumption DEF ReplayTypeOK, Config
<1> HIDE DEF e
<1>4. Equity[0] = e /\ \A n \in Nat \ {0} : Equity[n] = Equity[n - 1] + trades[n].net_pnl
  BY <1>2 DEF Account
<1>5. Len(trades) \in Nat /\ \A n \in 1 .. Len(trades) : trades[n].net_pnl \in Int
  <2>1. trades \in Seq(Trade)
    BY DEF ReplayTypeOK
  <2>2. Len(trades) \in Nat /\ \A n \in 1 .. Len(trades) : trades[n] \in Trade
    BY <2>1, ElementOfSeq, LenProperties
  <2> QED
    BY <2>2 DEF Trade
<1>6. \A n \in 0 .. Len(trades) : Equity[n] \in Int
  <2> DEFINE bad == {n \in 0 .. Len(trades) : Equity[n] \notin Int}
  <2> SUFFICES ASSUME bad # {} PROVE FALSE
    OBVIOUS
  <2>1. PICK n \in bad : \A m \in bad : n <= m
    <3>1. bad \subseteq Nat
      BY <1>5
    <3> HIDE DEF bad
    <3> QED
      BY <3>1, SmallestNumber
  <2>2. n # 0
    BY <1>3, <1>4
  <2>3. n \in 1 .. Len(trades) /\ n - 1 \in 0 .. Len(trades) /\ n - 1 \notin bad
    BY <1>5, <2>1, <2>2
  <2>4. Equity[n] = Equity[n - 1] + trades[n].net_pnl /\ Equity[n - 1] \in Int
    BY <1>4, <2>3
  <2> QED
    BY <1>5, <2>3, <2>4
<1> QED
  BY <1>4, <1>5, <1>6 DEF e

\* d is the worst fall among the first n trades.
WorstFall(d, n) ==
  /\ \E b \in 0 .. n : \E a \in 0 .. b : d = Equity[a] - Equity[b]
  /\ \A b \in 0 .. n : \A a \in 0 .. b : Equity[a] - Equity[b] <= d

Peak(p, n) ==
  /\ \E a \in 0 .. n : p = Equity[a]
  /\ \A a \in 0 .. n : Equity[a] <= p

\* summarize_trades has counted the first trades, and all of them in the end.
DrawdownInv ==
  /\ pc = "summary" =>
       /\ summary.counted \in 0 .. Len(trades)
       /\ summary.equity = Equity[summary.counted]
       /\ Peak(summary.peak, summary.counted)
       /\ WorstFall(summary.max_drawdown, summary.counted)
  /\ pc \in {"splits", "done"} => WorstFall(summary.max_drawdown, Len(trades))

\* One more trade: its fall is the one from the peak so far.
LEMMA FallsTo ==
  ASSUME ReplayTypeOK, NEW n \in Nat, n < Len(trades),
         NEW p \in Int, Peak(p, n), NEW d \in Int, WorstFall(d, n)
  PROVE  LET q == Larger(p, Equity[n + 1])
         IN  Peak(q, n + 1) /\ WorstFall(Larger(d, q - Equity[n + 1]), n + 1)
<1> DEFINE q == Larger(p, Equity[n + 1])
           w == Larger(d, q - Equity[n + 1])
<1>1. /\ \A k \in 0 .. n + 1 : Equity[k] \in Int
      /\ n + 1 \in 0 .. n + 1
      /\ \A k \in 0 .. n + 1 : k \in 0 .. n \/ k = n + 1
      /\ 0 .. n \subseteq 0 .. n + 1
  BY EquityFacts, LenProperties DEF ReplayTypeOK
<1>2. q \in Int /\ w \in Int /\ p <= q /\ Equity[n + 1] <= q /\ q \in {p, Equity[n + 1]}
  BY <1>1 DEF Larger
<1>3. d <= w /\ q - Equity[n + 1] <= w /\ w \in {d, q - Equity[n + 1]}
  BY <1>1, <1>2 DEF Larger
<1> HIDE DEF q, w
<1>4. Peak(q, n + 1)
  <2>1. \A k \in 0 .. n + 1 : Equity[k] <= q
    BY <1>1, <1>2 DEF Peak
  <2>2. \E k \in 0 .. n + 1 : q = Equity[k]
    BY <1>1, <1>2 DEF Peak
  <2> QED
    BY <2>1, <2>2 DEF Peak
<1>5. WorstFall(w, n + 1)
  <2>1. ASSUME NEW b \in 0 .. n + 1, NEW a \in 0 .. b
        PROVE  Equity[a] - Equity[b] <= w
    <3>1. CASE b \in 0 .. n
      <4>1. Equity[a] - Equity[b] <= d /\ Equity[a] \in Int /\ Equity[b] \in Int
        BY <1>1, <3>1 DEF WorstFall
      <4> QED
        BY <1>2, <1>3, <4>1
    <3>2. CASE b = n + 1
      <4>1. Equity[a] <= q /\ Equity[a] \in Int /\ Equity[b] \in Int
        BY <1>1, <1>4, <3>2 DEF Peak
      <4> QED
        BY <1>2, <1>3, <3>2, <4>1
    <3> QED
      BY <1>1, <3>1, <3>2
  <2>2. \E b \in 0 .. n + 1 : \E a \in 0 .. b : w = Equity[a] - Equity[b]
    <3>1. CASE w = d
      BY <1>1, <3>1 DEF WorstFall
    <3>2. CASE w = q - Equity[n + 1]
      BY <1>1, <1>4, <3>2 DEF Peak
    <3> QED
      BY <1>3, <3>1, <3>2
  <2> QED
    BY <2>1, <2>2 DEF WorstFall
<1> QED
  BY <1>4, <1>5 DEF q, w

\* A step that leaves the request and the trades leaves the account.
LEMMA SameAccount ==
  ASSUME UNCHANGED <<request, trades>>
  PROVE  /\ Equity' = Equity
         /\ \A p, n : Peak(p, n)' <=> Peak(p, n)
         /\ \A d, n : WorstFall(d, n)' <=> WorstFall(d, n)
<1>1. Equity' = Equity
  BY DEF Equity, config
<1> QED
  BY <1>1 DEF Peak, WorstFall

LEMMA DrawdownStep ==
  ASSUME ReplayTypeOK, DrawdownInv, [ReplayNext]_vars
  PROVE  DrawdownInv'
<1> USE DEF replayVars
<1>1. CASE SkipSignal \/ EnterTrade \/ ReplayBar
  BY <1>1 DEF SkipSignal, EnterTrade, ReplayBar, LeaveTrade, DrawdownInv
<1>2. CASE StartSummary
  <2>1. /\ pc' = "summary" /\ UNCHANGED <<request, trades>>
        /\ summary'.counted = 0 /\ summary'.max_drawdown = 0
        /\ summary'.equity = Equity[0] /\ summary'.peak = Equity[0]
    BY <1>2, EquityFacts DEF StartSummary, NoSummary
  <2>2. Equity[0] \in Int /\ Len(trades) \in Nat
    BY EquityFacts, LenProperties DEF ReplayTypeOK
  <2>3. Peak(Equity[0], 0) /\ WorstFall(0, 0)
    BY <2>2 DEF Peak, WorstFall
  <2> QED
    BY <2>1, <2>2, <2>3, SameAccount DEF DrawdownInv
<1>3. CASE CountTrade
  <2> DEFINE n == summary.counted
  <2>1. /\ n \in Nat /\ n < Len(trades) /\ Len(trades) \in Nat
        /\ summary.peak \in Int /\ summary.max_drawdown \in Int
        /\ summary.equity = Equity[n]
        /\ Peak(summary.peak, n) /\ WorstFall(summary.max_drawdown, n)
    BY <1>3, LenProperties DEF CountTrade, DrawdownInv, ReplayTypeOK
  <2>2. Equity[n + 1] = Equity[n] + trades[n + 1].net_pnl
    <3>1. n + 1 \in 1 .. Len(trades) /\ (n + 1) - 1 = n
      BY <2>1
    <3> QED
      BY <3>1, EquityFacts
  <2> DEFINE q == Larger(summary.peak, Equity[n + 1])
             w == Larger(summary.max_drawdown, q - Equity[n + 1])
  <2>3. /\ pc' = "summary" /\ UNCHANGED <<request, trades>>
        /\ summary'.counted = n + 1 /\ summary'.equity = Equity[n + 1]
        /\ summary'.peak = q /\ summary'.max_drawdown = w
    BY <1>3, <2>1, <2>2 DEF CountTrade, Drawdown
  <2>4. Peak(q, n + 1) /\ WorstFall(w, n + 1)
    <3> HIDE DEF n
    <3> QED
      BY <2>1, FallsTo
  <2>5. n + 1 \in 0 .. Len(trades)
    BY <2>1
  <2> HIDE DEF q, w, n
  <2> QED
    BY <2>3, <2>4, <2>5, SameAccount DEF DrawdownInv
<1>4. CASE StartSplits
  <2>1. /\ UNCHANGED <<request, trades, summary>> /\ pc' \in {"splits", "done", "error"}
        /\ pc = "summary" /\ summary.counted = Len(trades)
    BY <1>4 DEF StartSplits
  <2> QED
    BY <2>1, SameAccount DEF DrawdownInv
<1>5. CASE AddSplit \/ EndSplits
  <2>1. /\ UNCHANGED <<request, trades, summary>> /\ pc = "splits" /\ pc' \in {"splits", "done"}
    BY <1>5 DEF AddSplit, EndSplits
  <2> QED
    BY <2>1, SameAccount DEF DrawdownInv
<1>6. CASE UNCHANGED vars
  <2>1. UNCHANGED <<request, trades, summary, pc>>
    BY <1>6 DEF vars
  <2> QED
    BY <2>1, SameAccount DEF DrawdownInv
<1> QED
  BY <1>1, <1>2, <1>3, <1>4, <1>5, <1>6 DEF ReplayNext

-----------------------------------------------------------------------------
(***************************************************************************)
(* The theorems.                                                           *)
(***************************************************************************)

\* The invariant above holds in every reachable state.
THEOREM ReplayInvariant == ReplaySpec => []Inv
<1>1. ASSUME Inv, [ReplayNext]_vars
      PROVE  Inv'
  BY <1>1, BarStep, OuterStep, AddSplitStep DEF ReplayNext
<1> QED
  BY InitInv, <1>1, PTL DEF ReplaySpec

\* replay_signals, summarize_trades and walk_forward_splits keep their types.
THEOREM ReplayTypeCorrect == ReplaySpec => []ReplayTypeOK
<1>1. Inv => ReplayTypeOK
  BY DEF Inv
<1> QED
  BY <1>1, ReplayInvariant, PTL

\* However long the history and whatever the signals, no trade of replay_signals
\* depends on a candle after its exit or before its signal.
THEOREM ReplayLooksNoFurther == ReplaySpec => []NoLookAhead
<1>1. Inv => NoLookAhead
  BY PrefixReplays DEF Inv, BookedInv, NoLookAhead, ReplayTypeOK
<1> QED
  BY <1>1, ReplayInvariant, PTL

\* Whatever the candles, the levels, the slippage and the holding period,
\* replay_signals gives no trade a better exit than the market could.
THEOREM ReplayIsPessimistic == ReplaySpec => []NoBetterThanMarket
<1>1. Inv => NoBetterThanMarket
  BY BookedIsWorst DEF Inv, BookedInv, NoBetterThanMarket, ReplayTypeOK
<1> QED
  BY <1>1, ReplayInvariant, PTL

\* For any sizes walk_forward_splits accepts, tests come after their training
\* and, with the default step, use each candle once.
THEOREM SplitsAreClean == ReplaySpec => []SplitsDoNotLeak
<1>1. ASSUME Inv
      PROVE  SplitsDoNotLeak
  <2>1. ASSUME pc = "done", WantsSplits, Step = wf.test_size,
               NEW x \in wf.train_size .. Len(candles) - 1
        PROVE  LET tested == {k \in DOMAIN splits : splits[k].test_start <= x /\ x < splits[k].test_end}
               IN /\ \A k, l \in tested : k = l
                  /\ tested = {} => x >= train_end /\ Len(candles) - train_end < wf.test_size
    <3>1. /\ ~Fits
          /\ \A y \in wf.train_size .. train_end - 1 : \E k \in DOMAIN splits : Covers(splits, k, y)
          /\ \A y \in Int : \A k, l \in DOMAIN splits : Covers(splits, k, y) /\ Covers(splits, l, y) => k = l
      BY <1>1, <2>1 DEF Inv, CoverInv
    <3>2. /\ train_end \in Nat /\ Len(candles) \in Nat
          /\ wf.train_size \in Int /\ wf.test_size \in Int
      BY <1>1, RequestTyped DEF Inv, ReplayTypeOK, WalkForward
    <3>3. Len(candles) - train_end < wf.test_size
      BY <3>1, <3>2 DEF Fits
    <3>4. x \in Int
      BY <3>2
    <3> QED
      BY <3>1, <3>2, <3>3, <3>4 DEF Covers
  <2> QED
    BY <1>1, <2>1 DEF Inv, SplitInv, SplitsDoNotLeak
<1> QED
  BY <1>1, ReplayInvariant, PTL

\* For any number of trades, the peak and the drawdown that summarize_trades
\* carries along give the worst fall of the account between any two moments.
THEOREM DrawdownIsExact == ReplaySpec => []DrawdownIsWorstFall
<1>1. ReplayInit => DrawdownInv
  BY DEF ReplayInit, DrawdownInv
<1>2. Inv /\ DrawdownInv /\ [ReplayNext]_vars => DrawdownInv'
  BY DrawdownStep DEF Inv
<1>3. DrawdownInv => DrawdownIsWorstFall
  BY DEF DrawdownInv, WorstFall, DrawdownIsWorstFall
<1> QED
  BY <1>1, <1>2, <1>3, ReplayInvariant, PTL DEF ReplaySpec
=============================================================================
