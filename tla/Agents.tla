-------------------------------- MODULE Agents --------------------------------
(***************************************************************************)
(* The analysing agents, app/agents/: each turns one market snapshot into  *)
(* a reading, a score of 0..100 and a direction.                           *)
(*                                                                         *)
(* A snapshot holds what the agents and the checklist tell apart:          *)
(*   vwap, open   close less VWAP, close less today's open (the sign)      *)
(*   gap          (ema20 - ema50) / ema50, in hundredths of a percent      *)
(*   rsi, macd    RSI(14), MACD histogram                                  *)
(*   volume       relative volume, in percent                              *)
(*   adx, atr     ADX(14), ATR as hundredths of a percent of the price     *)
(*   liquidity    dist_to_sell - dist_to_buy, in hundredths of a percent   *)
(*   wick         the last candle reaches across VWAP                      *)
(*   edges        the session extremes the last three candles came near    *)
(*                and the close is off                                     *)
(*   frames       timeframe -> signed bias, for the timeframes with data   *)
(*   chain        the option chain, or NoChain: pcr in percent, net = put  *)
(*                less call OI change in units of 50,000, zone = where     *)
(*                spot is to the call and put walls, rr of the ATM leg in  *)
(*                hundredths, or None                                      *)
(*   vetoes       the veto conditions of the Risk Agent that hold          *)
(* Scores are whole points: fractions are cut off where the code carries   *)
(* them to its final round().                                              *)
(***************************************************************************)
EXTENDS Integers, FiniteSets, FiniteSetsExt

CONSTANTS
  NoChain,  \* an option chain that is missing or empty
  None      \* no plan, no price, no score

Abs(x) == IF x < 0 THEN -x ELSE x

Clamp(v, lo, hi) == IF v < lo THEN lo ELSE IF v > hi THEN hi ELSE v

\* x * num / den, towards zero
Scaled(x, num, den) ==
  IF x < 0 THEN -((Abs(x) * num) \div den) ELSE (x * num) \div den

\* The code's "if x > y: ... else: ...": equality counts as below.
Side(x) == IF x > 0 THEN 1 ELSE -1

DirectionFromScore(signed) ==
  CASE signed > 8  -> "BULLISH"
    [] signed < -8 -> "BEARISH"
    [] OTHER       -> "NEUTRAL"

\* score = to_public_score(signed), direction = direction_from_score(signed)
Reading(signed) ==
  [score |-> Clamp(Abs(signed), 0, 100), direction |-> DirectionFromScore(signed)]

Neutral(points) == [score |-> points, direction |-> "NEUTRAL"]

\* score None
NotAvailable == [score |-> 0, direction |-> "NOT_AVAILABLE"]

-----------------------------------------------------------------------------
\* Average bias of the timeframes, times the share of them on its side.
HtfBias(frames) ==
  LET n == Cardinality(DOMAIN frames)
      total == MapThenSumSet(LAMBDA t : frames[t], DOMAIN frames)
      agreeing == {t \in DOMAIN frames : (frames[t] > 0) = (total > 0)}
  IN IF n = 0 THEN NotAvailable
     ELSE Reading(Scaled(total, Cardinality(agreeing), n * n))

TrendSigned(s) ==
  Side(s.vwap) * 25 + Side(s.gap) * 25
    + Clamp(Scaled(s.gap, 40, 100), -25, 25) + Side(s.open) * 15

Trend(s) == Reading(Clamp(TrendSigned(s), -100, 100))

\* mutant: volume always counts against
BoostDown(signed) == -25

Boost(signed) == IF signed > 0 THEN 25 ELSE -25

MomentumSigned(s) == Clamp(Scaled(s.rsi - 50, 14, 10), -40, 40) + Clamp(s.macd * 30, -35, 35)

Momentum(s) ==
  LET signed == MomentumSigned(s)
  IN Reading(Clamp(IF s.volume > 130 THEN signed + Boost(signed) ELSE signed, -100, 100))

Trending(s) == s.adx > 25
HighVolatility(s) == s.atr > 35

Regime(s) == IF Trending(s) THEN Reading(30 * Side(s.vwap)) ELSE Neutral(30)

\* The labels that compute_alignment knows, and "OTHER" for the rest.
RegimeLabel(s) ==
  CASE Trending(s)                       -> "OTHER"
    [] ~Trending(s) /\ HighVolatility(s) -> "HIGH_VOLATILITY"
    [] OTHER                             -> "RANGE"

Liquidity(s) == Reading(Clamp(Scaled(s.liquidity, 20, 100), -60, 60))

TrapPoints(s) ==
  (IF s.wick /\ s.vwap # 0 THEN 1 ELSE 0)
    + (IF s.volume < 90 THEN Cardinality(s.edges) ELSE 0)

NoTrap(s) == TrapPoints(s) = 0

TrapDetection(s) ==
  CASE TrapPoints(s) = 0 -> Neutral(0)
    [] TrapPoints(s) = 1 -> Reading(-30)
    [] OTHER             -> Reading(-70)

OptionsOi(s) ==
  IF s.chain = NoChain THEN NotAvailable
  ELSE Reading(Clamp(Clamp(Scaled(s.chain.pcr - 100, 80, 100), -50, 50)
                       + Clamp(s.chain.net, -40, 40), -100, 100))

Gamma(s) ==
  IF s.chain = NoChain THEN NotAvailable
  ELSE CASE s.chain.zone = "NO_WALLS" -> NotAvailable
         [] s.chain.zone = "ABOVE"    -> Reading(40)
         [] s.chain.zone = "BELOW"    -> Reading(-40)
         [] OTHER                     -> Neutral(20)
=============================================================================
