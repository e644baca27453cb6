------------------------------- MODULE Pipeline -------------------------------
(***************************************************************************)
(* The decision pipeline, app/pipeline.py run_pipeline with                *)
(* agents/alignment.py, agents/debate.py and agents/risk.py: one poll      *)
(* reads a snapshot, weighs the agents' readings, asks the Risk Agent,     *)
(* grades the alignment and decides.                                       *)
(*                                                                         *)
(* Weights, caps and multipliers are in hundredths; effective weights in   *)
(* units of 10^-5; contributions in hundredths of a point; coverage in     *)
(* percent; disagreement and calibrated confidence in units of 10^-4.      *)
(* Each quotient is cut to its unit, and round() is half up.               *)
(***************************************************************************)
EXTENDS Agents

CONSTANTS
  VwapSides, Gaps, Opens, Rsis, Macds, Volumes, Adxs, Atrs, Liquidities, EdgeSets,
  FrameSets, Chains, VetoSets,  \* what a snapshot's fields can be
  NoData,           \* DataUnavailable
  Idle,             \* no poll under way
  Weight,           \* settings.agent_weights
  MinCoverage,      \* settings.min_agent_coverage, percent
  MaxDisagreement,  \* settings.max_agent_disagreement, 10^-4
  MinRiskReward     \* settings.min_risk_reward, hundredths

\* What the agents read of an option chain
Chain ==
  [pcr : Int, net : Int, zone : {"NO_WALLS", "ABOVE", "BELOW", "BETWEEN"}, rr : Int \cup {None}]

ASSUME PipelineAssumption ==
  /\ VwapSides \subseteq Int /\ Gaps \subseteq Int /\ Opens \subseteq Int
  /\ Rsis \subseteq Int /\ Macds \subseteq Int /\ Volumes \subseteq Int
  /\ Liquidities \subseteq Int
  /\ \A frames \in FrameSets :
       IsFiniteSet(DOMAIN frames) /\ \A t \in DOMAIN frames : frames[t] \in Int
  /\ Chains \subseteq Chain \cup {NoChain} /\ NoChain \notin Chain
  /\ MinCoverage \in Nat /\ MaxDisagreement \in Nat /\ MinRiskReward \in Nat

Snapshots ==
  [vwap : VwapSides, gap : Gaps, open : Opens, rsi : Rsis, macd : Macds, volume : Volumes,
   adx : Adxs, atr : Atrs, liquidity : Liquidities, wick : BOOLEAN, edges : EdgeSets,
   frames : FrameSets, chain : Chains, vetoes : VetoSets]

VARIABLES
  polled,    \* the snapshot of the poll being answered, NoData, or Idle
  response   \* what that poll answers

vars == <<polled, response>>

Analysts == {"HTF", "REGIME", "TREND", "MOMENTUM", "LIQUIDITY", "OPTIONS", "GAMMA", "TRAP"}

Agents == Analysts \cup {"RISK"}

\* DEFAULT_WEIGHTS
DefaultWeights ==
  [HTF |-> 15, REGIME |-> 10, TREND |-> 15, MOMENTUM |-> 10, LIQUIDITY |-> 15,
   OPTIONS |-> 15, GAMMA |-> 5, TRAP |-> 5, RISK |-> 10]

\* EVIDENCE_FAMILIES
Family ==
  [HTF |-> "TREND", TREND |-> "TREND", MOMENTUM |-> "MOMENTUM", REGIME |-> "REGIME",
   LIQUIDITY |-> "STRUCTURE", TRAP |-> "STRUCTURE", OPTIONS |-> "OPTIONS",
   GAMMA |-> "OPTIONS", RISK |-> "RISK"]

\* DEFAULT_FAMILY_CAPS
Cap ==
  [TREND |-> 25, MOMENTUM |-> 15, REGIME |-> 15, STRUCTURE |-> 20, OPTIONS |-> 20, RISK |-> 15]

\* REGIME_MULTIPLIERS, for the labels that regime_agent gives
Multiplier(label) ==
  CASE label = "RANGE" ->
         [TREND |-> 85, MOMENTUM |-> 90, REGIME |-> 105, STRUCTURE |-> 110, OPTIONS |-> 105, RISK |-> 100]
    [] label = "HIGH_VOLATILITY" ->
         [TREND |-> 90, MOMENTUM |-> 90, REGIME |-> 110, STRUCTURE |-> 105, OPTIONS |-> 105, RISK |-> 115]
    [] OTHER -> [f \in DOMAIN Cap |-> 100]

Readings(s) ==
  [HTF |-> HtfBias(s.frames), REGIME |-> Regime(s), TREND |-> Trend(s),
   MOMENTUM |-> Momentum(s), LIQUIDITY |-> Liquidity(s), OPTIONS |-> OptionsOi(s),
   GAMMA |-> Gamma(s), TRAP |-> TrapDetection(s)]

-----------------------------------------------------------------------------
\* The agents with a score
Available(readings) ==
  {a \in DOMAIN readings : readings[a].direction # "NOT_AVAILABLE"}

Voting(readings, d) == {a \in DOMAIN readings : readings[a].direction = d}

WeightOf(agents) == MapThenSumSet(LAMBDA a : Weight[a], agents)

\* The heavier of the two sides
Lean(bull, bear) ==
  CASE bull > bear -> "BULLISH"
    [] bear > bull -> "BEARISH"
    [] OTHER       -> "NEUTRAL"

Dominant(readings) ==
  Lean(WeightOf(Voting(readings, "BULLISH")), WeightOf(Voting(readings, "BEARISH")))

Conflicting(readings, d) ==
  Cardinality((Voting(readings, "BULLISH") \cup Voting(readings, "BEARISH")) \ Voting(readings, d))

\* _effective_weights: an agent without a score weighs nothing,
Raw(agents, multiplier) ==
  LET Of(a) == IF a \in agents THEN Weight[a] * multiplier[Family[a]] ELSE 0
  IN [HTF |-> Of("HTF"), TREND |-> Of("TREND"), MOMENTUM |-> Of("MOMENTUM"),
      REGIME |-> Of("REGIME"), LIQUIDITY |-> Of("LIQUIDITY"), TRAP |-> Of("TRAP"),
      OPTIONS |-> Of("OPTIONS"), GAMMA |-> Of("GAMMA"), RISK |-> Of("RISK")]

\* and within a family whose raw weights exceed its cap, each is scaled down by
\* the same factor.
Capped(raw, total, cap) ==
  IF total <= cap * 100 THEN raw * 10 ELSE (raw * 10 * cap * 100) \div total

FamilyTotal(raw, f) == MapThenSumSet(LAMBDA a : raw[a], {a \in Agents : Family[a] = f})

Effective(raw) ==
  LET Share(a) == Capped(raw[a], FamilyTotal(raw, Family[a]), Cap[Family[a]])
  IN [HTF |-> Share("HTF"), TREND |-> Share("TREND"), MOMENTUM |-> Share("MOMENTUM"),
      REGIME |-> Share("REGIME"), LIQUIDITY |-> Share("LIQUIDITY"), TRAP |-> Share("TRAP"),
      OPTIONS |-> Share("OPTIONS"), GAMMA |-> Share("GAMMA"), RISK |-> Share("RISK")]

Disagreement(bull, bear) ==
  IF bull + bear = 0 THEN 0 ELSE 10000 - (10000 * Abs(bull - bear)) \div (bull + bear)

Unaligned(coverage) ==
  [score |-> None, coverage |-> coverage, disagreement |-> 0, confidence |-> None]

Aligned(weighted, coverage, disagreement) ==
  [score |-> (weighted + 50) \div 100,
   coverage |-> coverage,
   disagreement |-> disagreement,
   confidence |-> (((weighted * coverage) \div 100) * (20000 - disagreement)) \div 20000]

\* What a set of agents contributes, given the weight in use
Part(readings, effective, used, agents) ==
  (MapThenSumSet(LAMBDA a : effective[a] * readings[a].score, agents) * 100) \div used

Coverage(agents) == (WeightOf(agents) * 100) \div WeightOf(Agents)

Weigh(readings, agents, effective, used) ==
  IF used = 0 THEN Unaligned(Coverage(agents))
  ELSE Aligned(Part(readings, effective, used, agents),
               Coverage(agents),
               Disagreement(Part(readings, effective, used, Voting(readings, "BULLISH")),
                            Part(readings, effective, used, Voting(readings, "BEARISH"))))

\* compute_alignment
Alignment(readings, label) ==
  LET agents == Available(readings)
      effective == Effective(Raw(agents, Multiplier(label)))
  IN Weigh(readings, agents, effective, MapThenSumSet(LAMBDA a : effective[a], agents))

\* mutant: A_PLUS asks no more of the score than A
TopGradeAtA(al, conflicting) ==
  al.score >= 72 /\ conflicting = 0 /\ al.confidence >= 6500

TopGrade(al, conflicting) ==
  al.score >= 85 /\ conflicting = 0 /\ al.confidence >= 6500

\* What classify_trade_grade asks of any grade
Gradable(al, approved, conflicting) ==
  /\ approved /\ al.score # None
  /\ al.coverage >= MinCoverage /\ al.disagreement <= MaxDisagreement
  /\ conflicting < 3

\* classify_trade_grade
Grade(al, approved, conflicting) ==
  IF ~Gradable(al, approved, conflicting) THEN "NO_TRADE"
  ELSE IF TopGrade(al, conflicting) THEN "A_PLUS"
  ELSE IF al.score >= 72 /\ conflicting <= 1 /\ al.confidence >= 5000 THEN "A"
  ELSE CASE al.score >= 55 -> "B"
         [] al.score >= 40 /\ al.score < 55 -> "C"
         [] OTHER -> "NO_TRADE"

-----------------------------------------------------------------------------
\* _build_trade_plan: the risk/reward of the ATM leg on the dominant side.  None
\* without a side or a price, and for a premium so small that stop and price
\* round to the same: that plan exists, but fails the last checklist item.
PlanRr(s, dominant) ==
  IF dominant = "NEUTRAL" \/ s.chain = NoChain THEN None ELSE s.chain.rr

\* risk_agent: a plan that could not be priced is not vetoed for its rr.
RiskApproved(s, rr) == s.vetoes = {} /\ (rr # None => rr >= MinRiskReward)

\* The Risk Agent's own reading is a vote: bullish when it approves.
RiskReading(approved) ==
  [score |-> IF approved THEN 100 ELSE 0,
   direction |-> IF approved THEN "BULLISH" ELSE "BEARISH"]

WithRisk(readings, approved) ==
  [a \in Agents |-> IF a = "RISK" THEN RiskReading(approved) ELSE readings[a]]

\* mutant: no plan, no objection
RrOkUnpriced(rr) == rr = None \/ rr >= MinRiskReward

RrOk(rr) == rr # None /\ rr >= MinRiskReward

\* mutant: the price items are left to the Trend Agent
ChecklistNoTape(s, readings, dominant, rr) ==
  /\ readings["HTF"].direction = dominant
  /\ s.volume > 100
  /\ readings["OPTIONS"].direction = dominant
  /\ NoTrap(s)
  /\ RrOk(rr)

\* _build_checklist, all items passed
Checklist(s, readings, dominant, rr) ==
  /\ readings["HTF"].direction = dominant
  /\ IF dominant = "BULLISH" THEN s.vwap > 0 /\ s.gap > 0 ELSE s.vwap < 0 /\ s.gap < 0
  /\ s.volume > 100
  /\ readings["OPTIONS"].direction = dominant
  /\ NoTrap(s)
  /\ RrOk(rr)

Answer(decision, grade, dominant, debate, score) ==
  [decision |-> decision, grade |-> grade, dominant |-> dominant, debate |-> debate, score |-> score]

\* An A or A_PLUS on a side is bought if the checklist passes and there is a
\* plan, and is downgraded if the checklist does not.
Conclude(dominant, rr, debate, score, grade, passed) ==
  LET top == grade \in {"A_PLUS", "A"}
      buy == top /\ dominant # "NEUTRAL" /\ passed /\ rr # None
      side == IF dominant = "BULLISH" THEN "CE_BUY" ELSE "PE_BUY"
  IN Answer(IF buy THEN side ELSE "NO_TRADE",
            IF ~buy /\ top /\ ~passed THEN "NO_TRADE" ELSE grade,
            dominant, debate, score)

\* The readings with the Risk Agent's, aligned, debated and graded
Judge(s, readings, dominant, rr, approved, all, alignment) ==
  Conclude(dominant, rr, Dominant(all), alignment.score,
           Grade(alignment, approved, Conflicting(readings, dominant)),
           Checklist(s, readings, dominant, rr))

AskRisk(s, readings, dominant, rr, approved) ==
  LET all == WithRisk(readings, approved)
  IN Judge(s, readings, dominant, rr, approved, all, Alignment(all, RegimeLabel(s)))

Analyse(s, readings, dominant, rr) ==
  AskRisk(s, readings, dominant, rr, RiskApproved(s, rr))

\* run_pipeline after the fetch
Decide(s) ==
  LET readings == Readings(s)
      dominant == Dominant(readings)
  IN Analyse(s, readings, dominant, PlanRr(s, dominant))

\* _no_trade_response
DataError == Answer("NO_TRADE", "NO_TRADE", "NEUTRAL", "NEUTRAL", None)

\* Nothing of a poll is kept in the pipeline once it is answered.
NoAnswer == DataError

Init ==
  /\ polled = Idle
  /\ response = NoAnswer

\* GET /decision/live, or one turn of the WebSocket loop
Poll ==
  /\ polled = Idle
  /\ \/ \E s \in Snapshots : polled' = s /\ response' = Decide(s)
     \/ polled' = NoData /\ response' = DataError

Served ==
  /\ polled # Idle
  /\ polled' = Idle
  /\ response' = NoAnswer

Next == Poll \/ Served

Spec == Init /\ [][Next]_vars

-----------------------------------------------------------------------------
\* The grade says what the decision says: A and A_PLUS are exactly the buys.
\* A setup reader, the statistics by grade and the README's "only A/A+ grades
\* are actionable" depend on it, and no line of run_pipeline states it: it
\* rests on an unpriced plan failing the risk/reward item.
GradeMatchesDecision ==
  response.grade \in {"A_PLUS", "A"} <=> response.decision # "NO_TRADE"

\* No buy is against the Trend Agent, which is on no checklist and whose full
\* score counts towards the grade whichever way it votes: the VWAP and EMA
\* items leave it no room to dissent.
BuyGoesWithTrend ==
  (polled \notin {Idle, NoData} /\ response.decision # "NO_TRADE")
    => Trend(polled).direction = response.dominant

\* With the weights, caps and multipliers of the code no market can earn
\* A_PLUS: the ceilings of the Regime, Trap, Gamma and Liquidity Agents keep
\* the score below 85.  Whatever is keyed on "A+" is dead.
NoTopGrade == response.grade # "A_PLUS"

\* The same market upside down.
Mirror(s) ==
  LET Flip(zone) == CASE zone = "ABOVE" -> "BELOW" [] zone = "BELOW" -> "ABOVE" [] OTHER -> zone
  IN [s EXCEPT !.vwap = -s.vwap, !.gap = -s.gap, !.open = -s.open, !.rsi = 100 - s.rsi,
               !.macd = -s.macd, !.liquidity = -s.liquidity,
               !.edges = {CASE e = "HIGH" -> "LOW" [] e = "LOW" -> "HIGH" : e \in s.edges},
               !.frames = [t \in DOMAIN s.frames |-> -s.frames[t]],
               !.chain = IF s.chain = NoChain THEN NoChain
                         ELSE [s.chain EXCEPT !.pcr = 200 - s.chain.pcr, !.net = -s.chain.net,
                                              !.zone = Flip(s.chain.zone)]]

\* The market sits exactly on a level where an agent asks "above?" and takes no
\* for below: today's open, no momentum, or a timeframe without a bias.
OnLevel(s) ==
  \/ s.open = 0 \/ MomentumSigned(s) = 0
  \/ \E t \in DOMAIN s.frames : s.frames[t] = 0

\* Puts are no easier than calls: off those levels, the market that earns a put
\* buy earns, upside down, a call buy.  On them the agents lean to the puts.  The
\* converse is not claimed, as the Risk Agent's approval is a bullish vote.
PutsNoEasier ==
  (polled \notin {Idle, NoData} /\ response.decision = "PE_BUY")
    => OnLevel(polled) \/ Decide(Mirror(polled)).decision = "CE_BUY"
=============================================================================
