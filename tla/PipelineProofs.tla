---------------------------- MODULE PipelineProofs ----------------------------
(***************************************************************************)
(* What every poll decides, for any market, any weights and any limits.    *)
(* One invariant is enough: a poll under way carries the decision for the  *)
(* snapshot it read.  The other theorems are then facts about Decide.      *)
(***************************************************************************)
EXTENDS Pipeline, SumProofs, TLAPS

\* A poll carries what run_pipeline makes of the snapshot it read; before and
\* after, and without data, nothing is bought.
Answered ==
  \/ polled \in Snapshots /\ response = Decide(polled)
  \/ polled \in {Idle, NoData} /\ response = DataError

\* A grade of A or A_PLUS survives run_pipeline just when it is bought.
LEMMA GradeOfDecision ==
  \A s : Decide(s).grade \in {"A_PLUS", "A"} <=> Decide(s).decision # "NO_TRADE"
<1>1. ASSUME NEW dominant, NEW rr, NEW debate, NEW score, NEW grade, NEW passed \in BOOLEAN,
             passed => dominant # "NEUTRAL" /\ rr # None
      PROVE  LET answer == Conclude(dominant, rr, debate, score, grade, passed)
             IN answer.grade \in {"A_PLUS", "A"} <=> answer.decision # "NO_TRADE"
  BY <1>1 DEF Conclude, Answer
<1> TAKE s
<1> DEFINE readings == Readings(s)
           dominant == Dominant(readings)
           rr == PlanRr(s, dominant)
           approved == RiskApproved(s, rr)
           all == WithRisk(readings, approved)
           al == Alignment(all, RegimeLabel(s))
           grade == Grade(al, approved, Conflicting(readings, dominant))
           passed == Checklist(s, readings, dominant, rr)
<1>2. Decide(s) = Conclude(dominant, rr, Dominant(all), al.score, grade, passed)
  BY DEF Decide, Analyse, AskRisk, Judge
<1>3. passed \in BOOLEAN /\ (passed => dominant # "NEUTRAL" /\ rr # None)
  BY DEF Checklist, RrOk, PlanRr
<1> HIDE DEF passed, grade, dominant, rr, al, all
<1> QED
  BY <1>1, <1>2, <1>3

-----------------------------------------------------------------------------
\* direction_from_score beyond the neutral band of 8 points
LEMMA ScoreBeyondBand ==
  /\ \A x \in Int : x > 8 => DirectionFromScore(x) = "BULLISH"
  /\ \A x \in Int : x < -8 => DirectionFromScore(x) = "BEARISH"
BY DEF DirectionFromScore

\* Price above VWAP and EMA20 above EMA50 make the Trend Agent bullish,
\* whatever the day's open says.
LEMMA TapeUp ==
  ASSUME NEW s \in Snapshots, s.vwap > 0, s.gap > 0
  PROVE  Trend(s).direction = "BULLISH"
<1>1. s.gap \in Int /\ s.vwap \in Int
  BY PipelineAssumption DEF Snapshots
<1>2. Scaled(s.gap, 40, 100) \in Nat
  BY <1>1 DEF Scaled
<1>3. Clamp(Scaled(s.gap, 40, 100), -25, 25) \in 0..25
  BY <1>2 DEF Clamp
<1>4. TrendSigned(s) \in 35..90
  BY <1>1, <1>3 DEF TrendSigned, Side
<1>5. DirectionFromScore(Clamp(TrendSigned(s), -100, 100)) = "BULLISH"
  BY <1>4, ScoreBeyondBand DEF Clamp
<1> QED
  BY <1>5, Zenon DEF Trend, Reading

\* And below both, bearish.
LEMMA TapeDown ==
  ASSUME NEW s \in Snapshots, s.vwap < 0, s.gap < 0
  PROVE  Trend(s).direction = "BEARISH"
<1>1. s.gap \in Int /\ s.vwap \in Int
  BY PipelineAssumption DEF Snapshots
<1>2. Scaled(s.gap, 40, 100) \in Int /\ Scaled(s.gap, 40, 100) <= 0
  BY <1>1 DEF Scaled, Abs
<1>3. Clamp(Scaled(s.gap, 40, 100), -25, 25) \in -25..0
  BY <1>2 DEF Clamp
<1>4. TrendSigned(s) \in -90..-35
  BY <1>1, <1>3 DEF TrendSigned, Side
<1>5. DirectionFromScore(Clamp(TrendSigned(s), -100, 100)) = "BEARISH"
  BY <1>4, ScoreBeyondBand DEF Clamp
<1> QED
  BY <1>5, Zenon DEF Trend, Reading

\* What is bought passed the VWAP and EMA items for its side.
LEMMA BuyHasTape ==
  ASSUME NEW s \in Snapshots, Decide(s).decision # "NO_TRADE"
  PROVE  \/ Decide(s).dominant = "BULLISH" /\ s.vwap > 0 /\ s.gap > 0
         \/ Decide(s).dominant = "BEARISH" /\ s.vwap < 0 /\ s.gap < 0
<1> DEFINE readings == Readings(s)
           dominant == Dominant(readings)
           rr == PlanRr(s, dominant)
           passed == Checklist(s, readings, dominant, rr)
<1>1. Decide(s).dominant = dominant
  BY DEF Decide, Analyse, AskRisk, Judge, Conclude, Answer
<1>2. passed /\ dominant # "NEUTRAL"
  BY DEF Decide, Analyse, AskRisk, Judge, Conclude, Answer
<1>3. dominant \in {"BULLISH", "BEARISH", "NEUTRAL"}
  BY DEF Dominant, Lean
<1> QED
  BY <1>1, <1>2, <1>3 DEF Checklist

-----------------------------------------------------------------------------
(***************************************************************************)
(* Sums over agents, written out.                                          *)
(***************************************************************************)

LEMMA AgentsAreNine ==
  Agents = {"HTF", "REGIME", "TREND", "MOMENTUM", "LIQUIDITY", "OPTIONS", "GAMMA", "TRAP", "RISK"}
  BY DEF Agents, Analysts

LEMMA ThreeAreFinite == ASSUME NEW a, NEW b, NEW c PROVE IsFiniteSet({a, b, c})
<1>1. IsFiniteSet({a} \cup {b})
  BY FS_Singleton, FS_AddElement
<1>2. IsFiniteSet(({a} \cup {b}) \cup {c})
  BY <1>1, FS_AddElement
<1>3. ({a} \cup {b}) \cup {c} = {a, b, c}
  OBVIOUS
<1> QED
  BY <1>2, <1>3

LEMMA AgentsAreFinite == ASSUME NEW S \in SUBSET Agents PROVE IsFiniteSet(S)
<1> DEFINE A == {"HTF", "REGIME", "TREND"}
           B == {"MOMENTUM", "LIQUIDITY", "OPTIONS"}
           C == {"GAMMA", "TRAP", "RISK"}
<1>1. Agents = (A \cup B) \cup C
  BY AgentsAreNine
<1>2. IsFiniteSet(A) /\ IsFiniteSet(B) /\ IsFiniteSet(C)
  BY ThreeAreFinite
<1> HIDE DEF A, B, C
<1>3. IsFiniteSet(Agents)
  BY <1>1, <1>2, FS_Union
<1> QED
  BY <1>3, FS_Subset

\* The value of f for the agent a, if it is in S.
In(f, S, a) == IF a \in S THEN f[a] ELSE 0

LEMMA SumOfAgents ==
  ASSUME NEW S \in SUBSET Agents, NEW f, \A a \in S : f[a] \in Int
  PROVE  SumFunctionOnSet(f, S) =
           In(f, S, "HTF") + In(f, S, "REGIME") + In(f, S, "TREND") + In(f, S, "MOMENTUM")
             + In(f, S, "LIQUIDITY") + In(f, S, "OPTIONS") + In(f, S, "GAMMA")
             + In(f, S, "TRAP") + In(f, S, "RISK")
<1> DEFINE S1 == S \ {"HTF"}
           S2 == S1 \ {"REGIME"}
           S3 == S2 \ {"TREND"}
           S4 == S3 \ {"MOMENTUM"}
           S5 == S4 \ {"LIQUIDITY"}
           S6 == S5 \ {"OPTIONS"}
           S7 == S6 \ {"GAMMA"}
           S8 == S7 \ {"TRAP"}
           S9 == S8 \ {"RISK"}
           Total(T) == SumFunctionOnSet(f, T)
<1>1. IsFiniteSet(S)
  BY AgentsAreFinite
<1>2. ASSUME NEW T, IsFiniteSet(T), T \subseteq S, NEW a
      PROVE  /\ Total(T) = In(f, T, a) + Total(T \ {a})
             /\ IsFiniteSet(T \ {a}) /\ T \ {a} \subseteq S
  <2>1. \A y \in T : f[y] \in Int
    BY <1>2
  <2>2. /\ Total(T) = (IF a \in T THEN f[a] ELSE 0) + Total(T \ {a})
        /\ IsFiniteSet(T \ {a})
    BY <1>2, <2>1, SumPeel
  <2> QED
    BY <1>2, <2>2 DEF In
<1> HIDE DEF Total
<1>3. /\ Total(S) = In(f, S, "HTF") + Total(S1)
      /\ IsFiniteSet(S1) /\ S1 \subseteq S
  BY <1>1, <1>2
<1>4. /\ Total(S1) = In(f, S1, "REGIME") + Total(S2)
      /\ IsFiniteSet(S2) /\ S2 \subseteq S
  <2> HIDE DEF S1
  <2> QED
    BY <1>2, <1>3
<1>5. /\ Total(S2) = In(f, S2, "TREND") + Total(S3)
      /\ IsFiniteSet(S3) /\ S3 \subseteq S
  <2> HIDE DEF S2
  <2> QED
    BY <1>2, <1>4
<1>6. /\ Total(S3) = In(f, S3, "MOMENTUM") + Total(S4)
      /\ IsFiniteSet(S4) /\ S4 \subseteq S
  <2> HIDE DEF S3
  <2> QED
    BY <1>2, <1>5
<1>7. /\ Total(S4) = In(f, S4, "LIQUIDITY") + Total(S5)
      /\ IsFiniteSet(S5) /\ S5 \subseteq S
  <2> HIDE DEF S4
  <2> QED
    BY <1>2, <1>6
<1>8. /\ Total(S5) = In(f, S5, "OPTIONS") + Total(S6)
      /\ IsFiniteSet(S6) /\ S6 \subseteq S
  <2> HIDE DEF S5
  <2> QED
    BY <1>2, <1>7
<1>9. /\ Total(S6) = In(f, S6, "GAMMA") + Total(S7)
      /\ IsFiniteSet(S7) /\ S7 \subseteq S
  <2> HIDE DEF S6
  <2> QED
    BY <1>2, <1>8
<1>10. /\ Total(S7) = In(f, S7, "TRAP") + Total(S8)
       /\ IsFiniteSet(S8) /\ S8 \subseteq S
  <2> HIDE DEF S7
  <2> QED
    BY <1>2, <1>9
<1>11. Total(S8) = In(f, S8, "RISK") + Total(S9)
  <2> HIDE DEF S8
  <2> QED
    BY <1>2, <1>10
<1>12. Total(S9) = 0
  <2>1. S9 = {}
    BY AgentsAreNine
  <2> HIDE DEF S9
  <2> QED
    BY <2>1, SumEmpty DEF Total
<1>13. /\ In(f, S1, "REGIME") = In(f, S, "REGIME")
       /\ In(f, S2, "TREND") = In(f, S, "TREND")
       /\ In(f, S3, "MOMENTUM") = In(f, S, "MOMENTUM")
       /\ In(f, S4, "LIQUIDITY") = In(f, S, "LIQUIDITY")
       /\ In(f, S5, "OPTIONS") = In(f, S, "OPTIONS")
       /\ In(f, S6, "GAMMA") = In(f, S, "GAMMA")
       /\ In(f, S7, "TRAP") = In(f, S, "TRAP")
       /\ In(f, S8, "RISK") = In(f, S, "RISK")
  BY DEF In
<1>14. \A a : In(f, S, a) \in Int
  BY DEF In
<1> HIDE DEF S1, S2, S3, S4, S5, S6, S7, S8, S9
<1>15. Total(S) =
         In(f, S, "HTF") + (In(f, S, "REGIME") + (In(f, S, "TREND") + (In(f, S, "MOMENTUM")
           + (In(f, S, "LIQUIDITY") + (In(f, S, "OPTIONS") + (In(f, S, "GAMMA")
           + (In(f, S, "TRAP") + (In(f, S, "RISK") + 0))))))))
  BY <1>3, <1>4, <1>5, <1>6, <1>7, <1>8, <1>9, <1>10, <1>11, <1>12, <1>13
<1> QED
  BY <1>14, <1>15 DEF Total

\* The sums of the code, as sums of a function.
LEMMA MappedSum ==
  ASSUME NEW f, NEW S
  PROVE  MapThenSumSet(LAMBDA a : f[a], S) = SumFunctionOnSet(f, S)
  BY DEF MapThenSumSet, MapThenFoldSet, SumFunctionOnSet, FoldFunctionOnSet

LEMMA MappedProduct ==
  ASSUME NEW e, NEW r, NEW S, IsFiniteSet(S)
  PROVE  MapThenSumSet(LAMBDA a : e[a] * r[a].score, S)
           = SumFunctionOnSet([a \in S |-> e[a] * r[a].score], S)
<1> DEFINE f == [a \in S |-> e[a] * r[a].score]
           Products(iter) ==
             iter = [s \in SUBSET S |->
                       IF s = {} THEN 0
                       ELSE e[First(s)] * r[First(s)].score + iter[s \ {First(s)}]]
<1>1. MapThenSumSet(LAMBDA a : e[a] * r[a].score, S) = (CHOOSE iter : Products(iter))[S]
  BY DEF MapThenSumSet, MapThenFoldSet, First
<1>2. \A s \in SUBSET S : s # {} => f[First(s)] = e[First(s)] * r[First(s)].score
  BY FirstIsMember
<1> HIDE DEF f
<1>3. \A iter : Products(iter) <=> SumsOf(f, S, iter)
  BY <1>2 DEF SumsOf
<1> HIDE DEF Products
<1>4. PICK i : SumsOf(f, S, i) /\ SumFunctionOnSet(f, S) = i[S]
  BY SumIsSums
<1>5. SumsOf(f, S, CHOOSE iter : Products(iter))
  BY <1>3, <1>4
<1> DEFINE chosen == CHOOSE iter : Products(iter)
<1> HIDE DEF chosen
<1>6. chosen[S] = i[S]
  <2>1. SumsOf(f, S, chosen)
    BY <1>5 DEF chosen
  <2> QED
    BY <1>4, <2>1, SumsUnique
<1>7. MapThenSumSet(LAMBDA a : e[a] * r[a].score, S) = chosen[S]
  BY <1>1, Zenon DEF chosen
<1> QED
  BY <1>4, <1>6, <1>7, Zenon DEF f

-----------------------------------------------------------------------------
(***************************************************************************)
(* The weights in force.  The caps leave the trend family a quarter of the *)
(* weight, and no regime takes the Liquidity, Trap or Regime Agent below   *)
(* what its default weight gives it.                                       *)
(***************************************************************************)

LEMMA FamilyTotals ==
  ASSUME NEW raw, \A a \in Agents : raw[a] \in Int
  PROVE  /\ FamilyTotal(raw, "TREND") = raw["HTF"] + raw["TREND"]
         /\ FamilyTotal(raw, "MOMENTUM") = raw["MOMENTUM"]
         /\ FamilyTotal(raw, "REGIME") = raw["REGIME"]
         /\ FamilyTotal(raw, "STRUCTURE") = raw["LIQUIDITY"] + raw["TRAP"]
         /\ FamilyTotal(raw, "OPTIONS") = raw["OPTIONS"] + raw["GAMMA"]
         /\ FamilyTotal(raw, "RISK") = raw["RISK"]
<1> DEFINE S(f) == {a \in Agents : Family[a] = f}
<1>1. ASSUME NEW f
      PROVE  FamilyTotal(raw, f) =
               In(raw, S(f), "HTF") + In(raw, S(f), "REGIME") + In(raw, S(f), "TREND")
                 + In(raw, S(f), "MOMENTUM") + In(raw, S(f), "LIQUIDITY") + In(raw, S(f), "OPTIONS")
                 + In(raw, S(f), "GAMMA") + In(raw, S(f), "TRAP") + In(raw, S(f), "RISK")
  <2>1. FamilyTotal(raw, f) = SumFunctionOnSet(raw, S(f))
    BY DEF FamilyTotal, MapThenSumSet, MapThenFoldSet, SumFunctionOnSet, FoldFunctionOnSet
  <2>2. S(f) \in SUBSET Agents /\ \A a \in S(f) : raw[a] \in Int
    OBVIOUS
  <2> HIDE DEF S
  <2> QED
    BY <2>1, <2>2, SumOfAgents
<1>2. /\ S("TREND") = {"HTF", "TREND"}
      /\ S("MOMENTUM") = {"MOMENTUM"}
      /\ S("REGIME") = {"REGIME"}
      /\ S("STRUCTURE") = {"LIQUIDITY", "TRAP"}
      /\ S("OPTIONS") = {"OPTIONS", "GAMMA"}
      /\ S("RISK") = {"RISK"}
  BY AgentsAreNine DEF Family
<1>3. \A a \in Agents : raw[a] + 0 = raw[a] /\ 0 + raw[a] = raw[a]
  OBVIOUS
<1> HIDE DEF S
<1>4. FamilyTotal(raw, "TREND") = raw["HTF"] + raw["TREND"]
  BY <1>1, <1>2, AgentsAreNine DEF In
<1>5. FamilyTotal(raw, "MOMENTUM") = raw["MOMENTUM"]
  BY <1>1, <1>2, AgentsAreNine DEF In
<1>6. FamilyTotal(raw, "REGIME") = raw["REGIME"]
  BY <1>1, <1>2, AgentsAreNine DEF In
<1>7. FamilyTotal(raw, "STRUCTURE") = raw["LIQUIDITY"] + raw["TRAP"]
  BY <1>1, <1>2, AgentsAreNine DEF In
<1>8. FamilyTotal(raw, "OPTIONS") = raw["OPTIONS"] + raw["GAMMA"]
  BY <1>1, <1>2, AgentsAreNine DEF In
<1>9. FamilyTotal(raw, "RISK") = raw["RISK"]
  BY <1>1, <1>2, AgentsAreNine DEF In
<1> QED
  BY <1>4, <1>5, <1>6, <1>7, <1>8, <1>9

LEMMA WeightsInForce ==
  ASSUME Weight = DefaultWeights, NEW label,
         NEW A \in SUBSET Agents, Agents \ A \subseteq {"HTF", "OPTIONS", "GAMMA"}
  PROVE  LET e == Effective(Raw(A, Multiplier(label)))
         IN /\ \A a \in Agents : e[a] \in Nat
            /\ e["HTF"] + e["TREND"] <= 25000
            /\ e["MOMENTUM"] <= 10000
            /\ e["REGIME"] >= 10000
            /\ e["LIQUIDITY"] = 15000 /\ e["TRAP"] = 5000
            /\ e["OPTIONS"] <= 15750 /\ e["GAMMA"] <= 5250
            /\ e["REGIME"] <= 11000 /\ e["RISK"] >= 10000
            /\ e["RISK"] <= 11500
            /\ "HTF" \in A => e["HTF"] + e["TREND"] >= 25000
            /\ "OPTIONS" \in A => e["OPTIONS"] >= 15000
<1> DEFINE m == Multiplier(label)
           raw == Raw(A, m)
           e == Effective(raw)
<1>1. /\ m["TREND"] \in {85, 90, 100}
      /\ m["MOMENTUM"] \in {90, 100}
      /\ m["REGIME"] \in {100, 105, 110}
      /\ m["STRUCTURE"] \in {100, 105, 110}
      /\ m["OPTIONS"] \in {100, 105}
      /\ m["RISK"] \in {100, 115}
  BY DEF Multiplier, Cap
<1>2. /\ "TREND" \in A /\ "MOMENTUM" \in A /\ "REGIME" \in A /\ "LIQUIDITY" \in A
      /\ "TRAP" \in A /\ "RISK" \in A
  BY AgentsAreNine
<1> HIDE DEF m
<1>3. /\ raw["HTF"] \in {0, 15 * m["TREND"]}
      /\ raw["TREND"] = 15 * m["TREND"]
      /\ raw["MOMENTUM"] = 10 * m["MOMENTUM"]
      /\ raw["REGIME"] = 10 * m["REGIME"]
      /\ raw["LIQUIDITY"] = 15 * m["STRUCTURE"]
      /\ raw["TRAP"] = 5 * m["STRUCTURE"]
      /\ raw["OPTIONS"] \in {0, 15 * m["OPTIONS"]}
      /\ raw["GAMMA"] \in {0, 5 * m["OPTIONS"]}
      /\ raw["RISK"] = 10 * m["RISK"]
      /\ "HTF" \in A => raw["HTF"] = 15 * m["TREND"]
      /\ "OPTIONS" \in A => raw["OPTIONS"] = 15 * m["OPTIONS"]
  BY <1>2 DEF Raw, DefaultWeights, Family
<1> HIDE DEF raw
<1>4. \A a \in Agents : raw[a] \in Int
  BY <1>1, <1>3, AgentsAreNine
<1>5. /\ e["HTF"] = Capped(raw["HTF"], raw["HTF"] + raw["TREND"], 25)
      /\ e["TREND"] = Capped(raw["TREND"], raw["HTF"] + raw["TREND"], 25)
      /\ e["MOMENTUM"] = Capped(raw["MOMENTUM"], raw["MOMENTUM"], 15)
      /\ e["REGIME"] = Capped(raw["REGIME"], raw["REGIME"], 15)
      /\ e["LIQUIDITY"] = Capped(raw["LIQUIDITY"], raw["LIQUIDITY"] + raw["TRAP"], 20)
      /\ e["TRAP"] = Capped(raw["TRAP"], raw["LIQUIDITY"] + raw["TRAP"], 20)
      /\ e["OPTIONS"] = Capped(raw["OPTIONS"], raw["OPTIONS"] + raw["GAMMA"], 20)
      /\ e["GAMMA"] = Capped(raw["GAMMA"], raw["OPTIONS"] + raw["GAMMA"], 20)
      /\ e["RISK"] = Capped(raw["RISK"], raw["RISK"], 15)
  BY <1>4, FamilyTotals DEF Effective, Family, Cap
<1> HIDE DEF e
<1>6. /\ e["HTF"] \in Nat /\ e["TREND"] \in Nat
      /\ e["HTF"] + e["TREND"] <= 25000
      /\ "HTF" \in A => e["HTF"] + e["TREND"] >= 25000
  BY <1>1, <1>3, <1>5 DEF Capped
<1>7. e["MOMENTUM"] \in Nat /\ e["MOMENTUM"] <= 10000
  BY <1>1, <1>3, <1>5 DEF Capped
<1>8. e["REGIME"] \in Nat /\ e["REGIME"] >= 10000 /\ e["REGIME"] <= 11000
  BY <1>1, <1>3, <1>5 DEF Capped
<1>9. e["LIQUIDITY"] = 15000 /\ e["TRAP"] = 5000
  BY <1>1, <1>3, <1>5 DEF Capped
<1>10. /\ e["OPTIONS"] \in Nat /\ e["GAMMA"] \in Nat
       /\ e["OPTIONS"] <= 15750 /\ e["GAMMA"] <= 5250
       /\ "OPTIONS" \in A => e["OPTIONS"] >= 15000
  BY <1>1, <1>3, <1>5 DEF Capped
<1>11. e["RISK"] \in Nat /\ e["RISK"] >= 10000 /\ e["RISK"] <= 11500
  BY <1>1, <1>3, <1>5 DEF Capped
<1> QED
  BY <1>6, <1>7, <1>8, <1>9, <1>10, <1>11, AgentsAreNine DEF e, raw, m

-----------------------------------------------------------------------------
(***************************************************************************)
(* The ceilings of the agents.                                             *)
(***************************************************************************)

LEMMA ScaledType ==
  ASSUME NEW x \in Int, NEW num \in Nat, NEW den \in Nat \ {0}
  PROVE  Scaled(x, num, den) \in Int
<1>1. Abs(x) * num \in Int /\ x * num \in Int
  BY DEF Abs
<1>2. \A y \in Int : y \div den \in Int
  OBVIOUS
<1> QED
  BY <1>1, <1>2 DEF Scaled

LEMMA ScaledTypes ==
  \A x \in Int :
    /\ Scaled(x, 40, 100) \in Int /\ Scaled(x, 14, 10) \in Int
    /\ Scaled(x, 20, 100) \in Int /\ Scaled(x, 80, 100) \in Int
  BY DEF Scaled, Abs

LEMMA ClampTypes ==
  \A v \in Int :
    /\ Clamp(v, -25, 25) \in Int /\ Clamp(v, -35, 35) \in Int
    /\ Clamp(v, -40, 40) \in Int /\ Clamp(v, -50, 50) \in Int
    /\ Clamp(v, -60, 60) \in -60 .. 60 /\ Clamp(v, -100, 100) \in Int
  BY DEF Clamp

\* The score of a reading is no further from 0 than the signed score.
LEMMA ReadingBounded ==
  \A signed \in Int :
    /\ Reading(signed).score \in 0 .. 100
    /\ signed \in -30 .. 30 => Reading(signed).score <= 30
    /\ signed \in -40 .. 40 => Reading(signed).score <= 40
    /\ signed \in -60 .. 60 => Reading(signed).score <= 60
    /\ signed \in -70 .. 70 => Reading(signed).score <= 70
    /\ Reading(signed).direction # "NOT_AVAILABLE"
  BY DEF Reading, Clamp, Abs, DirectionFromScore

LEMMA HtfBounded ==
  ASSUME NEW frames, IsFiniteSet(DOMAIN frames), \A t \in DOMAIN frames : frames[t] \in Int
  PROVE  HtfBias(frames).score \in 0 .. 100
<1> DEFINE n == Cardinality(DOMAIN frames)
           total == MapThenSumSet(LAMBDA t : frames[t], DOMAIN frames)
           agreeing == {t \in DOMAIN frames : (frames[t] > 0) = (total > 0)}
           signed == Scaled(total, Cardinality(agreeing), n * n)
<1>1. total \in Int
  <2>1. total = SumFunctionOnSet(frames, DOMAIN frames)
    BY DEF MapThenSumSet, MapThenFoldSet, SumFunctionOnSet, FoldFunctionOnSet
  <2> QED
    BY <2>1, SumType
<1>2. Cardinality(agreeing) \in Nat /\ n \in Nat
  <2>1. IsFiniteSet(agreeing)
    BY FS_Subset
  <2> QED
    BY <2>1, FS_CardinalityType
<1>3. HtfBias(frames) = IF n = 0 THEN NotAvailable ELSE Reading(signed)
  BY DEF HtfBias
<1> HIDE DEF total, agreeing, n
<1>4. n # 0 => n * n \in Nat \ {0}
  BY <1>2
<1>5. n # 0 => signed \in Int
  BY <1>1, <1>2, <1>4, ScaledType
<1> HIDE DEF signed
<1> QED
  BY <1>3, <1>5, ReadingBounded DEF NotAvailable

LEMMA ReadingsBounded ==
  ASSUME NEW s \in Snapshots
  PROVE  LET r == Readings(s)
         IN /\ DOMAIN r = Analysts
            /\ \A a \in Analysts : r[a].score \in 0 .. 100
            /\ r["REGIME"].score <= 30
            /\ r["LIQUIDITY"].score <= 60
            /\ r["TRAP"].score <= 70
            /\ r["GAMMA"].score <= 40
            /\ \A a \in Analysts \ {"HTF", "OPTIONS", "GAMMA"} : r[a].direction # "NOT_AVAILABLE"
<1> DEFINE r == Readings(s)
<1>1. /\ s.vwap \in Int /\ s.gap \in Int /\ s.open \in Int /\ s.rsi \in Int /\ s.macd \in Int
      /\ s.liquidity \in Int
      /\ s.frames \in FrameSets /\ s.chain \in Chains
  BY PipelineAssumption DEF Snapshots
<1>2. /\ r["HTF"] = HtfBias(s.frames) /\ r["REGIME"] = Regime(s) /\ r["TREND"] = Trend(s)
      /\ r["MOMENTUM"] = Momentum(s) /\ r["LIQUIDITY"] = Liquidity(s)
      /\ r["OPTIONS"] = OptionsOi(s) /\ r["GAMMA"] = Gamma(s) /\ r["TRAP"] = TrapDetection(s)
      /\ DOMAIN r = Analysts
  BY DEF Readings, Analysts
<1> HIDE DEF r
<1>3. HtfBias(s.frames).score \in 0 .. 100
  BY <1>1, HtfBounded, PipelineAssumption
<1>4. Regime(s).score \in 0 .. 30 /\ Regime(s).direction # "NOT_AVAILABLE"
  <2>1. 30 * Side(s.vwap) \in -30 .. 30 /\ 30 * Side(s.vwap) \in Int
    BY <1>1 DEF Side
  <2>2. /\ Reading(30 * Side(s.vwap)).score \in 0 .. 30
        /\ Reading(30 * Side(s.vwap)).direction # "NOT_AVAILABLE"
    BY <2>1, ReadingBounded
  <2> QED
    BY <2>2 DEF Regime, Neutral
<1>5. Trend(s).score \in 0 .. 100 /\ Trend(s).direction # "NOT_AVAILABLE"
  <2>1. Scaled(s.gap, 40, 100) \in Int
    BY <1>1, ScaledTypes
  <2>2. Clamp(Scaled(s.gap, 40, 100), -25, 25) \in Int
    BY <2>1, ClampTypes
  <2>3. TrendSigned(s) \in Int
    BY <1>1, <2>2 DEF TrendSigned, Side
  <2>4. Clamp(TrendSigned(s), -100, 100) \in Int
    BY <2>3, ClampTypes
  <2> QED
    BY <2>4, ReadingBounded DEF Trend
<1>6. Momentum(s).score \in 0 .. 100 /\ Momentum(s).direction # "NOT_AVAILABLE"
  <2> DEFINE signed == MomentumSigned(s)
             moved == IF s.volume > 130 THEN signed + Boost(signed) ELSE signed
  <2>1. Scaled(s.rsi - 50, 14, 10) \in Int
    <3>1. s.rsi - 50 \in Int
      BY <1>1
    <3> QED
      BY <3>1, ScaledTypes
  <2>2. signed \in Int
    <3>1. Clamp(Scaled(s.rsi - 50, 14, 10), -40, 40) \in Int
      BY <2>1, ClampTypes
    <3>2. Clamp(s.macd * 30, -35, 35) \in Int
      <4>1. s.macd * 30 \in Int
        BY <1>1
      <4> QED
        BY <4>1, ClampTypes
    <3> QED
      BY <3>1, <3>2 DEF MomentumSigned
  <2>3. Momentum(s) = Reading(Clamp(moved, -100, 100))
    BY DEF Momentum
  <2> HIDE DEF signed
  <2>4. moved \in Int
    BY <2>2 DEF Boost
  <2> HIDE DEF moved
  <2>5. Clamp(moved, -100, 100) \in Int
    BY <2>4, ClampTypes
  <2> QED
    BY <2>3, <2>5, ReadingBounded
<1>7. Liquidity(s).score \in 0 .. 60 /\ Liquidity(s).direction # "NOT_AVAILABLE"
  <2>1. Scaled(s.liquidity, 20, 100) \in Int
    BY <1>1, ScaledTypes
  <2> DEFINE signed == Clamp(Scaled(s.liquidity, 20, 100), -60, 60)
  <2>2. signed \in -60 .. 60
    BY <2>1, ClampTypes
  <2>3. Liquidity(s) = Reading(signed)
    BY DEF Liquidity
  <2> HIDE DEF signed
  <2>4. signed \in Int
    BY <2>2
  <2> QED
    BY <2>2, <2>3, <2>4, ReadingBounded
<1>8. TrapDetection(s).score \in 0 .. 70 /\ TrapDetection(s).direction # "NOT_AVAILABLE"
  <2>1. ASSUME NEW signed \in {-30, -70}
        PROVE  Reading(signed).score \in 0 .. 70 /\ Reading(signed).direction # "NOT_AVAILABLE"
    <3>1. signed \in Int /\ signed \in -70 .. 70
      OBVIOUS
    <3>2. Reading(signed).direction # "NOT_AVAILABLE"
      BY <3>1, ReadingBounded
    <3>3. Reading(signed).score \in 0 .. 100 /\ Reading(signed).score <= 70
      BY <3>1, ReadingBounded
    <3> QED
      BY <3>2, <3>3
  <2>2. TrapDetection(s) = Neutral(0) \/ \E signed \in {-30, -70} : TrapDetection(s) = Reading(signed)
    BY DEF TrapDetection
  <2>3. CASE TrapDetection(s) = Neutral(0)
    BY <2>3 DEF Neutral
  <2> QED
    BY <2>1, <2>2, <2>3
<1>9. OptionsOi(s).score \in 0 .. 100
  <2>1. CASE s.chain = NoChain
    BY <2>1 DEF OptionsOi, NotAvailable
  <2>2. CASE s.chain # NoChain
    <3>1. s.chain.pcr \in Int /\ s.chain.net \in Int
      BY <1>1, <2>2, PipelineAssumption DEF Chain
    <3>2. Scaled(s.chain.pcr - 100, 80, 100) \in Int
      <4>1. s.chain.pcr - 100 \in Int
        BY <3>1
      <4> QED
        BY <4>1, ScaledTypes
    <3>3. /\ Clamp(Scaled(s.chain.pcr - 100, 80, 100), -50, 50) \in Int
          /\ Clamp(s.chain.net, -40, 40) \in Int
      BY <3>1, <3>2, ClampTypes
    <3>4. Clamp(Clamp(Scaled(s.chain.pcr - 100, 80, 100), -50, 50)
                  + Clamp(s.chain.net, -40, 40), -100, 100) \in Int
      <4>1. Clamp(Scaled(s.chain.pcr - 100, 80, 100), -50, 50)
              + Clamp(s.chain.net, -40, 40) \in Int
        BY <3>3
      <4> QED
        BY <4>1, ClampTypes
    <3> QED
      BY <2>2, <3>4, ReadingBounded DEF OptionsOi
  <2> QED
    BY <2>1, <2>2
<1>10. Gamma(s).score \in 0 .. 40
  <2>1. ASSUME NEW signed \in {40, -40}
        PROVE  Reading(signed).score \in 0 .. 40
    <3>1. signed \in Int /\ signed \in -40 .. 40
      OBVIOUS
    <3> QED
      BY <3>1, ReadingBounded
  <2>2. \/ Gamma(s) \in {Neutral(20), NotAvailable}
        \/ \E signed \in {40, -40} : Gamma(s) = Reading(signed)
    BY DEF Gamma
  <2>3. CASE Gamma(s) \in {Neutral(20), NotAvailable}
    BY <2>3 DEF Neutral, NotAvailable
  <2> QED
    BY <2>1, <2>2, <2>3
<1>11. \A a \in Analysts : r[a].score \in 0 .. 100
  BY <1>2, <1>3, <1>4, <1>5, <1>6, <1>7, <1>8, <1>9, <1>10 DEF Analysts
<1>12. \A a \in Analysts \ {"HTF", "OPTIONS", "GAMMA"} : r[a].direction # "NOT_AVAILABLE"
  BY <1>2, <1>4, <1>5, <1>6, <1>7, <1>8 DEF Analysts
<1>13. /\ r["REGIME"].score <= 30 /\ r["LIQUIDITY"].score <= 60
       /\ r["TRAP"].score <= 70 /\ r["GAMMA"].score <= 40
  BY <1>2, <1>4, <1>7, <1>8, <1>10
<1> QED
  BY <1>2, <1>11, <1>12, <1>13 DEF r

\* The Risk Agent always has a score.
LEMMA AllReadings ==
  ASSUME NEW s \in Snapshots, NEW approved \in BOOLEAN
  PROVE  LET r == WithRisk(Readings(s), approved)
         IN /\ DOMAIN r = Agents
            /\ \A a \in Agents : r[a].score \in 0 .. 100
            /\ r["REGIME"].score <= 30
            /\ r["LIQUIDITY"].score <= 60
            /\ r["TRAP"].score <= 70
            /\ r["GAMMA"].score <= 40
            /\ \A a \in Agents \ {"HTF", "OPTIONS", "GAMMA"} : r[a].direction # "NOT_AVAILABLE"
<1> DEFINE r0 == Readings(s)
           r == WithRisk(r0, approved)
<1>1. /\ DOMAIN r0 = Analysts
      /\ \A a \in Analysts : r0[a].score \in 0 .. 100
      /\ r0["REGIME"].score <= 30 /\ r0["LIQUIDITY"].score <= 60
      /\ r0["TRAP"].score <= 70 /\ r0["GAMMA"].score <= 40
      /\ \A a \in Analysts \ {"HTF", "OPTIONS", "GAMMA"} : r0[a].direction # "NOT_AVAILABLE"
  BY ReadingsBounded
<1>2. "RISK" \notin Analysts /\ Agents = Analysts \cup {"RISK"}
  BY DEF Agents, Analysts
<1> HIDE DEF r0
<1>3. /\ DOMAIN r = Agents
      /\ \A a \in Agents : r[a] = IF a = "RISK" THEN RiskReading(approved) ELSE r0[a]
  BY DEF WithRisk
<1> HIDE DEF r
<1>4. /\ DOMAIN r = Agents
      /\ \A a \in Analysts : r[a] = r0[a]
      /\ r["RISK"] = RiskReading(approved)
  BY <1>2, <1>3
<1>5. RiskReading(approved).score \in 0 .. 100 /\ RiskReading(approved).direction # "NOT_AVAILABLE"
  BY DEF RiskReading
<1>6. {"REGIME", "LIQUIDITY", "TRAP", "GAMMA"} \subseteq Analysts
  BY DEF Analysts
<1>7. /\ \A a \in Agents : r[a].score \in 0 .. 100
      /\ \A a \in Agents \ {"HTF", "OPTIONS", "GAMMA"} : r[a].direction # "NOT_AVAILABLE"
  BY <1>1, <1>2, <1>4, <1>5
<1> QED
  BY <1>1, <1>4, <1>6, <1>7 DEF r, r0

\* A weight is a factor of what it contributes.
LEMMA Contribution ==
  ASSUME NEW w \in Nat, NEW p \in Nat, NEW c \in Nat, p <= c
  PROVE  w * p \in Nat /\ w * p <= c * w
<1>1. c = p + (c - p) /\ c - p \in Nat
  OBVIOUS
<1>2. w * p \in Nat /\ w * (c - p) \in Nat
  BY <1>1
<1>3. c * w = w * p + w * (c - p)
  BY <1>1
<1> QED
  BY <1>2, <1>3

\* With the ceilings of four agents, an alignment of 85 cannot be reached.
LEMMA ScoreStaysBelow ==
  ASSUME Weight = DefaultWeights, NEW s \in Snapshots, NEW approved \in BOOLEAN, NEW label
  PROVE  LET score == Alignment(WithRisk(Readings(s), approved), label).score
         IN score = None \/ (score \in Int /\ score < 85)
<1> DEFINE r == WithRisk(Readings(s), approved)
           A == Available(r)
           e == Effective(Raw(A, Multiplier(label)))
           used == MapThenSumSet(LAMBDA a : e[a], A)
           f == [a \in A |-> e[a] * r[a].score]
           total == SumFunctionOnSet(f, A)
<1>1. /\ DOMAIN r = Agents
      /\ \A a \in Agents : r[a].score \in 0 .. 100
      /\ r["REGIME"].score <= 30 /\ r["LIQUIDITY"].score <= 60
      /\ r["TRAP"].score <= 70 /\ r["GAMMA"].score <= 40
      /\ \A a \in Agents \ {"HTF", "OPTIONS", "GAMMA"} : r[a].direction # "NOT_AVAILABLE"
  BY AllReadings
<1> HIDE DEF r
<1>2. A \in SUBSET Agents /\ Agents \ A \subseteq {"HTF", "OPTIONS", "GAMMA"}
  BY <1>1 DEF Available
<1> HIDE DEF A
<1>3. /\ \A a \in Agents : e[a] \in Nat
      /\ e["HTF"] + e["TREND"] <= 25000
      /\ e["MOMENTUM"] <= 10000
      /\ e["REGIME"] >= 10000
      /\ e["LIQUIDITY"] = 15000 /\ e["TRAP"] = 5000
      /\ e["OPTIONS"] <= 15750
      /\ e["RISK"] <= 11500
  BY <1>2, WeightsInForce
<1> HIDE DEF e
<1>4. /\ "TREND" \in A /\ "MOMENTUM" \in A /\ "REGIME" \in A /\ "LIQUIDITY" \in A
      /\ "TRAP" \in A /\ "RISK" \in A
  BY <1>2, AgentsAreNine
<1>5. IsFiniteSet(A)
  BY <1>2, AgentsAreFinite
<1>6. used = SumFunctionOnSet(e, A)
  BY DEF MapThenSumSet, MapThenFoldSet, SumFunctionOnSet, FoldFunctionOnSet
<1>7. Part(r, e, used, A) = (total * 100) \div used
  <2>1. MapThenSumSet(LAMBDA a : e[a] * r[a].score, A) = total
    BY <1>5, MappedProduct
  <2> QED
    BY <2>1, Zenon DEF Part
<1>8. \A a \in Agents : In(e, A, a) \in Nat /\ In(e, A, a) <= e[a] /\ (a \in A => In(e, A, a) = e[a])
  BY <1>3 DEF In
<1>9. used = e["REGIME"] + 20000 + e["TREND"] + e["MOMENTUM"] + e["RISK"]
              + In(e, A, "HTF") + In(e, A, "OPTIONS") + In(e, A, "GAMMA")
  <2>1. \A a \in A : e[a] \in Int
    BY <1>2, <1>3
  <2>2. used = In(e, A, "HTF") + In(e, A, "REGIME") + In(e, A, "TREND") + In(e, A, "MOMENTUM")
             + In(e, A, "LIQUIDITY") + In(e, A, "OPTIONS") + In(e, A, "GAMMA")
             + In(e, A, "TRAP") + In(e, A, "RISK")
    BY <1>2, <1>6, <2>1, SumOfAgents
  <2> QED
    BY <1>3, <1>4, <1>8, <2>2, AgentsAreNine
<1> HIDE DEF used
<1>10. \A a \in A : f[a] = e[a] * r[a].score
  OBVIOUS
<1> HIDE DEF f
<1>11. ASSUME NEW a \in Agents
       PROVE  In(f, A, a) \in Nat /\ In(f, A, a) <= 100 * In(e, A, a)
  <2>1. e[a] \in Nat /\ r[a].score \in Nat /\ r[a].score <= 100
    BY <1>1, <1>3
  <2>2. e[a] * r[a].score \in Nat /\ e[a] * r[a].score <= 100 * e[a]
    BY <2>1, Contribution
  <2> QED
    BY <1>10, <2>2 DEF In
<1>12. In(f, A, "REGIME") <= 30 * e["REGIME"]
  <2>1. e["REGIME"] \in Nat /\ r["REGIME"].score \in Nat
    BY <1>1, <1>3, AgentsAreNine
  <2> QED
    BY <1>1, <1>4, <1>10, <2>1, Contribution DEF In
<1>13. In(f, A, "LIQUIDITY") <= 60 * 15000 /\ In(f, A, "TRAP") <= 70 * 5000
  <2>1. /\ e["LIQUIDITY"] \in Nat /\ r["LIQUIDITY"].score \in Nat
        /\ e["TRAP"] \in Nat /\ r["TRAP"].score \in Nat
    BY <1>1, <1>3, AgentsAreNine
  <2> QED
    BY <1>1, <1>3, <1>4, <1>10, <2>1, Contribution DEF In
<1>14. In(f, A, "GAMMA") <= 40 * In(e, A, "GAMMA")
  <2>1. e["GAMMA"] \in Nat /\ r["GAMMA"].score \in Nat
    BY <1>1, <1>3, AgentsAreNine
  <2> QED
    BY <1>1, <1>10, <2>1, Contribution DEF In
<1>15. total = In(f, A, "HTF") + In(f, A, "REGIME") + In(f, A, "TREND") + In(f, A, "MOMENTUM")
             + In(f, A, "LIQUIDITY") + In(f, A, "OPTIONS") + In(f, A, "GAMMA")
             + In(f, A, "TRAP") + In(f, A, "RISK")
  <2>1. \A a \in A : f[a] \in Int
    BY <1>2, <1>11 DEF In
  <2> QED
    BY <1>2, <2>1, SumOfAgents
<1> HIDE DEF total
<1>16. /\ used \in Nat \ {0} /\ total \in Nat
       /\ total * 100 <= 8449 * used
  <2>1. /\ In(f, A, "TREND") <= 100 * e["TREND"] /\ In(f, A, "MOMENTUM") <= 100 * e["MOMENTUM"]
        /\ In(f, A, "RISK") <= 100 * e["RISK"]
    BY <1>4, <1>8, <1>11, AgentsAreNine
  <2>2. /\ In(f, A, "HTF") <= 100 * In(e, A, "HTF") /\ In(f, A, "OPTIONS") <= 100 * In(e, A, "OPTIONS")
        /\ In(e, A, "HTF") <= e["HTF"] /\ In(e, A, "OPTIONS") <= e["OPTIONS"]
        /\ In(e, A, "HTF") \in Nat /\ In(e, A, "OPTIONS") \in Nat /\ In(e, A, "GAMMA") \in Nat
    BY <1>8, <1>11, AgentsAreNine
  <2>3. /\ e["HTF"] \in Nat /\ e["TREND"] \in Nat /\ e["MOMENTUM"] \in Nat /\ e["REGIME"] \in Nat
        /\ e["OPTIONS"] \in Nat /\ e["RISK"] \in Nat
    BY <1>3, AgentsAreNine
  <2>4. /\ In(f, A, "HTF") \in Nat /\ In(f, A, "REGIME") \in Nat /\ In(f, A, "TREND") \in Nat
        /\ In(f, A, "MOMENTUM") \in Nat /\ In(f, A, "LIQUIDITY") \in Nat
        /\ In(f, A, "OPTIONS") \in Nat /\ In(f, A, "GAMMA") \in Nat /\ In(f, A, "TRAP") \in Nat
        /\ In(f, A, "RISK") \in Nat
    BY <1>11, AgentsAreNine
  <2>5. used \in Nat \ {0}
    BY <1>3, <1>9, <2>2, <2>3
  <2>6. total \in Nat
    BY <1>15, <2>4
  <2>7. total * 100 <= 8449 * used
    BY <1>3, <1>9, <1>12, <1>13, <1>14, <1>15, <2>1, <2>2, <2>3, <2>4
  <2> QED
    BY <2>5, <2>6, <2>7
<1>17. Part(r, e, used, A) \in Int /\ Part(r, e, used, A) <= 8449
  <2>1. \A x \in Nat, y \in Nat \ {0} : x <= 8449 * y => x \div y \in Int /\ x \div y <= 8449
    OBVIOUS
  <2>2. total * 100 \in Nat
    BY <1>16
  <2> QED
    BY <1>7, <1>16, <2>1, <2>2
<1>18. Alignment(r, label).score \in {None, (Part(r, e, used, A) + 50) \div 100}
  <2>1. Alignment(r, label) = Weigh(r, A, e, used)
    BY DEF Alignment, A, e, used
  <2> HIDE DEF Part
  <2> QED
    BY <2>1 DEF Weigh, Unaligned, Aligned
<1>19. \A x \in Int : x <= 8449 => (x + 50) \div 100 \in Int /\ (x + 50) \div 100 < 85
  OBVIOUS
<1> QED
  BY <1>17, <1>18, <1>19 DEF r

\* An A_PLUS is a score of 85.
LEMMA NoTopGradeDecided ==
  ASSUME Weight = DefaultWeights, NEW s \in Snapshots
  PROVE  Decide(s).grade # "A_PLUS"
<1> DEFINE readings == Readings(s)
           dominant == Dominant(readings)
           rr == PlanRr(s, dominant)
           approved == RiskApproved(s, rr)
           all == WithRisk(readings, approved)
           al == Alignment(all, RegimeLabel(s))
           conflicting == Conflicting(readings, dominant)
           grade == Grade(al, approved, conflicting)
           passed == Checklist(s, readings, dominant, rr)
<1>1. Decide(s) = Conclude(dominant, rr, Dominant(all), al.score, grade, passed)
  BY DEF Decide, Analyse, AskRisk, Judge
<1>2. approved \in BOOLEAN
  BY DEF RiskApproved
<1>3. al.score = None \/ (al.score \in Int /\ al.score < 85)
  BY <1>2, ScoreStaysBelow
<1> HIDE DEF al, approved, conflicting
<1>4. grade # "A_PLUS"
  BY <1>3 DEF Grade, Gradable, TopGrade
<1> HIDE DEF grade
<1> QED
  BY <1>1, <1>4 DEF Conclude, Answer

-----------------------------------------------------------------------------
(***************************************************************************)
(* The market upside down.  Off the levels at which an agent takes         *)
(* equality for below, what is bearish of a market that a put is bought in *)
(* is as bullish of its mirror image.                                      *)
(***************************************************************************)

Flipped(direction) ==
  IF direction = "BULLISH" THEN "BEARISH"
  ELSE IF direction = "BEARISH" THEN "BULLISH" ELSE direction

\* Two readings of one strength on opposite sides.
Opposite(r, q) == q.score = r.score /\ q.direction = Flipped(r.direction)

LEMMA ReadingOpposite == \A x \in Int : Opposite(Reading(x), Reading(-x))
  BY DEF Opposite, Flipped, Reading, Clamp, Abs, DirectionFromScore

LEMMA ScaledOdd ==
  ASSUME NEW x \in Int, NEW num \in Nat, NEW den \in Nat \ {0}
  PROVE  Scaled(-x, num, den) = -Scaled(x, num, den)
<1>1. CASE x >= 0 /\ x <= 0
  <2>1. -x = x /\ x = 0
    BY <1>1
  <2>2. 0 * num = 0 /\ 0 \div den = 0
    OBVIOUS
  <2>3. Scaled(x, num, den) = 0
    BY <1>1, <2>2 DEF Scaled
  <2> QED
    BY <1>1, <2>1, <2>3
<1>2. CASE x < 0
  <2>1. ~(-x < 0) /\ Abs(x) = -x
    BY <1>2 DEF Abs
  <2>2. ((-x) * num) \div den \in Int
    <3>1. (-x) * num \in Nat
      BY <1>2
    <3> QED
      BY <3>1
  <2> QED
    BY <1>2, <2>1, <2>2 DEF Scaled
<1>3. CASE x > 0
  <2>1. -x < 0 /\ ~(x < 0) /\ Abs(-x) = x
    BY <1>3 DEF Abs
  <2> QED
    BY <2>1 DEF Scaled
<1> QED
  BY <1>1, <1>2, <1>3

LEMMA ScaledOdds ==
  \A x \in Int :
    /\ Scaled(-x, 40, 100) = -Scaled(x, 40, 100) /\ Scaled(-x, 14, 10) = -Scaled(x, 14, 10)
    /\ Scaled(-x, 20, 100) = -Scaled(x, 20, 100) /\ Scaled(-x, 80, 100) = -Scaled(x, 80, 100)
  BY DEF Scaled, Abs

LEMMA ClampOdds ==
  \A v \in Int :
    /\ Clamp(-v, -25, 25) = -Clamp(v, -25, 25) /\ Clamp(-v, -35, 35) = -Clamp(v, -35, 35)
    /\ Clamp(-v, -40, 40) = -Clamp(v, -40, 40) /\ Clamp(-v, -50, 50) = -Clamp(v, -50, 50)
    /\ Clamp(-v, -60, 60) = -Clamp(v, -60, 60) /\ Clamp(-v, -100, 100) = -Clamp(v, -100, 100)
  BY DEF Clamp

LEMMA MirrorFields ==
  ASSUME NEW s \in Snapshots, s.chain # NoChain
  PROVE  LET m == Mirror(s)
         IN /\ m.vwap = -s.vwap /\ m.gap = -s.gap /\ m.open = -s.open /\ m.rsi = 100 - s.rsi
            /\ m.macd = -s.macd /\ m.liquidity = -s.liquidity
            /\ m.volume = s.volume /\ m.adx = s.adx /\ m.atr = s.atr /\ m.wick = s.wick
            /\ m.vetoes = s.vetoes
            /\ m.frames = [t \in DOMAIN s.frames |-> -s.frames[t]]
            /\ s.chain \in Chain /\ m.chain \in Chain /\ m.chain # NoChain
            /\ m.chain.pcr = 200 - s.chain.pcr /\ m.chain.net = -s.chain.net
            /\ m.chain.rr = s.chain.rr
            /\ m.chain.zone = CASE s.chain.zone = "ABOVE" -> "BELOW"
                                [] s.chain.zone = "BELOW" -> "ABOVE"
                                [] OTHER -> s.chain.zone
<1> DEFINE m == Mirror(s)
           zone == CASE s.chain.zone = "ABOVE" -> "BELOW"
                     [] s.chain.zone = "BELOW" -> "ABOVE"
                     [] OTHER -> s.chain.zone
<1>1. /\ m.vwap = -s.vwap /\ m.gap = -s.gap /\ m.open = -s.open /\ m.rsi = 100 - s.rsi
      /\ m.macd = -s.macd /\ m.liquidity = -s.liquidity
      /\ m.volume = s.volume /\ m.adx = s.adx /\ m.atr = s.atr /\ m.wick = s.wick
      /\ m.vetoes = s.vetoes
      /\ m.frames = [t \in DOMAIN s.frames |-> -s.frames[t]]
  BY DEF Mirror, Snapshots
<1>2. s.chain \in Chain
  BY PipelineAssumption DEF Snapshots
<1>3. m.chain = [s.chain EXCEPT !.pcr = 200 - s.chain.pcr, !.net = -s.chain.net, !.zone = zone]
  BY DEF Mirror, Snapshots
<1> HIDE DEF m
<1>4. zone \in {"NO_WALLS", "ABOVE", "BELOW", "BETWEEN"}
  BY <1>2 DEF Chain
<1> HIDE DEF zone
<1>5. /\ m.chain.pcr = 200 - s.chain.pcr /\ m.chain.net = -s.chain.net
      /\ m.chain.rr = s.chain.rr /\ m.chain.zone = zone
  BY <1>2, <1>3 DEF Chain
<1>6. m.chain \in Chain
  <2>1. 200 - s.chain.pcr \in Int /\ -s.chain.net \in Int
    BY <1>2 DEF Chain
  <2> QED
    BY <1>2, <1>3, <1>4, <2>1 DEF Chain
<1> QED
  BY <1>1, <1>2, <1>5, <1>6, PipelineAssumption DEF m, zone

\* The timeframes agree as much on the other side, when each has one.
LEMMA HtfOpposite ==
  ASSUME NEW frames, IsFiniteSet(DOMAIN frames),
         \A t \in DOMAIN frames : frames[t] \in Int /\ frames[t] # 0
  PROVE  Opposite(HtfBias(frames), HtfBias([t \in DOMAIN frames |-> -frames[t]]))
<1> DEFINE D == DOMAIN frames
           upside == [t \in D |-> -frames[t]]
           n == Cardinality(D)
           total == SumFunctionOnSet(frames, D)
           agreeing == {t \in D : (frames[t] > 0) = (total > 0)}
           signed == Scaled(total, Cardinality(agreeing), n * n)
           fallen == SumFunctionOnSet(upside, D)
           opposed == {t \in D : (upside[t] > 0) = (fallen > 0)}
           unsigned == Scaled(fallen, Cardinality(opposed), n * n)
<1>1. DOMAIN upside = D
  OBVIOUS
<1>2. /\ HtfBias(frames) = IF n = 0 THEN NotAvailable ELSE Reading(signed)
      /\ HtfBias(upside) = IF n = 0 THEN NotAvailable ELSE Reading(unsigned)
  BY <1>1 DEF HtfBias, MapThenSumSet, MapThenFoldSet, SumFunctionOnSet, FoldFunctionOnSet
<1>3. \A t \in D : upside[t] = -frames[t]
  OBVIOUS
<1> HIDE DEF upside
<1>4. total \in Int /\ fallen = -total
  BY <1>3, SumType, SumNegated
<1>5. n \in Nat /\ Cardinality(agreeing) \in Nat /\ Cardinality(opposed) \in Nat
  <2>1. IsFiniteSet(agreeing) /\ IsFiniteSet(opposed)
    BY FS_Subset
  <2> QED
    BY <2>1, FS_CardinalityType
<1>6. total # 0 => opposed = agreeing
  BY <1>3, <1>4
<1> HIDE DEF agreeing, opposed, n, total, fallen
<1>7. n # 0 => signed \in Int /\ unsigned = -signed
  <2> SUFFICES ASSUME n # 0 PROVE signed \in Int /\ unsigned = -signed
    OBVIOUS
  <2>1. n * n \in Nat \ {0}
    BY <1>5
  <2>2. signed \in Int
    BY <1>4, <1>5, <2>1, ScaledType
  <2>3. CASE total # 0
    <3>1. unsigned = Scaled(-total, Cardinality(agreeing), n * n)
      BY <1>4, <1>6, <2>3
    <3> QED
      BY <1>4, <1>5, <2>1, <2>2, <3>1, ScaledOdd
  <2>4. CASE total >= 0 /\ total <= 0
    <3>1. fallen = total /\ total = 0
      BY <1>4, <2>4
    <3>2. \A k \in Nat : Scaled(0, k, n * n) = 0
      <4>1. \A k \in Nat : 0 * k = 0
        OBVIOUS
      <4>2. 0 \div (n * n) = 0
        BY <2>1
      <4> QED
        BY <4>1, <4>2 DEF Scaled
    <3>3. signed = 0 /\ unsigned = signed
      BY <1>5, <3>1, <3>2
    <3>4. signed >= 0 /\ signed <= 0 /\ unsigned = signed
      BY <3>3
    <3> HIDE DEF signed, unsigned
    <3> QED
      BY <2>2, <3>4
  <2> QED
    BY <1>4, <2>2, <2>3, <2>4
<1> HIDE DEF signed, unsigned
<1>8. Opposite(HtfBias(frames), HtfBias(upside))
  <2>1. CASE n = 0
    BY <1>2, <2>1 DEF Opposite, Flipped, NotAvailable
  <2>2. CASE n # 0
    BY <1>2, <1>7, <2>2, ReadingOpposite
  <2> QED
    BY <2>1, <2>2
<1> QED
  BY <1>8 DEF upside

\* A clamped reading of the opposite sign is the opposite reading.
LEMMA ClampedOpposite ==
  ASSUME NEW x \in Int, NEW y \in Int, y = -x
  PROVE  Opposite(Reading(Clamp(x, -100, 100)), Reading(Clamp(y, -100, 100)))
<1> DEFINE c == Clamp(x, -100, 100)
<1>1. c \in Int /\ Clamp(y, -100, 100) = -c
  BY ClampTypes, ClampOdds
<1> HIDE DEF c
<1> QED
  BY <1>1, ReadingOpposite DEF c

LEMMA TrendOpposite ==
  ASSUME NEW s, NEW m, s.vwap \in Int, s.gap \in Int, s.open \in Int,
         s.vwap # 0, s.gap # 0, s.open # 0,
         m.vwap = -s.vwap, m.gap = -s.gap, m.open = -s.open
  PROVE  Opposite(Trend(s), Trend(m))
<1>1. ASSUME NEW x \in Int, x # 0
      PROVE  Side(x) \in Int /\ Side(-x) = -Side(x)
  BY <1>1 DEF Side
<1> DEFINE slope == Clamp(Scaled(s.gap, 40, 100), -25, 25)
<1>2. slope \in Int /\ Clamp(Scaled(m.gap, 40, 100), -25, 25) = -slope
  <2>1. Scaled(s.gap, 40, 100) \in Int /\ Scaled(m.gap, 40, 100) = -Scaled(s.gap, 40, 100)
    BY ScaledTypes, ScaledOdds
  <2> QED
    BY <2>1, ClampTypes, ClampOdds
<1> DEFINE side(x) == Side(x)
<1>3. /\ side(s.vwap) \in Int /\ side(m.vwap) = -side(s.vwap)
      /\ side(s.gap) \in Int /\ side(m.gap) = -side(s.gap)
      /\ side(s.open) \in Int /\ side(m.open) = -side(s.open)
  BY <1>1
<1>4. /\ TrendSigned(s) = side(s.vwap) * 25 + side(s.gap) * 25 + slope + side(s.open) * 15
      /\ TrendSigned(m) = side(m.vwap) * 25 + side(m.gap) * 25 + -slope + side(m.open) * 15
  BY <1>2 DEF TrendSigned
<1> HIDE DEF slope, side
<1>5. TrendSigned(s) \in Int /\ TrendSigned(m) = -TrendSigned(s)
  BY <1>2, <1>3, <1>4
<1> QED
  BY <1>5, ClampedOpposite DEF Trend

LEMMA MomentumOpposite ==
  ASSUME NEW s, NEW m, s.rsi \in Int, s.macd \in Int, MomentumSigned(s) # 0,
         m.rsi = 100 - s.rsi, m.macd = -s.macd, m.volume = s.volume
  PROVE  Opposite(Momentum(s), Momentum(m))
<1> DEFINE a == Clamp(Scaled(s.rsi - 50, 14, 10), -40, 40)
           b == Clamp(s.macd * 30, -35, 35)
<1>1. a \in Int /\ Clamp(Scaled(m.rsi - 50, 14, 10), -40, 40) = -a
  <2>1. s.rsi - 50 \in Int /\ m.rsi - 50 = -(s.rsi - 50)
    OBVIOUS
  <2>2. Scaled(s.rsi - 50, 14, 10) \in Int /\ Scaled(m.rsi - 50, 14, 10) = -Scaled(s.rsi - 50, 14, 10)
    BY <2>1, ScaledTypes, ScaledOdds
  <2> QED
    BY <2>2, ClampTypes, ClampOdds
<1>2. b \in Int /\ Clamp(m.macd * 30, -35, 35) = -b
  <2>1. s.macd * 30 \in Int /\ m.macd * 30 = -(s.macd * 30)
    OBVIOUS
  <2>2. b \in Int
    BY <2>1, ClampTypes
  <2>3. Clamp(-(s.macd * 30), -35, 35) = -b
    BY <2>1, ClampOdds
  <2> QED
    BY <2>1, <2>2, <2>3
<1>3. MomentumSigned(s) = a + b /\ MomentumSigned(m) = -a + -b
  BY <1>1, <1>2 DEF MomentumSigned
<1> HIDE DEF a, b
<1> DEFINE x == MomentumSigned(s)
           y == MomentumSigned(m)
<1>4. x \in Int /\ x # 0 /\ y \in Int /\ y = -x
  BY <1>1, <1>2, <1>3
<1>5. /\ Momentum(s) = Reading(Clamp(IF s.volume > 130 THEN x + Boost(x) ELSE x, -100, 100))
      /\ Momentum(m) = Reading(Clamp(IF s.volume > 130 THEN y + Boost(y) ELSE y, -100, 100))
  BY DEF Momentum
<1> HIDE DEF x, y
<1>6. /\ x + Boost(x) \in Int /\ y + Boost(y) \in Int /\ y + Boost(y) = -(x + Boost(x))
  BY <1>4 DEF Boost
<1> QED
  BY <1>4, <1>5, <1>6, ClampedOpposite

LEMMA LiquidityOpposite ==
  ASSUME NEW s, NEW m, s.liquidity \in Int, m.liquidity = -s.liquidity
  PROVE  Opposite(Liquidity(s), Liquidity(m))
<1> DEFINE x == Scaled(s.liquidity, 20, 100)
           c == Clamp(x, -60, 60)
<1>1. x \in Int /\ Scaled(m.liquidity, 20, 100) = -x
  BY ScaledTypes, ScaledOdds
<1> HIDE DEF x
<1>2. c \in Int /\ Clamp(Scaled(m.liquidity, 20, 100), -60, 60) = -c
  <2>1. Clamp(x, -60, 60) \in -60 .. 60
    BY <1>1, ClampTypes
  <2>2. Clamp(-x, -60, 60) = -Clamp(x, -60, 60)
    BY <1>1, ClampOdds
  <2> QED
    BY <1>1, <2>1, <2>2
<1> HIDE DEF c
<1> QED
  BY <1>2, ReadingOpposite DEF Liquidity, c, x

LEMMA OptionsOpposite ==
  ASSUME NEW s, NEW m, s.chain \in Chain, m.chain \in Chain,
         m.chain.pcr = 200 - s.chain.pcr, m.chain.net = -s.chain.net
  PROVE  Opposite(OptionsOi(s), OptionsOi(m))
<1>1. s.chain.pcr \in Int /\ s.chain.net \in Int /\ s.chain # NoChain /\ m.chain # NoChain
  BY PipelineAssumption DEF Chain
<1> DEFINE a == Clamp(Scaled(s.chain.pcr - 100, 80, 100), -50, 50)
           b == Clamp(s.chain.net, -40, 40)
<1>2. a \in Int /\ Clamp(Scaled(m.chain.pcr - 100, 80, 100), -50, 50) = -a
  <2>1. s.chain.pcr - 100 \in Int /\ m.chain.pcr - 100 = -(s.chain.pcr - 100)
    BY <1>1
  <2>2. /\ Scaled(s.chain.pcr - 100, 80, 100) \in Int
        /\ Scaled(m.chain.pcr - 100, 80, 100) = -Scaled(s.chain.pcr - 100, 80, 100)
    BY <2>1, ScaledTypes, ScaledOdds
  <2> QED
    BY <2>2, ClampTypes, ClampOdds
<1>3. b \in Int /\ Clamp(m.chain.net, -40, 40) = -b
  <2>1. b \in Int
    BY <1>1, ClampTypes
  <2>2. Clamp(-s.chain.net, -40, 40) = -b
    BY <1>1, ClampOdds
  <2> QED
    BY <2>1, <2>2
<1>4. /\ OptionsOi(s) = Reading(Clamp(a + b, -100, 100))
      /\ OptionsOi(m) = Reading(Clamp(-a + -b, -100, 100))
  BY <1>1, <1>2, <1>3 DEF OptionsOi
<1> HIDE DEF a, b
<1>5. a + b \in Int /\ -a + -b \in Int /\ -a + -b = -(a + b)
  BY <1>2, <1>3
<1> QED
  BY <1>4, <1>5, ClampedOpposite

\* Beyond the call wall is below the put wall, upside down.
LEMMA GammaOpposite ==
  ASSUME NEW s, NEW m, s.chain \in Chain, m.chain \in Chain,
         m.chain.zone = CASE s.chain.zone = "ABOVE" -> "BELOW"
                          [] s.chain.zone = "BELOW" -> "ABOVE"
                          [] OTHER -> s.chain.zone
  PROVE  Opposite(Gamma(s), Gamma(m))
<1>1. /\ s.chain # NoChain /\ m.chain # NoChain
      /\ s.chain.zone \in {"NO_WALLS", "ABOVE", "BELOW", "BETWEEN"}
  BY PipelineAssumption DEF Chain
<1>2. Opposite(Reading(40), Reading(-40)) /\ Opposite(Reading(-40), Reading(40))
  <2>1. ASSUME NEW x \in {40, -40}, NEW y \in {40, -40}, x + y = 0
        PROVE  Opposite(Reading(x), Reading(y))
    <3>1. x \in Int /\ y = -x
      BY <2>1
    <3> QED
      BY <3>1, ReadingOpposite
  <2> QED
    BY <2>1
<1>3. Opposite(Neutral(20), Neutral(20)) /\ Opposite(NotAvailable, NotAvailable)
  BY DEF Opposite, Flipped, Neutral, NotAvailable
<1>4. CASE s.chain.zone = "ABOVE"
  <2>1. m.chain.zone = "BELOW"
    BY <1>4
  <2> QED
    BY <1>1, <1>2, <1>4, <2>1 DEF Gamma
<1>5. CASE s.chain.zone = "BELOW"
  <2>1. m.chain.zone = "ABOVE"
    BY <1>5
  <2> QED
    BY <1>1, <1>2, <1>5, <2>1 DEF Gamma
<1>6. CASE s.chain.zone \in {"NO_WALLS", "BETWEEN"}
  <2>1. m.chain.zone = s.chain.zone
    BY <1>6
  <2> QED
    BY <1>1, <1>3, <1>6, <2>1 DEF Gamma
<1> QED
  BY <1>1, <1>4, <1>5, <1>6

LEMMA RegimeOpposite ==
  ASSUME NEW s, NEW m, s.vwap \in Int, s.vwap # 0, m.vwap = -s.vwap,
         m.adx = s.adx
  PROVE  Opposite(Regime(s), Regime(m))
<1>1. ASSUME NEW x \in {30, -30}, NEW y \in {30, -30}, x + y = 0
      PROVE  Opposite(Reading(x), Reading(y))
  <2>1. x \in Int /\ y = -x
    BY <1>1
  <2> QED
    BY <2>1, ReadingOpposite
<1>2. /\ 30 * Side(s.vwap) \in {30, -30} /\ 30 * Side(m.vwap) \in {30, -30}
      /\ 30 * Side(s.vwap) + 30 * Side(m.vwap) = 0
  BY DEF Side
<1>3. Opposite(Reading(30 * Side(s.vwap)), Reading(30 * Side(m.vwap)))
  BY <1>1, <1>2
<1>4. Opposite(Neutral(30), Neutral(30))
  BY DEF Opposite, Flipped, Neutral
<1>5. Trending(m) <=> Trending(s)
  BY DEF Trending
<1> QED
  BY <1>3, <1>4, <1>5 DEF Regime

\* With volume there is a trap only in the last candle's wick, and the checklist
\* wants none.
LEMMA TrapOpposite ==
  ASSUME NEW s, NEW m, s.vwap \in Int, s.vwap # 0, m.vwap = -s.vwap,
         s.volume > 100, s.volume \in Int, m.volume = s.volume, m.wick = s.wick, NoTrap(s)
  PROVE  NoTrap(m) /\ TrapDetection(s) = Neutral(0) /\ TrapDetection(m) = Neutral(0)
<1>1. ~(s.volume < 90) /\ ~(m.volume < 90)
  OBVIOUS
<1>2. ~s.wick
  BY <1>1 DEF NoTrap, TrapPoints
<1>3. TrapPoints(m) = 0
  BY <1>1, <1>2 DEF TrapPoints
<1> QED
  BY <1>3 DEF NoTrap, TrapDetection

\* A market that passes the checklist for a put, and sits on no level.
PutMarket(s) ==
  /\ ~OnLevel(s)
  /\ s.vwap < 0 /\ s.gap < 0 /\ s.volume > 100 /\ NoTrap(s) /\ s.chain # NoChain

LEMMA MirrorReadings ==
  ASSUME NEW s \in Snapshots, PutMarket(s)
  PROVE  LET r == Readings(s)
             q == Readings(Mirror(s))
         IN /\ DOMAIN r = Analysts /\ DOMAIN q = Analysts
            /\ \A a \in Analysts : Opposite(r[a], q[a])
            /\ r["TRAP"].score = 0
            /\ NoTrap(Mirror(s))
<1> DEFINE m == Mirror(s)
           r == Readings(s)
           q == Readings(m)
<1>1. /\ s.vwap \in Int /\ s.gap \in Int /\ s.open \in Int /\ s.rsi \in Int /\ s.macd \in Int
      /\ s.liquidity \in Int /\ s.frames \in FrameSets /\ s.volume \in Int
  BY PipelineAssumption DEF Snapshots
<1>2. /\ m.vwap = -s.vwap /\ m.gap = -s.gap /\ m.open = -s.open /\ m.rsi = 100 - s.rsi
      /\ m.macd = -s.macd /\ m.liquidity = -s.liquidity
      /\ m.volume = s.volume /\ m.adx = s.adx /\ m.wick = s.wick
      /\ m.frames = [t \in DOMAIN s.frames |-> -s.frames[t]]
      /\ s.chain \in Chain /\ m.chain \in Chain
      /\ m.chain.pcr = 200 - s.chain.pcr /\ m.chain.net = -s.chain.net
      /\ m.chain.zone = CASE s.chain.zone = "ABOVE" -> "BELOW"
                          [] s.chain.zone = "BELOW" -> "ABOVE"
                          [] OTHER -> s.chain.zone
  BY MirrorFields DEF PutMarket
<1> HIDE DEF m
<1>3. /\ s.vwap # 0 /\ s.gap # 0 /\ s.open # 0 /\ MomentumSigned(s) # 0
      /\ \A t \in DOMAIN s.frames : s.frames[t] # 0
      /\ s.volume > 100 /\ NoTrap(s)
  BY <1>1 DEF PutMarket, OnLevel
<1>4. /\ r["HTF"] = HtfBias(s.frames) /\ r["REGIME"] = Regime(s) /\ r["TREND"] = Trend(s)
      /\ r["MOMENTUM"] = Momentum(s) /\ r["LIQUIDITY"] = Liquidity(s)
      /\ r["OPTIONS"] = OptionsOi(s) /\ r["GAMMA"] = Gamma(s) /\ r["TRAP"] = TrapDetection(s)
      /\ DOMAIN r = Analysts
  BY DEF Readings, Analysts
<1>5. /\ q["HTF"] = HtfBias(m.frames) /\ q["REGIME"] = Regime(m) /\ q["TREND"] = Trend(m)
      /\ q["MOMENTUM"] = Momentum(m) /\ q["LIQUIDITY"] = Liquidity(m)
      /\ q["OPTIONS"] = OptionsOi(m) /\ q["GAMMA"] = Gamma(m) /\ q["TRAP"] = TrapDetection(m)
      /\ DOMAIN q = Analysts
  BY DEF Readings, Analysts
<1> HIDE DEF r, q
<1>6. Opposite(r["HTF"], q["HTF"])
  <2>1. IsFiniteSet(DOMAIN s.frames) /\ \A t \in DOMAIN s.frames : s.frames[t] \in Int
    BY <1>1, PipelineAssumption
  <2> QED
    BY <1>2, <1>3, <1>4, <1>5, <2>1, HtfOpposite
<1>7. Opposite(r["REGIME"], q["REGIME"])
  BY <1>1, <1>2, <1>3, <1>4, <1>5, RegimeOpposite
<1>8. Opposite(r["TREND"], q["TREND"])
  BY <1>1, <1>2, <1>3, <1>4, <1>5, TrendOpposite
<1>9. Opposite(r["MOMENTUM"], q["MOMENTUM"])
  BY <1>1, <1>2, <1>3, <1>4, <1>5, MomentumOpposite
<1>10. Opposite(r["LIQUIDITY"], q["LIQUIDITY"])
  BY <1>1, <1>2, <1>4, <1>5, LiquidityOpposite
<1>11. Opposite(r["OPTIONS"], q["OPTIONS"])
  BY <1>2, <1>4, <1>5, OptionsOpposite
<1>12. Opposite(r["GAMMA"], q["GAMMA"])
  BY <1>2, <1>4, <1>5, GammaOpposite
<1>13. NoTrap(m) /\ r["TRAP"] = Neutral(0) /\ q["TRAP"] = Neutral(0)
  BY <1>1, <1>2, <1>3, <1>4, <1>5, TrapOpposite
<1>14. Opposite(r["TRAP"], q["TRAP"]) /\ r["TRAP"].score = 0
  BY <1>13 DEF Opposite, Flipped, Neutral
<1>15. \A a \in Analysts : Opposite(r[a], q[a])
  BY <1>6, <1>7, <1>8, <1>9, <1>10, <1>11, <1>12, <1>14 DEF Analysts
<1> QED
  BY <1>4, <1>5, <1>13, <1>14, <1>15 DEF r, q, m

-----------------------------------------------------------------------------
(***************************************************************************)
(* The Risk Agent's vote.  It counts for the calls in both markets: with   *)
(* bear over bull by itself, the two sides are further apart when it joins *)
(* the stronger than when it joins the weaker.                             *)
(***************************************************************************)

LEMMA Quotient ==
  ASSUME NEW x \in Nat, NEW u \in Nat \ {0}
  PROVE  /\ x \div u \in Nat
         /\ u * (x \div u) <= x /\ x < u * (x \div u) + u
  OBVIOUS

LEMMA QuotientIs ==
  ASSUME NEW x \in Nat, NEW u \in Nat \ {0}, NEW k \in Nat, u * k <= x, x < u * k + u
  PROVE  x \div u = k
  OBVIOUS

LEMMA QuotientOfSum ==
  ASSUME NEW x \in Nat, NEW y \in Nat, NEW u \in Nat \ {0}
  PROVE  \/ (x + y) \div u = x \div u + y \div u
         \/ (x + y) \div u = x \div u + y \div u + 1
<1> DEFINE p == x \div u
           q == y \div u
<1>1. p \in Nat /\ u * p <= x /\ x < u * p + u
  BY Quotient
<1>2. q \in Nat /\ u * q <= y /\ y < u * q + u
  BY Quotient
<1> HIDE DEF p, q
<1>3. /\ u * (p + q) = u * p + u * q
      /\ u * (p + q + 1) = u * p + u * q + u
      /\ u * p \in Nat /\ u * q \in Nat
  BY <1>1, <1>2
<1>0. x + y \in Int /\ u * (p + q) + u \in Int
  BY <1>3
<1>4. CASE x + y < u * (p + q) + u
  <2>1. (x + y) \div u = p + q
    BY <1>1, <1>2, <1>3, <1>4, QuotientIs
  <2> QED
    BY <2>1 DEF p, q
<1>5. CASE x + y >= u * (p + q) + u
  <2>1. x + y \in Nat /\ p + q + 1 \in Nat
    BY <1>1, <1>2
  <2>2. u * (p + q + 1) <= x + y /\ x + y < u * (p + q + 1) + u
    BY <1>1, <1>2, <1>3, <1>5
  <2>3. (x + y) \div u = p + q + 1
    BY <2>1, <2>2, QuotientIs
  <2> QED
    BY <2>3 DEF p, q
<1> QED
  BY <1>0, <1>4, <1>5

LEMMA QuotientGrows ==
  ASSUME NEW x \in Nat, NEW y \in Nat, x <= y, NEW u \in Nat \ {0}
  PROVE  x \div u <= y \div u
<1>1. y - x \in Nat /\ y = x + (y - x)
  OBVIOUS
<1>2. x \div u \in Nat /\ (y - x) \div u \in Nat
  BY <1>1, Quotient
<1>3. y \div u \in {x \div u + (y - x) \div u, x \div u + (y - x) \div u + 1}
  BY <1>1, QuotientOfSum
<1> QED
  BY <1>2, <1>3

\* A larger part of a hardly larger whole.
LEMMA LargerShare ==
  ASSUME NEW x \in Nat, NEW y \in Nat \ {0}, x <= y,
         NEW v \in Nat, NEW w \in Nat \ {0}, v >= x + 2, w <= y + 1
  PROVE  (10000 * x) \div y <= (10000 * v) \div w
<1> DEFINE k == (10000 * x) \div y
<1>1. 10000 * x \in Nat /\ 10000 * v \in Nat /\ 10000 * x + 20000 <= 10000 * v
  OBVIOUS
<1>2. k \in Nat /\ y * k <= 10000 * x
  BY <1>1, Quotient
<1> HIDE DEF k
<1>3. k <= 10000
  <2> SUFFICES ASSUME k >= 10001 PROVE FALSE
    BY <1>2
  <2>1. y * 10001 <= y * k
    <3>1. k - 10001 \in Nat
      BY <1>2
    <3>2. y * (k - 10001) \in Nat
      BY <3>1
    <3>3. y * k = y * 10001 + y * (k - 10001)
      BY <1>2
    <3> QED
      BY <3>2, <3>3
  <2> QED
    BY <1>2, <2>1
<1>4. w * k <= y * k + k
  <2>1. y + 1 - w \in Nat
    OBVIOUS
  <2>2. (y + 1 - w) * k \in Nat
    BY <1>2, <2>1
  <2>3. y * k + k = w * k + (y + 1 - w) * k
    BY <1>2
  <2> QED
    BY <1>2, <2>2, <2>3
<1>5. w * k <= 10000 * v
  BY <1>1, <1>2, <1>3, <1>4
<1> DEFINE j == (10000 * v) \div w
<1>6. j \in Nat /\ 10000 * v < w * j + w
  <2>1. \A x1 \in Nat : x1 \div w \in Nat /\ x1 < w * (x1 \div w) + w
    BY Quotient
  <2> QED
    BY <1>1, <2>1
<1> HIDE DEF j
<1>7. k <= j
  <2> SUFFICES ASSUME j + 1 <= k PROVE FALSE
    BY <1>2, <1>6
  <2>1. k - (j + 1) \in Nat
    BY <1>2, <1>6
  <2>2. w * (k - (j + 1)) \in Nat
    BY <2>1
  <2>3. w * k = w * j + w + w * (k - (j + 1))
    BY <1>2, <1>6
  <2>4. w * j \in Nat /\ w * k \in Nat
    BY <1>2, <1>6
  <2> QED
    BY <1>1, <1>5, <1>6, <2>2, <2>3, <2>4
<1> QED
  BY <1>7 DEF k, j

\* The disagreement when the Risk Agent's vote joins the first side.
Split(x, y, risk, used) == Disagreement(((x + risk) * 100) \div used, (y * 100) \div used)

LEMMA DisagreementFalls ==
  ASSUME NEW bull \in Nat, NEW bear \in Nat, NEW risk \in Nat, NEW used \in Nat \ {0},
         bull <= bear, (bear - bull) * 100 >= 3 * used, risk * 100 >= 3 * used
  PROVE  /\ Split(bull, bear, risk, used) \in Int /\ Split(bear, bull, risk, used) \in Int
         /\ Split(bear, bull, risk, used) <= Split(bull, bear, risk, used)
         /\ Split(bull, bear, risk, used) <= 10000
<1> DEFINE p == (bull * 100) \div used
           q == (bear * 100) \div used
           z == (risk * 100) \div used
           d == ((bear - bull) * 100) \div used
           p1 == ((bull + risk) * 100) \div used
           q1 == ((bear + risk) * 100) \div used
<1>1. /\ bull * 100 \in Nat /\ bear * 100 \in Nat /\ risk * 100 \in Nat
      /\ (bear - bull) * 100 \in Nat
      /\ (bull + risk) * 100 = bull * 100 + risk * 100
      /\ (bear + risk) * 100 = bear * 100 + risk * 100
      /\ bear * 100 = bull * 100 + (bear - bull) * 100
  OBVIOUS
<1>2. p \in Nat /\ q \in Nat /\ z \in Nat /\ d \in Nat
  BY <1>1, Quotient
<1>3. ASSUME NEW x \in Nat, x >= 3 * used
      PROVE  x \div used >= 3
  <2>1. x \div used \in Nat /\ x < used * (x \div used) + used
    BY Quotient
  <2> DEFINE k == x \div used
  <2> HIDE DEF k
  <2> SUFFICES ASSUME k <= 2 PROVE FALSE
    BY <2>1 DEF k
  <2>2. k \in {0, 1, 2}
    BY <2>1 DEF k
  <2>3. used * k <= used * 2
    BY <2>2
  <2>4. used * k \in Nat /\ x < used * k + used
    BY <2>1 DEF k
  <2> QED
    BY <1>3, <2>3, <2>4
<1>4. z >= 3 /\ d >= 3
  BY <1>1, <1>3
<1>5. p1 \in {p + z, p + z + 1} /\ q1 \in {q + z, q + z + 1} /\ q \in {p + d, p + d + 1}
  BY <1>1, QuotientOfSum
<1> HIDE DEF p, q, z, d, p1, q1
<1> DEFINE x == Abs(p1 - q)
           y == p1 + q
           v == Abs(q1 - p)
           w == q1 + p
<1>6. /\ x \in Nat /\ y \in Nat \ {0} /\ x <= y
      /\ v \in Nat /\ w \in Nat \ {0} /\ v >= x + 2 /\ w <= y + 1
  BY <1>2, <1>4, <1>5 DEF Abs
<1> HIDE DEF x, y, v, w
<1>7. (10000 * x) \div y <= (10000 * v) \div w
  BY <1>6, LargerShare
<1>8. (10000 * x) \div y \in Nat /\ (10000 * v) \div w \in Nat
  <2>1. 10000 * x \in Nat /\ 10000 * v \in Nat
    BY <1>6
  <2> QED
    BY <1>6, <2>1, Quotient
<1>9. /\ Disagreement(p1, q) = 10000 - (10000 * x) \div y
      /\ Disagreement(q1, p) = 10000 - (10000 * v) \div w
  BY <1>6 DEF Disagreement, x, y, v, w
<1> HIDE DEF Disagreement
<1>10. /\ Disagreement(p1, q) \in Int /\ Disagreement(q1, p) \in Int
       /\ Disagreement(q1, p) <= Disagreement(p1, q) /\ Disagreement(p1, q) <= 10000
  BY <1>7, <1>8, <1>9
<1> QED
  BY <1>10 DEF Split, p, q, p1, q1

LEMMA ConfidenceRises ==
  ASSUME NEW z \in Nat, NEW d \in Int, NEW e \in Int, e <= d, d <= 10000
  PROVE  /\ (z * (20000 - d)) \div 20000 \in Int /\ (z * (20000 - e)) \div 20000 \in Int
         /\ (z * (20000 - d)) \div 20000 <= (z * (20000 - e)) \div 20000
<1>1. 20000 - d \in Nat /\ 20000 - e \in Nat /\ d - e \in Nat
  OBVIOUS
<1>2. z * (20000 - d) \in Nat /\ z * (20000 - e) \in Nat /\ z * (d - e) \in Nat
  BY <1>1
<1>3. z * (20000 - e) = z * (20000 - d) + z * (d - e)
  OBVIOUS
<1>4. z * (20000 - d) <= z * (20000 - e)
  BY <1>2, <1>3
<1>5. 20000 \in Nat \ {0}
  OBVIOUS
<1>6. (z * (20000 - d)) \div 20000 <= (z * (20000 - e)) \div 20000
  BY <1>2, <1>4, <1>5, QuotientGrows
<1>7. (z * (20000 - d)) \div 20000 \in Nat /\ (z * (20000 - e)) \div 20000 \in Nat
  BY <1>2, <1>5, Quotient
<1> QED
  BY <1>6, <1>7

-----------------------------------------------------------------------------
(***************************************************************************)
(* The alignment of the mirror image.                                      *)
(***************************************************************************)

\* The two sides change places.
LEMMA OppositeVotes ==
  ASSUME NEW r, NEW q, DOMAIN r = Analysts, DOMAIN q = Analysts,
         \A a \in Analysts : Opposite(r[a], q[a])
  PROVE  /\ Available(q) = Available(r)
         /\ Voting(q, "BULLISH") = Voting(r, "BEARISH")
         /\ Voting(q, "BEARISH") = Voting(r, "BULLISH")
<1>1. \A a \in Analysts :
        /\ q[a].direction = "NOT_AVAILABLE" <=> r[a].direction = "NOT_AVAILABLE"
        /\ q[a].direction = "BULLISH" <=> r[a].direction = "BEARISH"
        /\ q[a].direction = "BEARISH" <=> r[a].direction = "BULLISH"
  BY DEF Opposite, Flipped
<1> QED
  BY <1>1 DEF Available, Voting

\* The Risk Agent approves of both, as a bull.
LEMMA ApprovedReadings ==
  ASSUME NEW r, DOMAIN r = Analysts
  PROVE  LET all == WithRisk(r, TRUE)
         IN /\ DOMAIN all = Agents
            /\ \A a \in Analysts : all[a] = r[a]
            /\ all["RISK"] = [score |-> 100, direction |-> "BULLISH"]
            /\ Available(all) = Available(r) \cup {"RISK"}
            /\ Voting(all, "BULLISH") = Voting(r, "BULLISH") \cup {"RISK"}
            /\ Voting(all, "BEARISH") = Voting(r, "BEARISH")
<1> DEFINE all == WithRisk(r, TRUE)
<1>1. "RISK" \notin Analysts /\ Agents = Analysts \cup {"RISK"}
  BY DEF Agents, Analysts
<1>2. /\ DOMAIN all = Agents
      /\ \A a \in Analysts : all[a] = r[a]
      /\ all["RISK"] = [score |-> 100, direction |-> "BULLISH"]
  BY <1>1 DEF WithRisk, RiskReading
<1> HIDE DEF all
<1>3. /\ Available(all) = Available(r) \cup {"RISK"}
      /\ Voting(all, "BULLISH") = Voting(r, "BULLISH") \cup {"RISK"}
      /\ Voting(all, "BEARISH") = Voting(r, "BEARISH")
  BY <1>1, <1>2 DEF Available, Voting
<1> QED
  BY <1>2, <1>3 DEF all

\* A contribution, as the sum of a function.
LEMMA PartIsSum ==
  ASSUME NEW r, NEW e, NEW used, NEW f, NEW S \in SUBSET Agents,
         \A a \in S : f[a] = e[a] * r[a].score
  PROVE  Part(r, e, used, S) = (SumFunctionOnSet(f, S) * 100) \div used
<1> DEFINE g == [a \in S |-> e[a] * r[a].score]
<1>1. IsFiniteSet(S)
  BY AgentsAreFinite
<1>2. MapThenSumSet(LAMBDA a : e[a] * r[a].score, S) = SumFunctionOnSet(g, S)
  BY <1>1, MappedProduct
<1>3. \A a \in S : g[a] = f[a]
  OBVIOUS
<1> HIDE DEF g
<1>4. SumFunctionOnSet(g, S) = SumFunctionOnSet(f, S)
  BY <1>1, <1>3, SumSame
<1> QED
  BY <1>2, <1>4, Zenon DEF Part

LEMMA SumIsNat ==
  ASSUME NEW f, NEW S \in SUBSET Agents, \A a \in S : f[a] \in Nat
  PROVE  SumFunctionOnSet(f, S) \in Nat
<1>1. \A a : In(f, S, a) \in Nat
  BY DEF In
<1>2. \A a \in S : f[a] \in Int
  OBVIOUS
<1> QED
  BY <1>1, <1>2, SumOfAgents

LEMMA WeightIsNat ==
  ASSUME Weight = DefaultWeights, NEW S \in SUBSET Agents
  PROVE  WeightOf(S) = SumFunctionOnSet(Weight, S) /\ WeightOf(S) \in Nat
<1>1. WeightOf(S) = SumFunctionOnSet(Weight, S)
  BY DEF WeightOf, MapThenSumSet, MapThenFoldSet, SumFunctionOnSet, FoldFunctionOnSet
<1>2. \A a \in S : Weight[a] \in Nat
  BY AgentsAreNine DEF DefaultWeights
<1> QED
  BY <1>1, <1>2, SumIsNat

LEMMA CoverageIsNat ==
  ASSUME Weight = DefaultWeights, NEW A \in SUBSET Agents
  PROVE  Coverage(A) \in Nat
<1>1. DOMAIN Weight = Agents /\ \A a \in Agents : Weight[a] \in Nat \ {0}
  BY AgentsAreNine DEF DefaultWeights
<1>2. /\ WeightOf(A) \in Nat
      /\ WeightOf(Agents) = SumFunctionOnSet(Weight, Agents)
  BY WeightIsNat
<1>3. WeightOf(Agents) \in Nat \ {0}
  <2>1. \A a \in Agents : Weight[a] \in Int /\ In(Weight, Agents, a) = Weight[a]
    BY <1>1 DEF In
  <2>2. \A a \in Agents : In(Weight, Agents, a) \in Nat \ {0}
    BY <1>1, <2>1
  <2> DEFINE total == SumFunctionOnSet(Weight, Agents)
  <2>3. total =
          In(Weight, Agents, "HTF") + In(Weight, Agents, "REGIME") + In(Weight, Agents, "TREND")
            + In(Weight, Agents, "MOMENTUM") + In(Weight, Agents, "LIQUIDITY")
            + In(Weight, Agents, "OPTIONS") + In(Weight, Agents, "GAMMA")
            + In(Weight, Agents, "TRAP") + In(Weight, Agents, "RISK")
    BY <2>1, SumOfAgents
  <2> HIDE DEF total
  <2>4. total \in Nat \ {0}
    BY <2>2, <2>3, AgentsAreNine
  <2> QED
    BY <1>2, <2>4 DEF total
<1>4. WeightOf(A) * 100 \in Nat
  BY <1>2
<1> HIDE DEF WeightOf
<1> QED
  BY <1>3, <1>4, Quotient DEF Coverage

\* The bears lead the bulls, and the Risk Agent's vote counts, by more than the
\* rounding when the score is 72.
BearsLead(r, label) ==
  LET A == Available(r)
      e == Effective(Raw(A, Multiplier(label)))
      used == SumFunctionOnSet(e, A)
      f == [a \in Agents |-> e[a] * r[a].score]
      bull == SumFunctionOnSet(f, Voting(r, "BULLISH") \ {"RISK"})
      bear == SumFunctionOnSet(f, Voting(r, "BEARISH"))
      total == SumFunctionOnSet(f, A)
  IN /\ used \in Nat \ {0} /\ total \in Nat /\ bull \in Nat /\ bear \in Nat
     /\ \A a \in Agents : f[a] \in Nat
     /\ f["RISK"] * 100 >= 3 * used
     /\ total * 100 >= 7150 * used => bull <= bear /\ (bear - bull) * 100 >= 3 * used

\* Where the Trend, Higher-timeframe and Options Agents are bearish and the
\* score is 72, the bears lead the bulls by far more than the rounding.
LEMMA PutsLead ==
  ASSUME Weight = DefaultWeights, NEW label, NEW r, DOMAIN r = Agents,
         \A a \in Agents : r[a].score \in 0 .. 100,
         r["REGIME"].score <= 30, r["LIQUIDITY"].score <= 60, r["GAMMA"].score <= 40,
         r["TRAP"].score = 0, r["RISK"] = [score |-> 100, direction |-> "BULLISH"],
         r["REGIME"].direction # "BULLISH",
         \A a \in {"HTF", "TREND", "OPTIONS"} : r[a].direction = "BEARISH",
         \A a \in Agents \ {"GAMMA"} : r[a].direction # "NOT_AVAILABLE"
  PROVE  BearsLead(r, label)
<1> DEFINE A == Available(r)
           e == Effective(Raw(A, Multiplier(label)))
           used == SumFunctionOnSet(e, A)
           f == [a \in Agents |-> e[a] * r[a].score]
           U == Voting(r, "BULLISH") \ {"RISK"}
           B == Voting(r, "BEARISH")
           bull == SumFunctionOnSet(f, U)
           bear == SumFunctionOnSet(f, B)
           total == SumFunctionOnSet(f, A)
<1>1. A \in SUBSET Agents /\ Agents \ A \subseteq {"GAMMA"}
  BY DEF Available
<1>2. /\ U \subseteq A /\ B \subseteq A
      /\ "HTF" \notin U /\ "TREND" \notin U /\ "OPTIONS" \notin U /\ "REGIME" \notin U
      /\ "RISK" \notin U
      /\ "HTF" \in B /\ "TREND" \in B /\ "OPTIONS" \in B
  BY AgentsAreNine DEF Available, Voting
<1> HIDE DEF A, U, B
<1>3. /\ "HTF" \in A /\ "REGIME" \in A /\ "TREND" \in A /\ "MOMENTUM" \in A
      /\ "LIQUIDITY" \in A /\ "OPTIONS" \in A /\ "TRAP" \in A /\ "RISK" \in A
  BY <1>1, AgentsAreNine
<1>4. /\ \A a \in Agents : e[a] \in Nat
      /\ e["HTF"] + e["TREND"] = 25000
      /\ e["MOMENTUM"] <= 10000
      /\ e["REGIME"] >= 10000 /\ e["REGIME"] <= 11000
      /\ e["LIQUIDITY"] = 15000 /\ e["TRAP"] = 5000
      /\ e["OPTIONS"] >= 15000 /\ e["OPTIONS"] <= 15750 /\ e["GAMMA"] <= 5250
      /\ e["RISK"] >= 10000 /\ e["RISK"] <= 11500
  <2>1. Agents \ A \subseteq {"HTF", "OPTIONS", "GAMMA"}
    BY <1>1
  <2>2. /\ \A a \in Agents : e[a] \in Nat
        /\ e["HTF"] + e["TREND"] <= 25000 /\ e["HTF"] + e["TREND"] >= 25000
        /\ e["MOMENTUM"] <= 10000
        /\ e["REGIME"] >= 10000 /\ e["REGIME"] <= 11000
        /\ e["LIQUIDITY"] = 15000 /\ e["TRAP"] = 5000
        /\ e["OPTIONS"] >= 15000 /\ e["OPTIONS"] <= 15750 /\ e["GAMMA"] <= 5250
        /\ e["RISK"] >= 10000 /\ e["RISK"] <= 11500
    BY <1>1, <1>3, <2>1, WeightsInForce
  <2> HIDE DEF e
  <2>3. e["HTF"] \in Nat /\ e["TREND"] \in Nat
    BY <2>2, AgentsAreNine
  <2> QED
    BY <2>2, <2>3
<1> HIDE DEF e
<1>5. \A a \in Agents : e[a] * r[a].score \in Nat
  BY <1>4
<1>6. \A a \in Agents : f[a] = e[a] * r[a].score /\ f[a] \in Nat
  BY <1>5
<1> HIDE DEF f
<1>7. /\ \A a \in A : e[a] \in Int /\ f[a] \in Int
      /\ \A a \in U : f[a] \in Int
      /\ \A a \in B : f[a] \in Int
      /\ U \in SUBSET Agents /\ B \in SUBSET Agents
  BY <1>1, <1>2, <1>4, <1>6
<1>8. /\ used = e["HTF"] + e["REGIME"] + e["TREND"] + e["MOMENTUM"] + e["LIQUIDITY"]
                  + e["OPTIONS"] + In(e, A, "GAMMA") + e["TRAP"] + e["RISK"]
      /\ In(e, A, "GAMMA") \in Nat /\ In(e, A, "GAMMA") <= e["GAMMA"]
  <2>1. used = In(e, A, "HTF") + In(e, A, "REGIME") + In(e, A, "TREND") + In(e, A, "MOMENTUM")
             + In(e, A, "LIQUIDITY") + In(e, A, "OPTIONS") + In(e, A, "GAMMA")
             + In(e, A, "TRAP") + In(e, A, "RISK")
    BY <1>1, <1>7, SumOfAgents
  <2>2. In(e, A, "GAMMA") \in Nat /\ In(e, A, "GAMMA") <= e["GAMMA"]
    BY <1>4, AgentsAreNine DEF In
  <2>3. \A a \in A : In(e, A, a) = e[a]
    BY DEF In
  <2> HIDE DEF used
  <2> QED
    BY <1>3, <2>1, <2>2, <2>3
<1>9. /\ total = f["HTF"] + f["REGIME"] + f["TREND"] + f["MOMENTUM"] + f["LIQUIDITY"]
                  + f["OPTIONS"] + In(f, A, "GAMMA") + f["TRAP"] + f["RISK"]
      /\ In(f, A, "GAMMA") \in Nat /\ In(f, A, "GAMMA") <= 40 * In(e, A, "GAMMA")
  <2>1. total = In(f, A, "HTF") + In(f, A, "REGIME") + In(f, A, "TREND") + In(f, A, "MOMENTUM")
             + In(f, A, "LIQUIDITY") + In(f, A, "OPTIONS") + In(f, A, "GAMMA")
             + In(f, A, "TRAP") + In(f, A, "RISK")
    BY <1>1, <1>7, SumOfAgents
  <2>2. In(f, A, "GAMMA") \in Nat /\ In(f, A, "GAMMA") <= 40 * In(e, A, "GAMMA")
    <3>1. e["GAMMA"] \in Nat /\ r["GAMMA"].score \in Nat /\ f["GAMMA"] = e["GAMMA"] * r["GAMMA"].score
      BY <1>4, <1>6, AgentsAreNine
    <3> QED
      BY <3>1, Contribution DEF In
  <2>3. \A a \in A : In(f, A, a) = f[a]
    BY DEF In
  <2> HIDE DEF total
  <2> QED
    BY <1>3, <2>1, <2>2, <2>3
<1>10. /\ f["REGIME"] <= 30 * e["REGIME"] /\ f["MOMENTUM"] <= 100 * e["MOMENTUM"]
       /\ f["LIQUIDITY"] <= 60 * e["LIQUIDITY"]
       /\ f["TRAP"] = 0 /\ f["RISK"] = e["RISK"] * 100
  <2>1. \A a \in Agents : e[a] \in Nat /\ r[a].score \in Nat /\ r[a].score <= 100
    BY <1>4
  <2>2. e["TRAP"] * 0 = 0
    BY <1>4
  <2>3. f["TRAP"] = 0 /\ f["RISK"] = e["RISK"] * 100
    BY <1>6, <2>2, AgentsAreNine
  <2>4. ASSUME NEW a \in Agents, NEW c \in Nat, r[a].score <= c
        PROVE  f[a] <= c * e[a]
    BY <1>6, <2>1, <2>4, Contribution
  <2>5. {"REGIME", "MOMENTUM", "LIQUIDITY"} \subseteq Agents
    BY AgentsAreNine
  <2>6. f["REGIME"] <= 30 * e["REGIME"]
    BY <2>4, <2>5
  <2>7. f["MOMENTUM"] <= 100 * e["MOMENTUM"]
    BY <2>1, <2>4, <2>5
  <2>8. f["LIQUIDITY"] <= 60 * e["LIQUIDITY"]
    BY <2>4, <2>5
  <2> QED
    BY <2>3, <2>6, <2>7, <2>8
<1>11. bull \in Nat /\ bull <= f["MOMENTUM"] + f["LIQUIDITY"] + In(f, A, "GAMMA") + f["TRAP"]
  <2>1. bull = In(f, U, "HTF") + In(f, U, "REGIME") + In(f, U, "TREND") + In(f, U, "MOMENTUM")
             + In(f, U, "LIQUIDITY") + In(f, U, "OPTIONS") + In(f, U, "GAMMA")
             + In(f, U, "TRAP") + In(f, U, "RISK")
    BY <1>7, SumOfAgents
  <2>2. /\ In(f, U, "HTF") = 0 /\ In(f, U, "REGIME") = 0 /\ In(f, U, "TREND") = 0
        /\ In(f, U, "OPTIONS") = 0 /\ In(f, U, "RISK") = 0
    BY <1>2 DEF In
  <2>3. \A a \in Agents : In(f, U, a) \in Nat /\ In(f, U, a) <= f[a]
    BY <1>6 DEF In
  <2>4. In(f, U, "GAMMA") <= In(f, A, "GAMMA")
    BY <1>2, <1>6, AgentsAreNine DEF In
  <2> HIDE DEF bull
  <2>5. /\ f["MOMENTUM"] \in Nat /\ f["LIQUIDITY"] \in Nat /\ f["TRAP"] \in Nat
        /\ In(f, U, "MOMENTUM") \in Nat /\ In(f, U, "LIQUIDITY") \in Nat
        /\ In(f, U, "GAMMA") \in Nat /\ In(f, U, "TRAP") \in Nat
        /\ In(f, U, "MOMENTUM") <= f["MOMENTUM"] /\ In(f, U, "LIQUIDITY") <= f["LIQUIDITY"]
        /\ In(f, U, "TRAP") <= f["TRAP"]
    BY <1>6, <2>3, AgentsAreNine
  <2> QED
    BY <1>9, <2>1, <2>2, <2>4, <2>5
<1>12. bear \in Nat /\ bear >= f["HTF"] + f["TREND"] + f["OPTIONS"]
  <2>1. bear = In(f, B, "HTF") + In(f, B, "REGIME") + In(f, B, "TREND") + In(f, B, "MOMENTUM")
             + In(f, B, "LIQUIDITY") + In(f, B, "OPTIONS") + In(f, B, "GAMMA")
             + In(f, B, "TRAP") + In(f, B, "RISK")
    BY <1>7, SumOfAgents
  <2>2. \A a \in Agents : In(f, B, a) \in Nat
    BY <1>6 DEF In
  <2>3. /\ In(f, B, "HTF") = f["HTF"] /\ In(f, B, "TREND") = f["TREND"]
        /\ In(f, B, "OPTIONS") = f["OPTIONS"]
    BY <1>2 DEF In
  <2> HIDE DEF bear
  <2> QED
    BY <2>1, <2>2, <2>3, AgentsAreNine
<1> HIDE DEF used, total, bull, bear
<1>13. /\ f["HTF"] \in Nat /\ f["REGIME"] \in Nat /\ f["TREND"] \in Nat /\ f["MOMENTUM"] \in Nat
       /\ f["LIQUIDITY"] \in Nat /\ f["OPTIONS"] \in Nat
       /\ e["MOMENTUM"] \in Nat /\ e["REGIME"] \in Nat /\ e["OPTIONS"] \in Nat
       /\ e["GAMMA"] \in Nat /\ e["RISK"] \in Nat
       /\ e["HTF"] \in Nat /\ e["TREND"] \in Nat
  BY <1>4, <1>6, AgentsAreNine
<1>14. used \in Nat \ {0} /\ used <= 100000 /\ total \in Nat /\ f["RISK"] * 100 >= 3 * used
  <2>1. used \in Nat \ {0} /\ used <= 100000
    BY <1>4, <1>8, <1>13
  <2>2. f["RISK"] \in Nat /\ f["RISK"] >= 1000000
    BY <1>4, <1>10, <1>13
  <2>3. total \in Nat
    BY <1>9, <1>10, <1>13, <2>2
  <2> QED
    BY <2>1, <2>2, <2>3
<1>15. ASSUME total * 100 >= 7150 * used
       PROVE  bull <= bear /\ (bear - bull) * 100 >= 3 * used
  <2>1. bear - bull >= 300000
    BY <1>4, <1>8, <1>9, <1>10, <1>11, <1>12, <1>13, <1>15
  <2> QED
    BY <1>11, <1>12, <1>14, <2>1
<1> QED
  BY <1>6, <1>11, <1>12, <1>14, <1>15 DEF BearsLead, A, U, B, e, used, f, bull, bear, total

\* What a put needs of its market and of two of its agents.
PutReadings(s) ==
  /\ PutMarket(s)
  /\ Readings(s)["HTF"].direction = "BEARISH" /\ Readings(s)["OPTIONS"].direction = "BEARISH"

\* The mirror image is aligned as well, with no more disagreement.
LEMMA MirrorAligned ==
  ASSUME Weight = DefaultWeights, NEW s \in Snapshots, PutReadings(s), NEW label,
         Alignment(WithRisk(Readings(s), TRUE), label).score # None,
         Alignment(WithRisk(Readings(s), TRUE), label).score >= 72
  PROVE  LET al == Alignment(WithRisk(Readings(s), TRUE), label)
             up == Alignment(WithRisk(Readings(Mirror(s)), TRUE), label)
         IN /\ up.score = al.score /\ up.coverage = al.coverage
            /\ al.disagreement \in Int /\ up.disagreement \in Int
            /\ up.disagreement <= al.disagreement
            /\ al.confidence \in Int /\ up.confidence \in Int
            /\ al.confidence <= up.confidence
<1> DEFINE m == Mirror(s)
           r0 == Readings(s)
           q0 == Readings(m)
           r == WithRisk(r0, TRUE)
           q == WithRisk(q0, TRUE)
           A == Available(r)
           e == Effective(Raw(A, Multiplier(label)))
           used == SumFunctionOnSet(e, A)
           f == [a \in Agents |-> e[a] * r[a].score]
           U == Voting(r, "BULLISH") \ {"RISK"}
           B == Voting(r, "BEARISH")
           bull == SumFunctionOnSet(f, U)
           bear == SumFunctionOnSet(f, B)
           total == SumFunctionOnSet(f, A)
<1>1. /\ DOMAIN r0 = Analysts /\ DOMAIN q0 = Analysts
      /\ \A a \in Analysts : Opposite(r0[a], q0[a])
      /\ r0["TRAP"].score = 0
  BY MirrorReadings DEF PutReadings
<1>2. "RISK" \notin Analysts /\ Agents = Analysts \cup {"RISK"}
  BY DEF Agents, Analysts
<1>3. /\ DOMAIN r = Agents
      /\ \A a \in Agents : r[a].score \in 0 .. 100
      /\ r["REGIME"].score <= 30 /\ r["LIQUIDITY"].score <= 60 /\ r["GAMMA"].score <= 40
      /\ \A a \in Agents \ {"HTF", "OPTIONS", "GAMMA"} : r[a].direction # "NOT_AVAILABLE"
  BY AllReadings
<1>4. r0["TREND"].direction = "BEARISH" /\ r0["REGIME"].direction # "BULLISH"
  <2>1. s.vwap \in Int /\ s.vwap < 0 /\ s.gap < 0
    BY PipelineAssumption DEF Snapshots, PutReadings, PutMarket
  <2>2. Trend(s).direction = "BEARISH"
    BY <2>1, TapeDown
  <2>3. Regime(s).direction # "BULLISH"
    <3>1. ASSUME NEW x \in {-30} PROVE Reading(x).direction # "BULLISH"
      BY DEF Reading, DirectionFromScore
    <3>2. 30 * Side(s.vwap) \in {-30}
      BY <2>1 DEF Side
    <3> QED
      BY <3>1, <3>2 DEF Regime, Neutral
  <2> QED
    BY <2>2, <2>3 DEF Readings
<1>5. r0["HTF"].direction = "BEARISH" /\ r0["OPTIONS"].direction = "BEARISH"
  BY DEF PutReadings
<1> HIDE DEF r0, q0
<1>6. /\ \A a \in Analysts : r[a] = r0[a]
      /\ r["RISK"] = [score |-> 100, direction |-> "BULLISH"]
      /\ A = Available(r0) \cup {"RISK"}
      /\ Voting(r, "BULLISH") = Voting(r0, "BULLISH") \cup {"RISK"}
      /\ B = Voting(r0, "BEARISH")
  BY <1>1, ApprovedReadings
<1>7. /\ DOMAIN q = Agents
      /\ \A a \in Analysts : q[a] = q0[a]
      /\ q["RISK"] = [score |-> 100, direction |-> "BULLISH"]
      /\ Available(q) = Available(q0) \cup {"RISK"}
      /\ Voting(q, "BULLISH") = Voting(q0, "BULLISH") \cup {"RISK"}
      /\ Voting(q, "BEARISH") = Voting(q0, "BEARISH")
  BY <1>1, ApprovedReadings
<1>8. /\ Available(q0) = Available(r0)
      /\ Voting(q0, "BULLISH") = Voting(r0, "BEARISH")
      /\ Voting(q0, "BEARISH") = Voting(r0, "BULLISH")
  BY <1>1, OppositeVotes
<1> HIDE DEF r, q
<1>9. "RISK" \notin Voting(r0, "BULLISH") /\ "RISK" \notin Voting(r0, "BEARISH")
  BY <1>1, <1>2 DEF Voting
<1>10. /\ Available(q) = A
       /\ Voting(r, "BULLISH") = U \cup {"RISK"}
       /\ Voting(q, "BULLISH") = B \cup {"RISK"} /\ Voting(q, "BEARISH") = U
       /\ "RISK" \notin U /\ "RISK" \notin B
  BY <1>6, <1>7, <1>8, <1>9
<1>11. A \in SUBSET Agents /\ U \in SUBSET Agents /\ B \in SUBSET Agents /\ "RISK" \in Agents
  BY <1>2, <1>3 DEF Available, Voting
<1>12. \A a \in Agents : q[a].score = r[a].score
  BY <1>1, <1>2, <1>6, <1>7 DEF Opposite
<1>13. /\ used \in Nat \ {0} /\ total \in Nat /\ bull \in Nat /\ bear \in Nat
       /\ \A a \in Agents : f[a] \in Nat
       /\ f["RISK"] * 100 >= 3 * used
       /\ total * 100 >= 7150 * used => bull <= bear /\ (bear - bull) * 100 >= 3 * used
  <2>1. {"TRAP", "REGIME", "HTF", "TREND", "OPTIONS"} \subseteq Analysts
    BY DEF Analysts
  <2>2. /\ r["TRAP"].score = 0 /\ r["REGIME"].direction # "BULLISH"
        /\ \A a \in {"HTF", "TREND", "OPTIONS"} : r[a].direction = "BEARISH"
    BY <1>1, <1>4, <1>5, <1>6, <2>1
  <2>3. \A a \in Agents \ {"GAMMA"} : r[a].direction # "NOT_AVAILABLE"
    BY <1>3, <2>2
  <2>4. BearsLead(r, label)
    BY <1>3, <1>6, <2>2, <2>3, PutsLead
  <2> QED
    BY <2>4 DEF BearsLead
<1> DEFINE z == (total * 100) \div used
           cover == Coverage(A)
           d == Split(bull, bear, f["RISK"], used)
           u == Split(bear, bull, f["RISK"], used)
<1>14. \A a \in Agents : f[a] = e[a] * r[a].score /\ f[a] = e[a] * q[a].score
  BY <1>12
<1>15. /\ Alignment(r, label) = Weigh(r, A, e, used)
       /\ Alignment(q, label) = Weigh(q, A, e, used)
  <2>1. MapThenSumSet(LAMBDA a : e[a], A) = used
    BY MappedSum
  <2> QED
    BY <1>10, <2>1 DEF Alignment
<1> HIDE DEF e, used, A, U, B
<1>16. /\ \A S \in SUBSET Agents : Part(r, e, used, S) = (SumFunctionOnSet(f, S) * 100) \div used
       /\ \A S \in SUBSET Agents : Part(q, e, used, S) = (SumFunctionOnSet(f, S) * 100) \div used
  <2> HIDE DEF f
  <2> QED
    BY <1>14, PartIsSum
<1> HIDE DEF f
<1>17. /\ SumFunctionOnSet(f, U \cup {"RISK"}) = bull + f["RISK"]
       /\ SumFunctionOnSet(f, B \cup {"RISK"}) = bear + f["RISK"]
  <2>1. IsFiniteSet(U) /\ IsFiniteSet(B)
    BY <1>11, AgentsAreFinite
  <2>2. f["RISK"] \in Int /\ (\A a \in U : f[a] \in Int) /\ (\A a \in B : f[a] \in Int)
    BY <1>11, <1>13
  <2> QED
    BY <1>10, <2>1, <2>2, SumAdd
<1>18. /\ Weigh(r, A, e, used) = Aligned(z, cover, d)
       /\ Weigh(q, A, e, used) = Aligned(z, cover, u)
  <2>1. U \cup {"RISK"} \in SUBSET Agents /\ B \cup {"RISK"} \in SUBSET Agents
    BY <1>11
  <2>2. /\ Part(r, e, used, A) = z /\ Part(q, e, used, A) = z
        /\ Part(r, e, used, Voting(r, "BULLISH")) = ((bull + f["RISK"]) * 100) \div used
        /\ Part(r, e, used, Voting(r, "BEARISH")) = (bear * 100) \div used
        /\ Part(q, e, used, Voting(q, "BULLISH")) = ((bear + f["RISK"]) * 100) \div used
        /\ Part(q, e, used, Voting(q, "BEARISH")) = (bull * 100) \div used
    BY <1>10, <1>11, <1>16, <1>17, <2>1 DEF B
  <2>3. used # 0
    BY <1>13
  <2> QED
    BY <2>2, <2>3 DEF Weigh, Split
<1> HIDE DEF bull, bear, total
<1>19. total * 100 >= 7150 * used
  <2>1. (z + 50) \div 100 >= 72
    <3>1. Alignment(r, label).score >= 72
      BY DEF r, r0
    <3> HIDE DEF z, cover, d
    <3>2. Aligned(z, cover, d).score = (z + 50) \div 100
      BY DEF Aligned
    <3> QED
      BY <1>15, <1>18, <3>1, <3>2
  <2>2. total * 100 \in Nat
    BY <1>13
  <2>3. z \in Nat /\ used * z <= total * 100
    BY <1>13, <2>2, Quotient
  <2> HIDE DEF z
  <2>4. z >= 7150
    BY <2>1, <2>3
  <2>5. z - 7150 \in Nat
    BY <2>3, <2>4
  <2>6. used * (z - 7150) \in Nat
    BY <1>13, <2>5
  <2>7. used * z = used * (z - 7150) + 7150 * used
    BY <1>13, <2>3
  <2> QED
    BY <1>13, <2>2, <2>3, <2>6, <2>7
<1>20. d \in Int /\ u \in Int /\ u <= d /\ d <= 10000
  <2> DEFINE risk == f["RISK"]
  <2>1. risk \in Nat /\ risk * 100 >= 3 * used
    BY <1>11, <1>13
  <2> HIDE DEF risk
  <2>2. bull <= bear /\ (bear - bull) * 100 >= 3 * used
    BY <1>13, <1>19
  <2>3. used \in Nat \ {0} /\ bull \in Nat /\ bear \in Nat
    BY <1>13
  <2>4. /\ Split(bull, bear, risk, used) \in Int /\ Split(bear, bull, risk, used) \in Int
        /\ Split(bear, bull, risk, used) <= Split(bull, bear, risk, used)
        /\ Split(bull, bear, risk, used) <= 10000
    BY <2>1, <2>2, <2>3, DisagreementFalls
  <2> QED
    BY <2>4 DEF risk
<1> DEFINE y == (z * cover) \div 100
<1>21. y \in Nat
  <2>1. cover \in Nat
    BY <1>11, CoverageIsNat
  <2>2. z \in Nat
    <3>1. total * 100 \in Nat
      BY <1>13
    <3> QED
      BY <1>13, <3>1, Quotient
  <2> HIDE DEF z, cover
  <2>3. z * cover \in Nat
    BY <2>1, <2>2
  <2> QED
    BY <2>3
<1>22. /\ Aligned(z, cover, d).confidence = (y * (20000 - d)) \div 20000
       /\ Aligned(z, cover, u).confidence = (y * (20000 - u)) \div 20000
       /\ Aligned(z, cover, d).score = Aligned(z, cover, u).score
       /\ Aligned(z, cover, d).coverage = Aligned(z, cover, u).coverage
       /\ Aligned(z, cover, d).disagreement = d /\ Aligned(z, cover, u).disagreement = u
  <2> HIDE DEF z, cover, d, u
  <2> QED
    BY DEF Aligned
<1> HIDE DEF z, cover, d, u, y
<1>23. /\ (y * (20000 - d)) \div 20000 \in Int /\ (y * (20000 - u)) \div 20000 \in Int
       /\ (y * (20000 - d)) \div 20000 <= (y * (20000 - u)) \div 20000
  BY <1>20, <1>21, ConfidenceRises
<1> DEFINE al == Alignment(r, label)
           up == Alignment(q, label)
<1>24. al = Aligned(z, cover, d) /\ up = Aligned(z, cover, u)
  BY <1>15, <1>18
<1> HIDE DEF al, up
<1>25. /\ up.score = al.score /\ up.coverage = al.coverage
       /\ al.disagreement \in Int /\ up.disagreement \in Int
       /\ up.disagreement <= al.disagreement
       /\ al.confidence \in Int /\ up.confidence \in Int
       /\ al.confidence <= up.confidence
  BY <1>20, <1>22, <1>23, <1>24
<1> QED
  BY <1>25 DEF al, up, r, q, r0, q0, m

\* What it takes to buy a put.
LEMMA PutBought ==
  ASSUME NEW s \in Snapshots, Decide(s).decision = "PE_BUY", ~OnLevel(s)
  PROVE  LET r == Readings(s)
             al == Alignment(WithRisk(r, TRUE), RegimeLabel(s))
         IN /\ PutReadings(s) /\ Dominant(r) = "BEARISH"
            /\ RrOk(s.chain.rr) /\ RiskApproved(s, s.chain.rr)
            /\ Grade(al, TRUE, Conflicting(r, "BEARISH")) \in {"A_PLUS", "A"}
<1> DEFINE r == Readings(s)
           dominant == Dominant(r)
           rr == PlanRr(s, dominant)
           approved == RiskApproved(s, rr)
           all == WithRisk(r, approved)
           al == Alignment(all, RegimeLabel(s))
           conflicting == Conflicting(r, dominant)
           grade == Grade(al, approved, conflicting)
           passed == Checklist(s, r, dominant, rr)
<1>1. Decide(s) = Conclude(dominant, rr, Dominant(all), al.score, grade, passed)
  BY DEF Decide, Analyse, AskRisk, Judge
<1>2. dominant \in {"BULLISH", "BEARISH", "NEUTRAL"}
  BY DEF Dominant, Lean
<1>3. approved \in BOOLEAN
  BY DEF RiskApproved
<1> HIDE DEF dominant, passed, grade, rr, all, al
<1>4. dominant = "BEARISH" /\ passed /\ grade \in {"A_PLUS", "A"}
  BY <1>1, <1>2 DEF Conclude, Answer
<1>5. approved
  BY <1>3, <1>4 DEF grade, Grade, Gradable
<1>6. /\ r["HTF"].direction = "BEARISH" /\ s.vwap < 0 /\ s.gap < 0 /\ s.volume > 100
      /\ r["OPTIONS"].direction = "BEARISH" /\ NoTrap(s) /\ RrOk(rr)
  BY <1>4 DEF passed, Checklist
<1>7. s.chain # NoChain /\ rr = s.chain.rr
  BY <1>4, <1>6 DEF rr, PlanRr, RrOk
<1>8. PutReadings(s)
  BY <1>6, <1>7 DEF PutReadings, PutMarket
<1>9. RiskApproved(s, s.chain.rr)
  BY <1>5, <1>7
<1>10. grade = Grade(Alignment(WithRisk(r, TRUE), RegimeLabel(s)), TRUE, Conflicting(r, "BEARISH"))
  BY <1>3, <1>4, <1>5 DEF grade, al, all
<1> HIDE DEF r
<1> QED
  BY <1>4, <1>6, <1>7, <1>8, <1>9, <1>10 DEF dominant, r

\* No less aligned, no worse graded.
LEMMA GradeKept ==
  ASSUME NEW al, NEW up, NEW conflicting, up.score = al.score, up.coverage = al.coverage,
         al.disagreement \in Int, up.disagreement \in Int, up.disagreement <= al.disagreement,
         al.confidence \in Int, up.confidence \in Int, al.confidence <= up.confidence,
         Grade(al, TRUE, conflicting) \in {"A_PLUS", "A"}
  PROVE  Grade(up, TRUE, conflicting) \in {"A_PLUS", "A"}
<1>1. MaxDisagreement \in Int
  BY PipelineAssumption
<1>2. Gradable(al, TRUE, conflicting)
  BY DEF Grade
<1>3. Gradable(up, TRUE, conflicting)
  BY <1>1, <1>2 DEF Gradable
<1>4. \/ TopGrade(al, conflicting)
      \/ al.score >= 72 /\ conflicting <= 1 /\ al.confidence >= 5000
  BY <1>2 DEF Grade
<1>5. \/ TopGrade(up, conflicting)
      \/ up.score >= 72 /\ conflicting <= 1 /\ up.confidence >= 5000
  BY <1>4 DEF TopGrade
<1> QED
  BY <1>3, <1>5 DEF Grade

\* The mirror image of what a put is bought in, a call is bought in.
LEMMA MirrorBuysCalls ==
  ASSUME Weight = DefaultWeights,
         NEW s \in Snapshots, Decide(s).decision = "PE_BUY", ~OnLevel(s)
  PROVE  Decide(Mirror(s)).decision = "CE_BUY"
<1> DEFINE m == Mirror(s)
           r == Readings(s)
           q == Readings(m)
           label == RegimeLabel(s)
           al == Alignment(WithRisk(r, TRUE), label)
           up == Alignment(WithRisk(q, TRUE), label)
           conflicting == Conflicting(r, "BEARISH")
           rr == s.chain.rr
<1>1. /\ PutReadings(s) /\ Dominant(r) = "BEARISH"
      /\ RrOk(rr) /\ RiskApproved(s, rr)
      /\ Grade(al, TRUE, conflicting) \in {"A_PLUS", "A"}
  BY PutBought
<1>2. /\ s.vwap \in Int /\ s.gap \in Int /\ s.vwap < 0 /\ s.gap < 0 /\ s.volume > 100
      /\ s.chain # NoChain /\ PutMarket(s)
      /\ r["HTF"].direction = "BEARISH" /\ r["OPTIONS"].direction = "BEARISH"
  BY <1>1, PipelineAssumption DEF Snapshots, PutReadings, PutMarket
<1>3. /\ DOMAIN r = Analysts /\ DOMAIN q = Analysts
      /\ \A a \in Analysts : Opposite(r[a], q[a])
      /\ NoTrap(m)
  BY <1>2, MirrorReadings
<1>4. /\ m.vwap = -s.vwap /\ m.gap = -s.gap /\ m.volume = s.volume
      /\ m.adx = s.adx /\ m.atr = s.atr /\ m.vetoes = s.vetoes
      /\ m.chain # NoChain /\ m.chain.rr = rr
  BY <1>2, MirrorFields
<1>5. Grade(up, TRUE, conflicting) \in {"A_PLUS", "A"}
  <2>1. al.score = None \/ al.score \in Int
    <3>1. al.score = None \/ (al.score \in Int /\ al.score < 85)
      BY ScoreStaysBelow
    <3> QED
      BY <3>1
  <2>2. al.score # None /\ al.score >= 72
    <3> HIDE DEF al, conflicting
    <3> QED
      BY <1>1, <2>1 DEF Grade, Gradable, TopGrade
  <2>3. /\ up.score = al.score /\ up.coverage = al.coverage
        /\ al.disagreement \in Int /\ up.disagreement \in Int
        /\ up.disagreement <= al.disagreement
        /\ al.confidence \in Int /\ up.confidence \in Int
        /\ al.confidence <= up.confidence
    BY <1>1, <2>2, MirrorAligned
  <2> HIDE DEF al, up, conflicting
  <2> QED
    BY <1>1, <2>3, GradeKept
<1> HIDE DEF m, r, q
<1>6. /\ Voting(q, "BULLISH") = Voting(r, "BEARISH")
      /\ Voting(q, "BEARISH") = Voting(r, "BULLISH")
  BY <1>3, OppositeVotes
<1>7. Dominant(q) = "BULLISH"
  <2>1. Voting(r, "BULLISH") \in SUBSET Agents /\ Voting(r, "BEARISH") \in SUBSET Agents
    BY <1>3 DEF Voting, Agents
  <2>2. WeightOf(Voting(r, "BULLISH")) \in Nat /\ WeightOf(Voting(r, "BEARISH")) \in Nat
    BY <2>1, WeightIsNat
  <2>3. \A x \in Nat, y \in Nat : Lean(x, y) = "BEARISH" => Lean(y, x) = "BULLISH"
    BY DEF Lean
  <2> QED
    BY <1>1, <1>6, <2>2, <2>3 DEF Dominant
<1>8. Conflicting(q, "BULLISH") = conflicting
  <2>1. (Voting(q, "BULLISH") \cup Voting(q, "BEARISH")) \ Voting(q, "BULLISH")
          = (Voting(r, "BULLISH") \cup Voting(r, "BEARISH")) \ Voting(r, "BEARISH")
    BY <1>6
  <2> QED
    BY <2>1 DEF Conflicting
<1>9. PlanRr(m, "BULLISH") = rr /\ rr # None
  BY <1>1, <1>4 DEF PlanRr, RrOk
<1>10. RiskApproved(m, rr) = TRUE
  BY <1>1, <1>4 DEF RiskApproved
<1>11. RegimeLabel(m) = label
  BY <1>4 DEF RegimeLabel, Trending, HighVolatility
<1>12. Checklist(m, q, "BULLISH", rr) = TRUE
  <2>1. q["HTF"].direction = "BULLISH" /\ q["OPTIONS"].direction = "BULLISH"
    BY <1>2, <1>3 DEF Opposite, Flipped, Analysts
  <2>2. m.vwap > 0 /\ m.gap > 0
    BY <1>2, <1>4
  <2>3. m.volume > 100
    BY <1>2, <1>4
  <2> QED
    BY <1>1, <1>3, <2>1, <2>2, <2>3 DEF Checklist
<1> DEFINE debate == Dominant(WithRisk(q, TRUE))
           grade == Grade(up, TRUE, conflicting)
<1>13. Decide(m) = Conclude("BULLISH", rr, debate, up.score, grade, TRUE)
  <2>1. Decide(m) = Analyse(m, q, "BULLISH", rr)
    BY <1>7, <1>9 DEF Decide, q
  <2>2. Analyse(m, q, "BULLISH", rr) = AskRisk(m, q, "BULLISH", rr, TRUE)
    BY <1>10 DEF Analyse
  <2>3. AskRisk(m, q, "BULLISH", rr, TRUE)
          = Judge(m, q, "BULLISH", rr, TRUE, WithRisk(q, TRUE), up)
    BY <1>11 DEF AskRisk
  <2>4. Judge(m, q, "BULLISH", rr, TRUE, WithRisk(q, TRUE), up)
          = Conclude("BULLISH", rr, debate, up.score, grade, TRUE)
    BY <1>8, <1>12 DEF Judge
  <2> QED
    BY <2>1, <2>2, <2>3, <2>4
<1>14. grade \in {"A_PLUS", "A"}
  BY <1>5 DEF q
<1> HIDE DEF debate, grade, up, rr
<1> QED
  BY <1>9, <1>13, <1>14 DEF Conclude, Answer, m

-----------------------------------------------------------------------------
\* Every reachable state carries the answer to the snapshot it read.
LEMMA PipelineAnswers == Spec => []Answered
<1>1. Init => Answered
  BY DEF Init, Answered, NoAnswer
<1>2. Answered /\ [Next]_vars => Answered'
  <2> SUFFICES ASSUME Answered, [Next]_vars
               PROVE  Answered'
    OBVIOUS
  <2>1. CASE Poll
    BY <2>1 DEF Poll, Answered
  <2>2. CASE Served
    BY <2>2 DEF Served, Answered, NoAnswer
  <2>3. CASE UNCHANGED vars
    BY <2>3 DEF vars, Answered
  <2> QED
    BY <2>1, <2>2, <2>3 DEF Next
<1> QED
  BY <1>1, <1>2, PTL DEF Spec

\* A and A_PLUS are exactly the buys, for any market, weights and limits.
THEOREM GradesAreDecisions == Spec => []GradeMatchesDecision
<1>1. Answered => GradeMatchesDecision
  BY GradeOfDecision DEF Answered, GradeMatchesDecision, DataError, Answer
<1> QED
  BY <1>1, PipelineAnswers, PTL

\* No buy is against the Trend Agent, for any market, weights and limits.
THEOREM BuysGoWithTrend == Spec => []BuyGoesWithTrend
<1>1. ASSUME Answered
      PROVE  BuyGoesWithTrend
  <2> SUFFICES ASSUME polled \notin {Idle, NoData}, response.decision # "NO_TRADE"
               PROVE  Trend(polled).direction = response.dominant
    BY DEF BuyGoesWithTrend
  <2>1. polled \in Snapshots /\ response = Decide(polled)
    BY <1>1 DEF Answered
  <2> QED
    BY <2>1, BuyHasTape, TapeUp, TapeDown
<1> QED
  BY <1>1, PipelineAnswers, PTL

\* With the default weights no market, whatever its numbers, the plan and the
\* limits configured, is graded A_PLUS: the ceilings of the Regime, Liquidity,
\* Trap and Gamma Agents keep every alignment score below 85.
THEOREM TopGradeIsDead ==
  ASSUME Weight = DefaultWeights
  PROVE  Spec => []NoTopGrade
<1>1. ASSUME Answered
      PROVE  NoTopGrade
  BY <1>1, NoTopGradeDecided DEF Answered, NoTopGrade, DataError, Answer
<1> QED
  BY <1>1, PipelineAnswers, PTL

\* With the default weights a put is bought only where the market upside down
\* has a call bought, save for the levels on which equality counts as below:
\* whatever the market's numbers, the plan and the limits configured.
THEOREM PutsAreNoEasier ==
  ASSUME Weight = DefaultWeights
  PROVE  Spec => []PutsNoEasier
<1>1. ASSUME Answered
      PROVE  PutsNoEasier
  <2> SUFFICES ASSUME polled \notin {Idle, NoData}, response.decision = "PE_BUY",
                      ~OnLevel(polled)
               PROVE  Decide(Mirror(polled)).decision = "CE_BUY"
    BY DEF PutsNoEasier
  <2>1. polled \in Snapshots /\ response = Decide(polled)
    BY <1>1 DEF Answered
  <2> QED
    BY <2>1, MirrorBuysCalls
<1> QED
  BY <1>1, PipelineAnswers, PTL
=============================================================================
