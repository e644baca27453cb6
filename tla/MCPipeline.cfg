CONSTANTS
  NoChain = NoChain
  None = None
  NoData = NoData
  Idle = Idle
  VwapSides <- MCVwapSides
  Gaps <- MCGaps
  Opens <- MCOpens
  Rsis = {15, 25, 85}
  Macds <- MCMacds
  Volumes = {80, 110, 140}
  Adxs = {20, 40}
  Atrs = {20, 40}
  Liquidities <- MCLiquidities
  EdgeSets <- MCEdgeSets
  FrameSets <- MCFrames
  Chains <- MCChains
  VetoSets <- MCVetoSets
  Weight <- DefaultWeights
  MinCoverage = 70
  MaxDisagreement = 4500
  MinRiskReward = 150
SPECIFICATION Spec
INVARIANTS
  GradeMatchesDecision
  BuyGoesWithTrend
  NoTopGrade
  PutsNoEasier
