SPECIFICATION Spec
CONSTANTS
  a1 = a1
  a2 = a2
  Assets <- MCAssets
  FirstCorpora <- MCFirstCorpora
  NoAsset = NoAsset
  Factory <- MCFactory
  MaxPasses = 2
  Budgets <- MCOne
PROPERTY HealthyOnlyWhenAllVerified
CHECK_DEADLOCK FALSE
