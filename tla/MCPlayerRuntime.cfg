SPECIFICATION FairSpec
CONSTANTS
  a1 = a1
  a2 = a2
  Assets <- MCAssets
  FirstCorpora <- MCFirstCorpora
  NoAsset = NoAsset
  Factory <- MCFactory
  MaxPasses = 2
  Budgets <- MCBudgets
INVARIANTS
  TypeOK
  SnapshotKept
  RegisteredIsWhole
  NoneForgotten
PROPERTIES
  Converges
CHECK_DEADLOCK FALSE
