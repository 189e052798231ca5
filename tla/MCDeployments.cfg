CONSTANTS
  g1 = g1
  g2 = g2
  g3 = g3
  v1 = v1
  v2 = v2
  Groups = {g1, g2, g3}
  Versions = {v1, v2}
  NoVersion = NoVersion
  Requests = {q1, q2}
  CanaryLimit = 1
  RollbackLimit = 1
  HealthTable = TRUE
  OldRows = 6
  History <- MCHistory
  MaxRows = 3
  MaxEvents = 1

SPECIFICATION Spec

INVARIANTS
  TypeOK
  LadderClimbed
  CanaryLimitHolds
  RollbackLimitHolds
  FreezeHolds

PROPERTIES
  AtomicWhenUndisturbed

SYMMETRY Symmetry

