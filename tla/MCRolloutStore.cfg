\* Two uploads, two concurrent requests, an external caller of STAGING.
CONSTANTS
  u1 = u1  u2 = u2  q1 = q1  q2 = q2
  Updates <- MCUpdates
  Requests = {q1, q2}
  NoUpdate = NoUpdate
  ObservationWindow = 1
  RollbackWindow = 2
  StagingCaller = TRUE
  MaxVersion <- MCMaxVersion
  MaxTime = 6
SYMMETRY MCSymmetry
SPECIFICATION Spec
INVARIANTS TypeOK AtMostOneActive NoRingSkipped
PROPERTIES HistoryNeverRewritten WindowBetweenRings FreezeBlocksPromotion ImplementsLifecycle
CHECK_DEADLOCK FALSE
