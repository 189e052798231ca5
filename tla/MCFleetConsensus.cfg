CONSTANTS
  i1 = i1  i2 = i2  s1 = s1
  Instances = {i1, i2}
  Operated = {i1}
  Screens = {s1}
  SPLIT_BRAIN_THRESHOLD = 0
  FailClosed = TRUE
  MaxLives = 2
  MaxWrites = 1
SPECIFICATION Spec
INVARIANTS TypeOK EpochsUnique HealthyMeansAnswered StrongFreezeDurable
CHECK_DEADLOCK FALSE
