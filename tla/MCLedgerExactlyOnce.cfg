CONSTANTS
  i1 = i1  i2 = i2
  Instances = {i1, i2}
  NoInstance = NoInstance
  MAX_LEDGER_ENTRIES = 2
  MaxAppends = 3
  MaxFaults = 1
SPECIFICATION Spec

INVARIANTS AnsweredIsRecorded
CHECK_DEADLOCK FALSE
