CONSTANTS
  o1 = o1
  Operators = {o1}
  MAX_ATTEMPTS = 2
  MaxCommands = 2
  MaxRequests = 1
  MaxFaults = 1
SPECIFICATION FairSpec
INVARIANTS TypeOK BoundedAttempts ReportedIsRecorded
PROPERTIES ConcludedStays OfferConcludes
CHECK_DEADLOCK FALSE
