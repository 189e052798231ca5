CONSTANTS
  i1 = i1
  t1 = t1
  t2 = t2
  Jobs = {1, 2, 3}
  Tenants = {t1, t2}
  TenantOf <- VenueOf
  Instances = {i1}
  Overlap = 2
  Limit = 2
  MaxDeletes = 1
  MaxFaults = 1
SPECIFICATION FairSpec
INVARIANTS TypeOK PostsBounded
PROPERTIES Concluded
CHECK_DEADLOCK FALSE
