CONSTANTS
  r1 = r1  r2 = r2  c1 = c1  c2 = c2
  Requests = {r1, r2}
  Contents = {c1, c2}
  NoContent = NoContent
  NoRequest = NoRequest
  PoolSize = 2
  MaxEdits = 2
  MaxFaults = 1
SPECIFICATION FairSpec
INVARIANTS TypeOK LockedRowKept GenerationCoversVersion BustsWork
PROPERTIES Converges RequestsAnswered
