\* Requests of one organization and one provider that fails again and again.
SPECIFICATION ProvidersSpec
CONSTANTS
  r1 = r1
  r2 = r2
  w1 = w1
  k1 = k1
  k2 = k2
  o1 = o1
  x = x
  None = None
  Transports = {"rest", "ccxt", "chain"}
  MaxFunded = 2
  Organizations = {o1}
  Services = {x}
  Refreshes = {r1, r2}
  Sizes = {1, 2, 4}
  OpenAfter = 2
  OpenFor = 1
  SoftTtl = 0
  MaxNow = 1
  MaxChanges = 1
  MaxRequests = 4
  Keys = {k1, k2}
  Readers = {r1, r2}
  Refreshers = {w1}
  Nobody = Nobody
  MaxEntries = 1
  Ttl = 2
  MaxWrites = 1
  MaxCacheNow = 3
  Savers = {r1, r2}
  MaxTx = 2
  Callers = {r1, r2}
  Queries <- SomeQueries
  NoQuery = NoQuery
  Bucket = 2
  Parallelism = 1
  MaxTasks = 2
  MaxLimiters = 3
CHECK_DEADLOCK FALSE
PROPERTIES SeriesOpens
