\* No row locks, deduplication on, refreshes of one kind: two clients press the same button.
\* Runs of one integration follow one another, and recovery spares live runs.
SPECIFICATION Spec
CONSTANTS
  i1 = i1
  i2 = i2
  w1 = w1
  w2 = w2
  c1 = c1
  c2 = c2
  Integrations = {i1}
  ServiceOf <- OwnService
  Workers = {w1, w2}
  Clients = {c1, c2}
  Scheduler = Scheduler
  None = None
  RequestKinds = {"integration"}
  Dedupe = TRUE
  Postgres = FALSE
  MaxJobs = 3
  MaxCrashes = 1
  Minute = 1
  ProviderTimeout = 1
  RunningTimeout = 3
  MinInterval = 0
  RunBound = 2
SYMMETRY WorkerClientSymmetry
INVARIANTS NoParallelFetch HonestHealth
PROPERTIES BalanceMonotone ImplementsQueue
