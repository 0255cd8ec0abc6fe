\* PostgreSQL, deduplication off (the default), the scheduler and direct requests
\* whose interval is checked again at the run; a worker may die.
SPECIFICATION Spec
CONSTANTS
  i1 = i1
  i2 = i2
  w1 = w1
  w2 = w2
  c1 = c1
  c2 = c2
  Integrations = {i1}
  ServiceOf <- OwnService
  Workers = {w1, w2}
  Clients = {c1}
  Scheduler = Scheduler
  None = None
  RequestKinds = {"scheduler", "enforced"}
  Dedupe = FALSE
  Postgres = TRUE
  MaxJobs = 2
  MaxCrashes = 1
  Minute = 1
  ProviderTimeout = 1
  RunningTimeout = 1
  MinInterval = 1
  RunBound = 1
SYMMETRY WorkerSymmetry
INVARIANTS TypeOK OneRunner RunnerOwnsJob
PROPERTIES TerminalStable
