SPECIFICATION FairSpec
CONSTANTS
  Jobs = {j1, m1}
  MemoryJobs = {m1}
  Workers = {w1, w2}
  NoWorker = NoWorker
  MaxAttempts = 2
  BatchSize = 2
  MaxConcurrency = 1
  StaleTimeout = 1
  RetryDelay = 1
  AgeCap = 1
  FaultKinds = {"crash", "db", "redis", "poll", "expiry"}
  MaxFaults = 1
  MaxOverruns = 0
INVARIANTS TypeOK SingleActiveExecution ResultIffCompleted 
PROPERTIES ImplementsLifecycle EveryJobSettles
