SPECIFICATION FairSpec
CONSTANTS
  Jobs = {j1, j2, m1}
  MemoryJobs = {m1}
  Workers = {w1}
  NoWorker = NoWorker
  MaxAttempts = 1
  BatchSize = 3
  MaxConcurrency = 2
  StaleTimeout = 1
  RetryDelay = 1
  AgeCap = 1
  FaultKinds = {"stop", "poll"}
  MaxFaults = 2
  MaxOverruns = 0
INVARIANTS NothingLeftRunning
PROPERTIES ShutdownCompletes EveryJobSettles
