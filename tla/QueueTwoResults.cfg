SPECIFICATION Spec
CONSTANTS
  Jobs = {j1}
  MemoryJobs = {}
  Workers = {w1, w2}
  NoWorker = NoWorker
  MaxAttempts = 2
  BatchSize = 1
  MaxConcurrency = 1
  StaleTimeout = 2
  RetryDelay = 1
  AgeCap = 0
  FaultKinds = {}
  MaxFaults = 0
  MaxOverruns = 1
INVARIANT AtMostOneResult
