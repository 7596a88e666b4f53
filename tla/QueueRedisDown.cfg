SPECIFICATION Spec
CONSTANTS
  Jobs = {j1}
  MemoryJobs = {}
  Workers = {w1}
  NoWorker = NoWorker
  MaxAttempts = 1
  BatchSize = 1
  MaxConcurrency = 1
  StaleTimeout = 2
  RetryDelay = 1
  AgeCap = 0
  FaultKinds = {"redis"}
  MaxFaults = 1
  MaxOverruns = 0
PROPERTY DeliveryKeepsCompletion
