SPECIFICATION Spec
CONSTANTS
  Jobs = {j1}
  MemoryJobs = {}
  Workers = {w1, w2, w3}
  NoWorker = NoWorker
  MaxAttempts = 2
  BatchSize = 1
  MaxConcurrency = 1
  StaleTimeout = 2
  RetryDelay = 1
  AgeCap = 0
  FaultKinds = {"crash", "db", "redis", "poll", "expiry", "stop"}
  MaxFaults = 2
  MaxOverruns = 2
SYMMETRY Interchangeable
INVARIANTS OneExecutionPerAttempt CompletedHasResult AttemptsBounded AtMostOnceDelivery DeliveryDecided MessageHasResult
