SPECIFICATION Spec
CONSTANTS
  Updates <- MCUpdates
  Mail <- MCMail
  Handlers = {h1, h2}
  SessionIds <- MCSessions
  MaxDeliveries = 1
  MaxFaults = 0
  MaxAged = 0
CHECK_DEADLOCK FALSE
INVARIANTS OneActiveSession
