SPECIFICATION FairSpec
CONSTANTS
  Updates <- MCUpdates
  Mail <- MCMail
  Handlers = {h1, h2}
  SessionIds <- MCSessions
  MaxDeliveries = 2
  MaxFaults = 1
  MaxAged = 1
CHECK_DEADLOCK FALSE
INVARIANTS IntakeWhole AckedIsStored UnstoredRepliesNeedFaults DuplicatesNeedFaults OneActiveUnlessRaced DreamWithItsTurns
PROPERTIES ClosedOnlyWhenStale EveryUpdateSettles
