SPECIFICATION Spec
CONSTANTS
  Analyses = {a1, a2, a3, a4}
  Manual = {}
  NoAnalysis = NoAnalysis
  Modes = {"auto", "new"}
  MaxInFlight = 2
SYMMETRY Interchangeable
CHECK_DEADLOCK FALSE
INVARIANTS OneActiveThread LatestIsLast ConflictsNeedRivals IndexFollowsEarlier
PROPERTIES FailureLeavesThreads
