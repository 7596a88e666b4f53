SPECIFICATION FairSpec
CONSTANTS
  Analyses = {a1, a2, m1}
  Manual = {m1}
  NoAnalysis = NoAnalysis
  Modes = {"auto"}
  MaxInFlight = 3
CHECK_DEADLOCK FALSE
PROPERTIES EveryAnalysisEnds
