CONSTANTS
  Environments <- MCEnvironments
  SdkTries = 2
  MaxLost = 2
SPECIFICATION FairSpec
INVARIANTS
  TestModeIsOffline
  ProductionIsReal
  RequestsBounded
  RefusalIsFinal
PROPERTIES
  EveryCallEnds
CHECK_DEADLOCK FALSE
