CONSTANTS
  e1 = e1
  e2 = e2
  e3 = e3
  e4 = e4
  Edits = {e1, e2, e3, e4}
  Seed = Seed
SPECIFICATION FairSpec
INVARIANTS
  NewestIsActive
PROPERTIES
  SupersedesWhatItRead
  ImplementsHistory
  EveryEditEnds
CHECK_DEADLOCK FALSE
