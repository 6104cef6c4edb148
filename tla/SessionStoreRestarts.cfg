SPECIFICATION FairSpec
CONSTANTS
  m1 = m1
  m2 = m2
  Messages <- MCMessages
  Root = m1
  w1 = w1
  w2 = w2
  Writers <- MCWriters
  Nothing = Nothing
  MaxFaults = 1
CHECK_DEADLOCK FALSE
INVARIANTS
  DirtyHasTimer
  RestoredIsIndexed
PROPERTIES
  SavedReachesDisk
