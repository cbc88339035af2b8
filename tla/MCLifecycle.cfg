SPECIFICATION FairSpec
CONSTANTS
  Own <- MCOwn
  Contents <- MCContents
  MaxStarts = 3
  MaxEdits = 1
CHECK_DEADLOCK FALSE
INVARIANTS OwnSettings PutBack
PROPERTIES SignalEnds
