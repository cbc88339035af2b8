SPECIFICATION Spec
CONSTANTS
  Own <- MCOwn
  Contents <- MCContents
  MaxStarts = 1
  MaxEdits = 0
CHECK_DEADLOCK FALSE
INVARIANT DnsPutBack
