SPECIFICATION Spec
CONSTANTS
  Headers <- MCHeaders
  Questions <- MCQuestions
  Records <- MCAllRecords
  MaxRecords = 2
  Limits = {35, 48, 60, 512}
  BufSize = 100
CHECK_DEADLOCK FALSE
INVARIANTS RoundTrip CutAtLimit
