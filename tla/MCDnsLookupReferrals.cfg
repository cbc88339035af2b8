SPECIFICATION FairSpec
CONSTANTS
  Requests = {1}
  Questions <- MCQuestions
  Strategies = {"Recursive"}
  Forwarder = 8
  Hints <- MCHints
  Names <- MCNames
  Addresses = {1, 2, 3, 4, 5, 6, 8}
  LabelEnds <- MCLabelEnds
  Upstream <- MCUpstream
  Zones <- MCZones
  MaxTime = 0
CHECK_DEADLOCK FALSE
PROPERTY EveryRequestAnswered
