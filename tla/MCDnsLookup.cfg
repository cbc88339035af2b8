SPECIFICATION FairSpec
CONSTANTS
  Requests = {1, 2}
  Questions <- MCQuestions
  Strategies = {"Forward", "Recursive"}
  Forwarder = 8
  Hints <- MCHints
  Names <- MCNames
  Addresses = {1, 2, 3, 4, 5, 6, 8}
  LabelEnds <- MCLabelEnds
  Upstream <- MCUpstream
  Zones <- MCZones
  MaxTime = 1
CHECK_DEADLOCK FALSE
INVARIANTS AnswersCurrent AsksAuthoritative
PROPERTIES AsksWhatIsUnknown OnlyReferralsGoOn
