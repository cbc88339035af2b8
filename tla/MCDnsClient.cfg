SPECIFICATION FairSpec
CONSTANTS
  Query = {1, 2, 3, 4, 5}
  IdSpace = 3
  None = None
ACTION_CONSTRAINT StartInOrder
INVARIANTS OwnAnswer Reachable
PROPERTY CallReturns
