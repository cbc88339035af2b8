SPECIFICATION ClientFairSpec
CONSTANTS
  Getter = {g1, g2}
  Conn = {1, 2, 3, 4, 5}
  MaxIdle = 2
  None = None
  NumServers = 2
  NameOf <- MCNameOf
  Refusing <- MCRefusing
  MaxConnectErrors = 0
  ErrorCap = 1
  MaxSwitches = 2
  Filler = filler
ACTION_CONSTRAINT FirstFree
INVARIANTS OldServerDrainsFirst Bounded NoLostRefill Exclusive
PROPERTIES UsesPool RefusingServerLeft GetterReturns Refilled
