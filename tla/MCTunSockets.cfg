SPECIFICATION FairSpec
CONSTANTS
  Handle = {h1}
  TcpFlow = {t1}
  UdpEndpoint = {u1}
  RxCap = 1
  TxCap = 2
  RingCap = 2
  TunCap = 1
  MaxObjects = 2
  DeviceErrors = TRUE
  None = None
CHECK_DEADLOCK FALSE
INVARIANTS ObjectsHaveReference HandedOut NobodySleeps
PROPERTIES ReleasedSocketsEnd WindowUpdatesLeave
