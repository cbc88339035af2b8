SPECIFICATION FairSpec
CONSTANTS
  Scenarios <- MCScenarios
  MaxConns = 2
  Rules <- MCRules
  Sources = {1, 2}
  Payloads <- MCPayloads
  DirectBuf = 3
  ProxyBuf = 10
  Cipher = "aead"
  SaltSize = 1
  TagSize = 1
  ProbeTtl = 1
  Chunk = 2
  MaxTime = 1
CHECK_DEADLOCK FALSE
INVARIANTS BookKeeping CountsHonest EndPassesAllOn DatagramsFindTheirWay
PROPERTIES ProbeCurrent ProbesSerialized HandlersEnd
