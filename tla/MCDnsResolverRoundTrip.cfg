SPECIFICATION Spec
CONSTANTS
  d1 = d1
  d2 = d2
  None = None
  Domain = {d1, d2}
  IpSpace = 5
  StartIp = 1
  HostsFiles <- MCHostsFiles
INVARIANT RoundTrip
