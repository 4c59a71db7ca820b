SPECIFICATION FairSpec
CONSTANTS
  k1 = k1
  k2 = k2
  k3 = k3
  c1 = c1
  c2 = c2
  ip1 = ip1
  ip2 = ip2
  NoOne = NoOne
  Clients = {k1, k2}
  IPs = {ip1, ip2}
  Address <- TwoPages
  NotEnabled = {}
  Conns = {c1, c2}
  MaxPerIP = 1
  MaxPerSession = 1
  ScrollbackLimit = 1
  Faults = {"redis", "net"}
  MaxCaptions = 1
CHECK_DEADLOCK FALSE
PROPERTIES
  KillCloses
  GoneReleases
