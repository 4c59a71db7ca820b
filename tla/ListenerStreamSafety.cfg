SPECIFICATION Spec
CONSTANTS
  k1 = k1
  k2 = k2
  k3 = k3
  c1 = c1
  c2 = c2
  ip1 = ip1
  ip2 = ip2
  NoOne = NoOne
  Clients = {k1, k2, k3}
  IPs = {ip1, ip2}
  Address <- ThreePages
  NotEnabled = {k3}
  Conns = {c1, c2}
  MaxPerIP = 1
  MaxPerSession = 1
  ScrollbackLimit = 1
  Faults = {"db", "redis", "net"}
  MaxCaptions = 3
CHECK_DEADLOCK FALSE
SYMMETRY ConnSymmetry
INVARIANTS
  TypeOK
  SlotsCounted
  CapsHold
  GaugeCountsOpen
  HeardOnceInOrder
  DueIsDelivered
