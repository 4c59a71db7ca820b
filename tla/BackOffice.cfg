SPECIFICATION MCSpec
CONSTANTS
  w1 = w1
  w2 = w2
  s1 = s1
  x1 = x1
  Workers = {w1, w2}
  Sessions = {s1}
  Texts = {x1}
  Enabled = {"retention", "eviction"}
  Retention = 1
  MaxCaptions = 3
  MaxFaults = 2
  MaxHours = 2
  q1 = q1
  q2 = q2
  a1 = a1
  a2 = a2
  o1 = o1
  Users = {a1, a2, o1}
  Requests = {q1, q2}
  Budgets = {1, 2}
  AccessTTL = 1
  RefreshTTL = 2
  MaxOps = 3
  MaxClock = 2
CHECK_DEADLOCK FALSE
INVARIANTS
  BackOfficeTypeOK
  CaptionsKept
  ServedAudioFresh
  AdministrationSound
  RevokedAtCheck
PROPERTY
  ExpiredGone
