CONSTANTS
  m1 = m1
  m2 = m2
  d1 = d1
  d2 = d2
  g1 = g1
  g2 = g2
  s1 = s1
  s2 = s2
  Messages = {m1, m2}
  Devices = {d1}
  Revokers = {g1}
  Syncers = {s1}
  Limit = 1
  MaxTime = 2
  MaxCrashes = 1
SPECIFICATION FairSpec
PROPERTIES NewRowsArrive
