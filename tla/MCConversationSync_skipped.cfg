CONSTANTS
  d1 = d1
  d2 = d2
  c1 = c1
  c2 = c2
  g1 = g1
  g2 = g2
  none = none
  Devices = {d1}
  NoDevice = none
  Convs = {c1}
  Routines = {g1, g2}
  SaveAcrossDevice = FALSE
  MaxVersion = 2
  MaxCrashes = 0
SPECIFICATION Spec
INVARIANTS SkippedWasReceived
