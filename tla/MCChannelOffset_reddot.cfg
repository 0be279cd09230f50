CONSTANTS
  r1 = r1
  r2 = r2
  u1 = u1
  u2 = u2
  c1 = c1
  Requests = {r1}
  Users = {u1}
  Channels = {c1}
  MaxSeq = 2
  SharedOffset <- NoSharedRow
SPECIFICATION Spec
INVARIANTS OkMeansRedDotCleared
