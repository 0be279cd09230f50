CONSTANTS
  r1 = r1
  r2 = r2
  u1 = u1
  u2 = u2
  c1 = c1
  Requests = {r1, r2}
  Users = {u1, u2}
  Channels = {c1}
  MaxSeq = 2
  SharedOffset <- SharedRowOfZero
SPECIFICATION Spec
INVARIANTS TypeOK OkMeansHidden EffectsInOrder
PROPERTIES OffsetNeverFalls ImplementsRegister
