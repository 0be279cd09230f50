CONSTANTS
  u1 = u1
  u2 = u2
  g1 = g1
  Users = {u1, u2}
  Readers = {u1}
  LastSeq = 2
  Visibles <- SecondIsListed
  ExpireAt <- FirstExpires
  Erased = {1, 2}
  Viewers = {g1}
  MaxTime = 1
SPECIFICATION Spec
INVARIANTS TypeOK HiddenStaysHidden HiddenForACause
