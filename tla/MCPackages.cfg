CONSTANTS
  g1 = g1
  g2 = g2
  t1 = t1
  t2 = t2
  c1 = c1
  c2 = c2
  c3 = c3
  c4 = c4
  c5 = c5
  c6 = c6
  r1 = r1
  r2 = r2
  admin = admin
  user = user
  none = none
  ExpBits = 5
  DivisionPrecision = 2
  MantBits = 10
  MaxValue = 150
  Exps <- MCExps
  Places <- MCPlaces
  Operands <- MCOperands
  Floats <- MCFloats
  Goroutines = {g1, g2}
  Nobody = none
  ByteBits = 2
  LowBits = 1
  HighBits = 1
  Starts = {5, 14}
  MaxTime = 2
  MaxBumps = 4
  Ids = {1, 2}
  Chans = {c1, c2, c3}
  Registrants = {g1, g2}
  Triggers = {t1, t2}
  NoChan = none
  Requests = {r1, r2}
  Contexts = {c1, c2, c3, c4, c5, c6}
  Nothing = none
  Tokens = {admin, user}
  NoToken = none
  Entries <- MCEntries
  Resting = none
SPECIFICATION Spec
INVARIANTS TypeOK RoundedIsNearest CashAndPowers WrittenIsRead NoEarlyRepeat AnsweredOnce RequestsApart
PROPERTIES ImplementsOneShot
CHECK_DEADLOCK FALSE
