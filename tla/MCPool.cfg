CONSTANTS
  j1 = j1
  j2 = j2
  j3 = j3
  p1 = p1
  p2 = p2
  w1 = w1
  w2 = w2
  w3 = w3
  Jobs = {j1, j2, j3}
  NilJobs = {j3}
  Pools = {p1, p2}
  Workers = {w1, w2, w3}
  Roster <- TwoAndOne
SPECIFICATION FairSpec
INVARIANTS TypeOK JobsKeepOrder TakenByOne ExecutingBalanced
PROPERTIES EveryJobRuns
CHECK_DEADLOCK FALSE
