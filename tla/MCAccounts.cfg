CONSTANTS
  u1 = u1
  n1 = n1
  n2 = n2
  e1 = e1
  e2 = e2
  gr = gr
  c1 = c1
  c2 = c2
  r1 = r1
  r2 = r2
  Users = {u1}
  Groups = {gr}
  UserNames = {n1, n2}
  GroupNames = {e1, e2}
  DefaultName = e1
  Nobody = Nobody
  Channels = {c1, c2}
  Counts = {0, 1}
  Requests = {r1, r2}
SPECIFICATION Spec
SYMMETRY Alike
INVARIANTS TypeOK OneNamePerUser OkMeansDone ChangesAnnounced
