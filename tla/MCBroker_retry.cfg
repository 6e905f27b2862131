\* A run retries notify after its first call stopped half way.
SPECIFICATION Spec
CONSTANTS
  r1 = r1 r2 = r2 c1 = c1 c2 = c2 c3 = c3 p1 = p1 p2 = p2 w1 = w1 w2 = w2
  t1 = t1 t2 = t2 t3 = t3 n1 = n1 n2 = n2 A = A B = B alice = alice bob = bob
  Nothing = Nothing
  Requests = {r1, r2}
  Clicks = {}
  Polls = {}
  Workers = {}
  Tokens = {t1, t2}
  Runs = {n1}
  Repos = {A}
  Users = {alice, bob}
  RunOf <- OneRun
  RepoOf <- OneRepo
  InitialApprovers <- BothApprove
  Timeouts = {1}
  MaxTime = 0
  MaxDeliveries = 2
  MaxFaults = 1
  MaxRemovals = 0
SYMMETRY Symmetry
INVARIANTS
  OneApprovableRequestPerRun
CHECK_DEADLOCK FALSE
