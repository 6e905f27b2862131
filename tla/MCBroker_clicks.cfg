\* One request, two racing clicks by two approvers, one fault; fair scheduling.
SPECIFICATION FairSpec
CONSTANTS
  r1 = r1 r2 = r2 c1 = c1 c2 = c2 c3 = c3 p1 = p1 p2 = p2 w1 = w1 w2 = w2
  t1 = t1 t2 = t2 t3 = t3 n1 = n1 n2 = n2 A = A B = B alice = alice bob = bob
  Nothing = Nothing
  Requests = {r1}
  Clicks = {c1, c2}
  Polls = {}
  Workers = {w1}
  Tokens = {t1}
  Runs = {n1}
  Repos = {A}
  Users = {alice, bob}
  RunOf <- OneRun
  RepoOf <- OneRepo
  InitialApprovers <- BothApprove
  Timeouts = {1}
  MaxTime = 1
  MaxDeliveries = 2
  MaxFaults = 1
  MaxRemovals = 0
INVARIANTS
  DocumentMirrorsAttributes
  AuditStatesDecision
  WithdrawnLeavesNoTrace
  ProcessingHasItsClick
PROPERTIES
  DecisionsStand
  LifecycleSpec
  ClaimsSettle
  DecisionsAreAudited
CHECK_DEADLOCK FALSE
