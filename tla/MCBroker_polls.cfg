\* Two requests of two repositories sharing a channel, a click, a poll, resent events, an approver removed, one fault.
SPECIFICATION Spec
CONSTANTS
  r1 = r1 r2 = r2 c1 = c1 c2 = c2 c3 = c3 p1 = p1 p2 = p2 w1 = w1 w2 = w2
  t1 = t1 t2 = t2 t3 = t3 n1 = n1 n2 = n2 A = A B = B alice = alice bob = bob
  Nothing = Nothing
  Requests = {r1, r2}
  Clicks = {c1}
  Polls = {p1}
  Workers = {}
  Tokens = {t1, t2, t3}
  Runs = {n1, n2}
  Repos = {A, B}
  Users = {alice, bob}
  RunOf <- TwoRuns
  RepoOf <- TwoRepos
  InitialApprovers <- OneEach
  Timeouts = {1}
  MaxTime = 1
  MaxDeliveries = 1
  MaxFaults = 1
  MaxRemovals = 1
SYMMETRY Symmetry
INVARIANTS
  OneRequestPerToken
  DecisionsAreAuthorized
  PollAnswersStand
  NoPendingAnswerPastWindow
CHECK_DEADLOCK FALSE
