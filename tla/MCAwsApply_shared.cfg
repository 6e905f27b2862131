\* Two runs in one checkout, two plans, other deployments of the stack.
SPECIFICATION Spec
CONSTANTS
  o1 = o1 o2 = o2 r1 = r1 r2 = r2
  Plans = {p1, p2}
  Operators = {o1, o2}
  Roots = {r1, r2}
  RootOf <- OneCheckout
  MaxPolls = 2
  MaxReadFailures = 2
  MaxIds = 1
  MaxRev = 2
CHECK_DEADLOCK FALSE
INVARIANTS
  AttemptedOnce
  TypedOnReviewedBase
  AppliedMeansExecuted
PROPERTIES
  AppliesEnd
