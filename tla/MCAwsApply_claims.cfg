\* Two plans of one stack, each applied in its own checkout.
SPECIFICATION Spec
CONSTANTS
  o1 = o1 o2 = o2 r1 = r1 r2 = r2
  Plans = {p1, p2}
  Operators = {o1, o2}
  Roots = {r1, r2}
  RootOf <- OwnCheckouts
  MaxPolls = 2
  MaxReadFailures = 2
  MaxIds = 2
  MaxRev = 3
CHECK_DEADLOCK FALSE
INVARIANTS
  AppliedIsAlwaysSeen
