\* Two callers, a fetch of at most one unit, the throttle two, the ttl five; and three
\* presentations of two tokens, clocks one unit off, pauses of one unit; and aws doctor and
\* verify in the deployed account and those that differ from it in one thing, with at most
\* one call unanswered or one change of the account.
SPECIFICATION IdentitySpec
CONSTANTS
  old = old new = new invented = invented
  Kids = {old, new, invented}
  Callers = {a, b}
  From <- PublishedFrom
  Until <- PublishedUntil
  Ttl = 5
  MinRefreshInterval = 2
  FetchTimeout = 1
  MaxTime = 12
  t1 = t1 t2 = t2 i1 = i1 i2 = i2 i3 = i3
  Tokens = {t1, t2}
  Invocations = {i1, i2, i3}
  Issued <- IssuedAt
  Expires <- ExpiresAt
  MaxAge = 3
  Skew = 1
  Grace = 2
  MaxLag = 1
  MaxPause = 1
  LastTime = 9
  Worlds <- Accounts
  Fresh <- Deployed
  Managed <- ManagedChoices
  MaxMishaps = 1
INVARIANTS
  WithdrawnKeysDie
  AcceptedOnce
  ReadinessIsReal
PROPERTIES
  RotatedKeysAreFound
  FetchesAreSpaced
CHECK_DEADLOCK FALSE
