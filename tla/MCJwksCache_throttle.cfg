\* Two callers; a fetch takes at most one unit, the throttle two, the ttl five.
SPECIFICATION Spec
CONSTANTS
  old = old new = new invented = invented
  Kids = {old, new, invented}
  Callers = {a, b}
  From <- PublishedFrom
  Until <- PublishedUntil
  Ttl = 5
  MinRefreshInterval = 2
  FetchTimeout = 1
  MaxTime = 12
CHECK_DEADLOCK FALSE
PROPERTIES
  UnknownKidsAreThrottled
