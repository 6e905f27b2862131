\* A workflow run with two faults and a re-run, or a scan's poll with a second scan, under fair scheduling.
SPECIFICATION WaitsSpec
CONSTANTS
  Nothing = Nothing fn = fn testFn = testFn role = role testRole = testRole
  f1 = f1 f2 = f2
  Findings = {f1, f2}
  MaxScans = 2
  MaxTime = 4
  MaxAttempts = 2
  Settle = 2
  Lag = 1
CHECK_DEADLOCK FALSE
INVARIANT ReportsAreComplete
PROPERTIES
  RunsEnd
  ScanPollEnds
