\* Both routes, every broker configuration, any toolkit, the modes nobody enforces, one fault, one re-run.
SPECIFICATION Spec
CONSTANTS
  Nothing = Nothing fn = fn testFn = testFn role = role testRole = testRole
  Setups <- AllSetups
  Blocks <- MixedBlocks
  Markings <- AnyMarks
  ScanResults = {"success", "cancelled"}
  Timeout = 1
  MinWindow = 1
  MaxWindow = 3
  Interval = 1
  MaxAttempts = 2
  MaxFaults = 1
PROPERTIES
  EvaluatedGateIsAskedFor
  LifecycleSpec
INVARIANTS
  GreenIsDeserved
  CredentialsAreGuarded
CHECK_DEADLOCK FALSE
