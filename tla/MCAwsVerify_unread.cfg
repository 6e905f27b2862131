\* aws doctor and verify in the account that was just deployed, with at most one call
\* unanswered.
SPECIFICATION AwsVerifySpec
CONSTANTS
  Worlds <- OnlyDeployed
  Fresh <- Deployed
  Managed <- ManagedChoices
  MaxMishaps = 1
INVARIANT UncertaintyIsNeverPass
CHECK_DEADLOCK FALSE
