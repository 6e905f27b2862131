CONSTANTS
  FrameworkRef = "v1"
  ActionsApp = "actions"
  Commands = {c1, c2}
  Clones = {k1}
  Repositories <- MCRepositories
  OthersSettings <- MCOthersSettings
  Checkouts <- MCCheckouts
  MaxEdits = 1
  MaxHubFaults = 1
  Scopes <- MCScopes
  Histories <- MCHistories
  Partials <- MCPartials
  MaxCommits = 2
  MaxRuns = 1
  MaxTroubles = 1
  Planners = {p1, p2}
  Trees = {t1}
  Clouds <- MCClouds
  Configs <- MCConfigs
  MaxDescribes = 2
  MaxSets = 2
  MaxMishaps = 1
SPECIFICATION OnboardingSpec
INVARIANTS
  ChangedOnceAsReviewed
  ValidatedIsSound
  RecordedPlanIsReal
PROPERTIES
  GovernanceIsReal
  BaselineIsReviewed
  EditsSurvive
  PlannedOverOwned
SYMMETRY RunSymmetry
CHECK_DEADLOCK FALSE
