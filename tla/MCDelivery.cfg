CONSTANTS
  Checkouts <- MCCheckouts
  MaxPulls = 3
  ScanMaxFaults = 1
  Releases = {"one", "other"}
  Deliveries <- MCDel
  OtherImage <- MCOtherImage
  Unset = Unset
  MaxPolls = 2
  ReleaseMaxFaults = 2
SPECIFICATION DeliverySpec
INVARIANTS
  GreenMeansScanned
  BlameIsDeserved
  DeployedIsGated
  SuccessMeansRunning
  ConformanceIsHonest
CHECK_DEADLOCK FALSE
