SPECIFICATION FairSpec
CONSTANTS
  FallbackDelay = 5
  Stability = 3
  StartupTimeout = 12
  RequestTimeout = 4
  OwnNames = {"expected", "unset", "other"}
  OtherNames = {"expected", "unset", "other"}
  None = None
CHECK_DEADLOCK FALSE
INVARIANTS MarkerMeansOurs StableBeforeReady WaitBounded ReadyIsOurs
PROPERTY WaitEnds
