SPECIFICATION Spec
CONSTANTS
  FallbackDelay = 5
  Stability = 3
  StartupTimeout = 12
  RequestTimeout = 4
  OwnNames = {"expected"}
  OtherNames = {"expected"}
  None = None
CHECK_DEADLOCK FALSE
INVARIANT BindFailureAborts
