CONSTANTS
  Sample = 2
  Sizes = {3, 7}
  Places = {1, 5, 7}
  MaxWrites = 2
  MaxClock = 2
  MaxLoads = 2
  StartingPort = 14
  MaxPort = 15
SPECIFICATION Spec
INVARIANTS FingerprintExact LoadNamesContent AgreesWhereCovered PortsExact
CHECK_DEADLOCK FALSE
