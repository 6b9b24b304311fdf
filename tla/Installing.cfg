SPECIFICATION Spec
CONSTANTS
  Dirs = {"d1", "d2"}
  Scopes = {"User", "Local"}
  MaxFaults = 1
  MaxVersion = 3
  OldVersion = 1
  MaxCommands = 2
INVARIANTS RegisteredOrReported UpdateHonest KillLosesOne
PROPERTIES RemovedClean
