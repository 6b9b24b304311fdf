SPECIFICATION FairSpec
CONSTANTS
  Servers = {s1, s2}
  MaxRetries = 2
  PersistAttempts = 5
PROPERTIES SealedStays DamageCaught LeavesAgreement CallsEnd
