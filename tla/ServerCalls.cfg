SPECIFICATION FairSpec
CONSTANTS
  n1 = n1
  n2 = n2
  f1 = f1
  f2 = f2
  Names = {n1, n2}
  Files = {f1, f2}
  Loads = {load1, load2}
  Queries = {query1}
  Structures = {}
  Slots = {s1}
  MaxVersion = 0
  MaxRetargets = 0
  Link <- OwnFile
  Batches <- Crossed
  None = None
CHECK_DEADLOCK FALSE
PROPERTY CallsEnd
