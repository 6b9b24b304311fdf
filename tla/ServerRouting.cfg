SPECIFICATION Spec
CONSTANTS
  n1 = n1
  n2 = n2
  f1 = f1
  f2 = f2
  Names = {n1, n2}
  Files = {f1, f2}
  Loads = {load1}
  Queries = {query1}
  Structures = {table1}
  Slots = {s1}
  MaxVersion = 1
  MaxRetargets = 2
  Link <- OwnFile
  Batches <- Pairs
  None = None
CHECK_DEADLOCK FALSE
INVARIANTS ReadsSelected
PROPERTIES SchemaExact BatchAtomic
