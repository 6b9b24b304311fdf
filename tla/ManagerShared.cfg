SPECIFICATION Spec
CONSTANTS
  Paths = {p1, p2}
  Tasks = {t1, t2, t3}
  Instances = {i1, i2, i3, i4, i5}
  Permits = {s1}
  LockIds = {l1, l2, l3, l4, l5}
  MaxIdle = 1
  Asks <- AllAsks
  MaxVersion = 1
  None = None
VIEW UpToIdentity
SYMMETRY CallerSymmetry
INVARIANTS TypeOK SpawnExclusive ContentFresh ProcessesBounded
