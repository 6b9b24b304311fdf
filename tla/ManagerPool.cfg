SPECIFICATION Spec
CONSTANTS
  Paths = {p1, p2, p3}
  Tasks = {t1, t2}
  Instances = {i1, i2, i3, i4, i5}
  Permits = {s1, s2}
  LockIds = {l1, l2, l3, l4, l5}
  MaxIdle = 1
  Asks <- AllAsks
  MaxVersion = 1
  None = None
VIEW UpToIdentity
SYMMETRY CallerSymmetry
INVARIANTS LeasesCounted IdleExact PermitsCover
PROPERTIES ActiveStays ImplementsPool
