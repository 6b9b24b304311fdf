CONSTANTS
  None = None
  TraceEnd = 3
  WalkDepth = 2
  MaxDepth = 3
  MaxRoots = 2
  AncestorDepth = 2
  MaxEvents = 3
SPECIFICATION Spec
INVARIANTS OverlapExact RenderWorkOnce DescendantsExact RelationTrue
PROPERTIES DrillDown
