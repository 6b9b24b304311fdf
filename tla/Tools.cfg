CONSTANTS
  None = None
  MaxRows = 3
  DefaultRows = 2
  SummaryRows = 1
  MaxTraceRows = 5
  MaxFaults = 1
SPECIFICATION Spec
INVARIANTS AnswersExact OwnSqlWorks PagesCover AdviceFits
