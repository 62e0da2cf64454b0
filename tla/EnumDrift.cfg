SPECIFICATION Spec
CHECK_DEADLOCK FALSE
CONSTANTS
  Values <- MCValues
  Schemas <- MCSchemas
  Trees <- MCTrees
  MaxRuns = 2
  MaxEdits = 1
INVARIANTS
  AgreementIsReal
  DriftIsReal
PROPERTY MovedSpecificationIsSeen
