CONSTANTS
  MaxStatements = 2
  MaxRows = 1
  MaxPages = 2
  Kinds <- AllKinds
SPECIFICATION Spec
INVARIANTS RunAllRunsAll
