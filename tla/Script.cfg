CONSTANTS
  MaxStatements = 4
  MaxRows = 2
  MaxPages = 2
  Kinds <- AllKinds
  MaxTexts = 3
  MaxReads = 2
SPECIFICATION SessionSpec
INVARIANTS ExecutedInOrder AffectedRowsCovered
INVARIANTS FailureLeavesNothing SuccessDidAll
PROPERTIES ImplementsExecutionLedger
