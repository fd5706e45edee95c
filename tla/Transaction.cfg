CONSTANTS
  Engines = {"sqlite", "postgres"}
  Unseen = TRUE
  MaxWrites = 3
SPECIFICATION Spec
PROPERTIES ButtonsStayInSync SuccessResyncs WritesWaitForCommit
