CONSTANTS
  Engines = {"sqlite"}
  Unseen = FALSE
  MaxWrites = 2
SPECIFICATION Spec
PROPERTIES ManualModeHoldsWrites
