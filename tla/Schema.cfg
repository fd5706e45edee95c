CONSTANTS
  Tables <- MCTables
  NoTable = NoTable
  MaxEpochs = 3
SPECIFICATION Spec
INVARIANTS WholeAndFresh PanelShowsProvider ShownIsItsOwn
