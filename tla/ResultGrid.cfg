CONSTANTS
  PageSize = 2
  MaxCached = 3
  MaxVisible = 3
  Tables <- MCTables
  Results <- MCResults
  Edits <- MCEdits
  MaxRows = 8
  MaxResults = 2
  MaxTouches = 10
  SortSpecs = {"ascending", "descending"}
  NoSort = "none"
SPECIFICATION Spec
INVARIANTS TypeOK PagesOfDisplay ReturnedRowIsCached RedrawFetchesNothing OrderIsArrowOrNone PagesAreOneArrangement
