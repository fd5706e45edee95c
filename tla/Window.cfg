CONSTANTS
  ui = ui
  sqlite = sqlite
  postgres = postgres
  NoDatabase = NoDatabase
  Callers <- MCCallers
  Databases <- MCDatabases
  Sqlite <- MCSqlite
  Endless <- NoQuery
  MaxQueries = 2
  MaxStatements = 2
SPECIFICATION FairWindowSpec
INVARIANTS WindowTypeOK DisplayFollowsConnection GridFetchNeverWaits NoBystander
PROPERTIES ActiveQueryEnds
