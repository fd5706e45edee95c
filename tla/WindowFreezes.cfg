CONSTANTS
  ui = ui
  sqlite = sqlite
  postgres = postgres
  NoDatabase = NoDatabase
  Callers <- MCCallers
  Databases <- MCDatabases
  Sqlite <- MCSqlite
  Endless <- AllQueries
  MaxQueries = 2
  MaxStatements = 2
SPECIFICATION FairWindowSpec
PROPERTIES FramesGoOn
CHECK_DEADLOCK FALSE
