CONSTANTS
  c1 = c1
  c2 = c2
  sqlite = sqlite
  postgres = postgres
  NoDatabase = NoDatabase
  Callers = {c1}
  Databases <- MCDatabases
  Sqlite <- MCSqlite
  Endless <- SecondQuery
  MaxQueries = 3
  MaxStatements = 2
SPECIFICATION FairSpec
PROPERTIES EveryQueryEnds ShutdownEnds CancelReturns IdleShutdownIsClean CancelEndsRunningQuery
CHECK_DEADLOCK FALSE
