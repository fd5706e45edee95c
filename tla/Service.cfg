CONSTANTS
  c1 = c1
  c2 = c2
  sqlite = sqlite
  postgres = postgres
  NoDatabase = NoDatabase
  Callers <- MCCallers
  Databases <- MCDatabases
  Sqlite <- MCSqlite
  Endless <- NoQuery
  MaxQueries = 2
  MaxStatements = 3
SPECIFICATION Spec
INVARIANTS RegistryCoversInFlight CancelStopsScript ShutdownAnswersAll
PROPERTIES ImplementsLedger
SYMMETRY CallerSymmetry
