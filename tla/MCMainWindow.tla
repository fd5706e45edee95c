---------------------------- MODULE MCMainWindow ----------------------------
(***************************************************************************)
(* Instances of the window for TLC: a SQLite connection and a second one,  *)
(* made by reconnecting, that is PostgreSQL.                               *)
(***************************************************************************)
EXTENDS MainWindow

CONSTANTS sqlite, postgres

MCDatabases == {sqlite, postgres}
MCSqlite == {sqlite}
MCCallers == {ui}
NoQuery == {}
AllQueries == Ids
=============================================================================
