---------------------- MODULE MCQueryExecutionService ----------------------
(***************************************************************************)
(* Instances of the query service for TLC.  Two callers, so that a cancel  *)
(* meets a submit, another cancel and every step of the worker; one SQLite *)
(* and one PostgreSQL connection.                                          *)
(***************************************************************************)
EXTENDS QueryExecutionService, TLC

CONSTANTS c1, c2, sqlite, postgres

MCCallers == {c1, c2}
MCDatabases == {sqlite, postgres}
MCSqlite == {sqlite}
NoQuery == {}
SecondQuery == {2}

CallerSymmetry == Permutations(MCCallers)
=============================================================================
