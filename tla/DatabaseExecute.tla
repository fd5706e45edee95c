-------------------------- MODULE DatabaseExecute --------------------------
(***************************************************************************)
(* Database::execute as its callers see it: DatabaseFactory takes one of   *)
(* the two engines by the kind of the connection, and the window does not  *)
(* know which.  Both keep the promise of ExecutionLedger, each with the    *)
(* exceptions its own module states.                                       *)
(***************************************************************************)
EXTENDS SqliteScript, PostgresScript

VARIABLE engine  \* config.kind of the open connection

session == <<engine, vars, pgVars>>

\* The other engine's object does not exist.
NoSqlite == Init /\ script = <<>> /\ changes = 0
NoPostgres == PgInit /\ text = <<>> /\ ~explain /\ ~remark

CreateSession == \/ engine = "sqlite" /\ Init /\ NoPostgres
                 \/ engine = "postgres" /\ PgInit /\ NoSqlite

SqliteExecute == engine = "sqlite" /\ Next /\ UNCHANGED <<engine, pgVars>>

PostgresExecute == engine = "postgres" /\ PgNext /\ UNCHANGED <<engine, vars>>

SessionNext == SqliteExecute \/ PostgresExecute

SessionSpec == CreateSession /\ [][SessionNext]_session
-----------------------------------------------------------------------------
(***************************************************************************)
(* Whichever engine is behind it, execute() runs each statement at most    *)
(* once before it answers, and answers once; afterwards nothing runs but   *)
(* the query whose rows are shown, for their pages, and that query is no   *)
(* write.  A SELECT that calls a function that writes counts as a query.   *)
(* A program that ends in execute() never answers.                         *)
(***************************************************************************)
Reported == IF answer = "crashed" THEN "none" ELSE answer
Of(sqlite, postgres) == IF engine = "sqlite" THEN sqlite ELSE postgres
Promise == INSTANCE ExecutionLedger
             WITH statements <- Of(script, text),
                  answer <- Of(outcome, Reported),
                  effects <- Of(done, effects),
                  Rereadable <- {"select", "calls"}
ImplementsExecutionLedger == Promise!Spec
=============================================================================
