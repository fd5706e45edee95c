------------------------ MODULE TransactionControl ------------------------
(***************************************************************************)
(* The transaction buttons over one open connection: set_autocommit,       *)
(* begin_transaction, commit and rollback of SQLiteDatabase and of         *)
(* PostgresDatabase, which differ only in the text of BEGIN, and execute() *)
(* as far as it changes the engine's transaction.                          *)
(*                                                                         *)
(* The class keeps two flags and believes them; the transaction itself is  *)
(* the engine's.  Every operation holds the connection mutex from its      *)
(* first test to its return, so each is one step here; a script of several *)
(* statements is as many execute steps, because none of the flags is read  *)
(* or written between them.                                                *)
(***************************************************************************)
EXTENDS Naturals

CONSTANTS
  Engines,       \* which of "sqlite" and "postgres"
  Unseen,        \* may a transaction end behind the flags: by a typed COMMIT
                 \* or ROLLBACK, or because the engine rolls it back?
  MaxWrites      \* bound on the writes submitted

ASSUME TransactionAssumption == /\ Engines \subseteq {"sqlite", "postgres"}
                                /\ Unseen \in BOOLEAN
                                /\ MaxWrites \in Nat

Writes == 1..MaxWrites

VARIABLES
  database,            \* the class of the connection: one of Engines
  open,                \* handle # nullptr
  autocommit_enabled,  \* ConnectionState's flag
  in_transaction,      \* ConnectionState's flag
  engine,              \* the engine: see EngineStates
  fate,                \* fate[w]: what became of write w
  last                 \* the last step and its result: see Results

flags == <<autocommit_enabled, in_transaction>>
vars == <<database, open, flags, engine, fate, last>>

\* "aborted": PostgreSQL refuses all but the end; "lost": the server is gone.
EngineStates == {"idle", "active", "aborted", "lost"}
Fates == {"none", "pending", "durable", "undone"}
Steps == {"open", "autocommit on", "autocommit off", "begin", "commit", "rollback",
          "write", "control", "lose", "close"}

\* "ended": a commit or rollback that failed only in the BEGIN after it.
Results == {"ok", "failed", "ended"}

\* open(), with the configuration the program always uses: autocommit.
Init == /\ database \in Engines
        /\ open = TRUE
        /\ autocommit_enabled = TRUE
        /\ in_transaction = FALSE
        /\ engine = "idle"
        /\ fate = [w \in Writes |-> "none"]
        /\ last = [op |-> "open", result |-> "ok"]

Result(success) == IF success THEN "ok" ELSE "failed"
Returns(step, result) == last' = [op |-> step, result |-> result]

-----------------------------------------------------------------------------
(***************************************************************************)
(* The engines, external.  Outcomes(s, e) is what statement s may come to  *)
(* in engine state e: its success, the state it leaves, and what the       *)
(* pending writes become.  SQLite: BEGIN IMMEDIATE and COMMIT may find the *)
(* file locked by another connection, and a COMMIT that fails on the disk  *)
(* rolls back; there is no nesting.  PostgreSQL: BEGIN in a transaction    *)
(* and COMMIT outside one are warnings, a COMMIT that fails rolls back,    *)
(* and COMMIT of an aborted transaction succeeds and rolls back.           *)
(***************************************************************************)
Outcome(success, state, pending) == [ok |-> success, engine |-> state, pending |-> pending]
Refused(e) == {Outcome(FALSE, e, "pending")}

\* A COMMIT that fails and takes the transaction with it.
RolledBack == IF Unseen THEN {Outcome(FALSE, "idle", "undone")} ELSE {}

SqliteOutcomes(s, e) ==
  CASE s = "BEGIN" /\ e = "idle"      -> {Outcome(TRUE, "active", "pending")} \cup Refused(e)
    [] s = "COMMIT" /\ e = "active"   -> {Outcome(TRUE, "idle", "durable")}
                                         \cup RolledBack \cup Refused(e)
    [] s = "ROLLBACK" /\ e = "active" -> {Outcome(TRUE, "idle", "undone")}
    [] OTHER                          -> Refused(e)

PostgresOutcomes(s, e) ==
  CASE e = "lost"                       -> Refused(e)
    [] s = "BEGIN" /\ e # "aborted"     -> {Outcome(TRUE, "active", "pending")}
    [] s = "BEGIN" /\ e = "aborted"     -> Refused(e)
    [] s = "COMMIT" /\ e = "active"     -> {Outcome(TRUE, "idle", "durable")} \cup RolledBack
    [] OTHER                            -> {Outcome(TRUE, "idle", "undone")}

Outcomes(s, e) == IF database = "sqlite" THEN SqliteOutcomes(s, e) ELSE PostgresOutcomes(s, e)

\* What the pending writes become.
Settle(pending) == fate' = [w \in Writes |-> IF fate[w] = "pending" THEN pending ELSE fate[w]]

-----------------------------------------------------------------------------
\* The buttons.  execute_no_result reports whether the statement succeeded.

\* begin_transaction, and set_autocommit(false) once it has tested the flag.
BeginWith(out, step) ==
  /\ in_transaction' = (in_transaction \/ out.ok)
  /\ engine' = out.engine
  /\ UNCHANGED fate
  /\ Returns(step, Result(out.ok))

Begin ==
  /\ open
  /\ IF in_transaction
     THEN UNCHANGED <<in_transaction, engine, fate>> /\ Returns("begin", "ok")
     ELSE \E out \in Outcomes("BEGIN", engine) : BeginWith(out, "begin")
  /\ UNCHANGED <<open, autocommit_enabled>>

\* Mutant: the toggle leaves the BEGIN to the next statement.
AutocommitOffQuietly ==
  /\ open
  /\ autocommit_enabled
  /\ autocommit_enabled' = FALSE
  /\ in_transaction' = TRUE
  /\ Returns("autocommit off", "ok")
  /\ UNCHANGED <<open, engine, fate>>

(***************************************************************************)
(* set_autocommit; called with the value it has, it returns at once.  The  *)
(* toggle begins even when BEGIN was pressed before; SQLite refuses that.  *)
(***************************************************************************)
AutocommitOff ==
  /\ open
  /\ autocommit_enabled
  /\ \E out \in Outcomes("BEGIN", engine) :
       /\ BeginWith(out, "autocommit off")
       /\ autocommit_enabled' = ~out.ok
  /\ UNCHANGED open

AutocommitOn ==
  /\ open
  /\ ~autocommit_enabled
  /\ IF in_transaction
     THEN \E out \in Outcomes("COMMIT", engine) :
            /\ in_transaction' = ~out.ok
            /\ autocommit_enabled' = out.ok
            /\ engine' = out.engine
            /\ Settle(out.pending)
            /\ Returns("autocommit on", Result(out.ok))
     ELSE /\ autocommit_enabled' = TRUE
          /\ UNCHANGED <<in_transaction, engine, fate>>
          /\ Returns("autocommit on", "ok")
  /\ UNCHANGED open

\* Mutant: the flag is not cleared between the end and the next BEGIN.
InTransactionAfterKept(ended, reopened) == TRUE

\* With autocommit off, in_transaction is what the new BEGIN comes to.
InTransactionAfter(ended, reopened) == IF ended.ok THEN reopened.ok ELSE TRUE

\* The BEGIN after the end, with autocommit off; otherwise nothing is run.
Reopenings(ended) == IF ended.ok /\ ~autocommit_enabled
                     THEN Outcomes("BEGIN", ended.engine)
                     ELSE {Outcome(FALSE, ended.engine, "pending")}

EndWith(ended, reopened, step) ==
  /\ in_transaction' = InTransactionAfter(ended, reopened)
  /\ engine' = reopened.engine
  /\ Settle(ended.pending)
  /\ Returns(step, IF ended.ok /\ ~autocommit_enabled /\ ~reopened.ok
                   THEN "ended" ELSE Result(ended.ok))

(***************************************************************************)
(* commit and rollback: end the transaction if the flag says there is one, *)
(* and with autocommit off open the next.  A failed BEGIN is reported as   *)
(* the failure of the whole, although the first statement took effect.     *)
(***************************************************************************)
EndTransaction(step, statement) ==
  /\ open
  /\ IF ~in_transaction
     THEN UNCHANGED <<in_transaction, engine, fate>> /\ Returns(step, "ok")
     ELSE \E ended \in Outcomes(statement, engine) :
          \E reopened \in Reopenings(ended) : EndWith(ended, reopened, step)
  /\ UNCHANGED <<open, autocommit_enabled>>

Commit == EndTransaction("commit", "COMMIT")

\* Mutant: rollback, a copy of commit, kept its statement.
RollbackByCommit == EndTransaction("rollback", "COMMIT")

Rollback == EndTransaction("rollback", "ROLLBACK")

-----------------------------------------------------------------------------
\* execute: it touches neither flag.

Fresh == {w \in Writes : fate[w] = "none" /\ \A v \in 1..(w - 1) : fate[v] # "none"}

WriteTo(w, f) == fate' = [fate EXCEPT ![w] = f]

\* A write outside a transaction is durable at once, in one it waits.
ExecuteWrite(w) ==
  /\ open
  /\ engine \in {"idle", "active"}
  /\ WriteTo(w, IF engine = "idle" THEN "durable" ELSE "pending")
  /\ Returns("write", "ok")
  /\ UNCHANGED <<open, flags, engine>>

(***************************************************************************)
(* A write that fails leaves SQLite's transaction open, unless the failure *)
(* (an interruption, a full disk) rolls all of it back; it aborts that of  *)
(* PostgreSQL.                                                             *)
(***************************************************************************)
ExecuteWriteFails(w) ==
  /\ open
  /\ \/ /\ database = "sqlite" \/ engine # "active"
        /\ WriteTo(w, "undone")
        /\ UNCHANGED engine
     \/ /\ database = "sqlite" /\ engine = "active" /\ Unseen
        /\ fate' = [v \in Writes |-> IF v = w \/ fate[v] = "pending" THEN "undone" ELSE fate[v]]
        /\ engine' = "idle"
     \/ /\ database = "postgres" /\ engine = "active"
        /\ WriteTo(w, "undone")
        /\ engine' = "aborted"
  /\ Returns("write", "failed")
  /\ UNCHANGED <<open, flags>>

\* A typed BEGIN, COMMIT or ROLLBACK goes past the flags.
ExecuteControl(statement) ==
  /\ open
  /\ Unseen
  /\ \E out \in Outcomes(statement, engine) :
       /\ engine' = out.engine
       /\ Settle(out.pending)
       /\ Returns("control", Result(out.ok))
  /\ UNCHANGED <<open, flags>>

\* The PostgreSQL server goes away; the handle stays.
LoseConnection ==
  /\ open
  /\ database = "postgres" /\ engine # "lost"
  /\ engine' = "lost"
  /\ Settle("undone")
  /\ Returns("lose", "failed")
  /\ UNCHANGED <<open, flags>>

\* close(), from the destructor: the engine rolls back.
Close ==
  /\ open
  /\ open' = FALSE
  /\ in_transaction' = FALSE
  /\ engine' = "idle"
  /\ Settle("undone")
  /\ Returns("close", "ok")
  /\ UNCHANGED autocommit_enabled

Closed == ~open /\ UNCHANGED vars

Buttons == Begin \/ AutocommitOff \/ AutocommitOn \/ Commit \/ Rollback

Execute == \/ \E w \in Fresh : ExecuteWrite(w) \/ ExecuteWriteFails(w)
           \/ \E s \in {"BEGIN", "COMMIT", "ROLLBACK"} : ExecuteControl(s)

Operation == Buttons \/ Execute \/ LoseConnection \/ Close \/ Closed

Next == Operation /\ UNCHANGED database

Spec == Init /\ [][Next]_vars

-----------------------------------------------------------------------------
\* The type invariant; a closed connection is in no transaction.
TypeOK == /\ database \in Engines
          /\ open \in BOOLEAN
          /\ autocommit_enabled \in BOOLEAN
          /\ in_transaction \in BOOLEAN
          /\ engine \in EngineStates
          /\ fate \in [Writes -> Fates]
          /\ last \in [op : Steps, result : Results]
          /\ open \/ ~in_transaction

\* The engine has a transaction open.
InTransaction == engine \in {"active", "aborted"}

InSync == in_transaction <=> InTransaction

\* The engine refused a COMMIT and rolled the transaction back by itself.
CommitRolledBack == /\ last'.op \in {"commit", "autocommit on"}
                    /\ last'.result = "failed"
                    /\ ~InTransaction'

(***************************************************************************)
(* The buttons never separate the flags from the engine, whichever of      *)
(* their statements fail (the BEGIN after a COMMIT among them): only what  *)
(* the flags cannot see does, a statement run by execute(), the loss of    *)
(* the server, or an engine that rolls back on a refused COMMIT.           *)
(***************************************************************************)
ButtonsStayInSync ==
  [][InSync => \/ InSync'
               \/ last'.op \in {"write", "control", "lose"}
               \/ CommitRolledBack]_vars

(***************************************************************************)
(* However far the flags have drifted, a commit() or rollback() that had a *)
(* transaction to end and reports success leaves them in agreement.        *)
(***************************************************************************)
SuccessResyncs ==
  [][(last'.op \in {"commit", "rollback"} /\ last'.result = "ok" /\ in_transaction) => InSync']_vars

(***************************************************************************)
(* While the flags agree that a transaction is open, a write becomes       *)
(* durable only because somebody asked for a commit; BEGIN, the toggle to  *)
(* manual mode, a rollback or a further write never lets one through.      *)
(***************************************************************************)
DurableWrites == {w \in Writes : fate[w] = "durable"}
WritesWaitForCommit ==
  [][(in_transaction /\ InTransaction) =>
       \/ DurableWrites' = DurableWrites
       \/ last'.op \in {"commit", "autocommit on", "control"}]_vars

(***************************************************************************)
(* With autocommit off, as the status bar shows it (MainWindow.cpp:94), a  *)
(* submitted write is not durable before a commit.                         *)
(***************************************************************************)
ManualModeHoldsWrites ==
  [][(~autocommit_enabled /\ last'.op = "write") => DurableWrites' = DurableWrites]_vars
=============================================================================
