---------------------------- MODULE SqliteScript ----------------------------
(***************************************************************************)
(* SQLiteDatabase::execute on one script, statement by statement, and the  *)
(* cursor it returns.  Statements without columns run in the loop, in      *)
(* order; of those with columns only the last is kept, and it runs when    *)
(* the loop is over.  A stop may be requested at any moment.               *)
(*                                                                         *)
(* A statement is no more than its kind.  Texts, columns and the contents  *)
(* of rows are left out; the connection mutex is held from the first step  *)
(* to the outcome, so nothing else runs on the connection meanwhile.       *)
(***************************************************************************)
EXTENDS Naturals, FiniteSets, Sequences, SequencesExt

CONSTANTS
  MaxStatements,  \* bound on the length of a script
  Kinds,          \* the kinds of statement it is made of: see AllKinds
  MaxRows,        \* bound on the rows that one INSERT, UPDATE or DELETE changes
  MaxPages        \* bound on the pages fetched

(***************************************************************************)
(* "empty": a comment.  Without columns: "write" is an INSERT, UPDATE or   *)
(* DELETE, of any number of rows, also none; "other" is DDL or a control   *)
(* statement.  With columns: "select"; "pragma"; "returning", a write that *)
(* returns the rows it changes.                                            *)
(***************************************************************************)
CommandKinds == {"write", "other"}
RowKinds == {"select", "pragma", "returning"}
AllKinds == {"empty"} \cup CommandKinds \cup RowKinds
WritingKinds == {"write", "other", "returning"}

ASSUME ScriptAssumption == /\ MaxStatements \in Nat
                           /\ Kinds \subseteq AllKinds
                           /\ MaxRows \in Nat
                           /\ MaxPages \in Nat

VARIABLES
  script,         \* request.sql, split as sqlite3_prepare splits it
  pos,            \* the statement at the head of remaining
  saw_statement,
  row_query,      \* position of the statement kept in row_query, 0 when empty
  affected_rows,
  stop,           \* was a stop requested?
  outcome,        \* "none" while execute() runs, then what it returns
  cursor,         \* the cursor returned: "none", "paged", "materialized"
  changes,        \* the engine: what sqlite3_changes returns
  changed,        \* the engine: rows changed by the commands completed
  done            \* the engine: positions of the statements completed, in order

request == <<script>>
loop == <<pos, saw_statement, row_query>>
database == <<changes, changed, done>>
vars == <<request, loop, affected_rows, stop, outcome, cursor, database>>

Init == /\ script \in SeqOf(Kinds, MaxStatements)
        /\ pos = 1
        /\ saw_statement = FALSE
        /\ row_query = 0
        /\ affected_rows = 0
        /\ stop = FALSE
        /\ outcome = "none"
        /\ cursor = "none"
        /\ changes \in 0..MaxRows  \* left by the script before this one
        /\ changed = 0
        /\ done = <<>>

Running == outcome = "none"
InLoop(kinds) == Running /\ pos <= Len(script) /\ script[pos] \in kinds
LoopIsOver == Running /\ pos > Len(script)

\* cancel() runs in another thread.
RequestStop ==
  /\ Running
  /\ ~stop
  /\ stop' = TRUE
  /\ UNCHANGED <<request, loop, affected_rows, outcome, cursor, database>>

-----------------------------------------------------------------------------
\* The engine, external.

\* sqlite3_changes: only a completed INSERT, UPDATE or DELETE sets it.
ChangesAfter(kind) == IF kind \in {"write", "returning"} THEN 0..MaxRows ELSE {changes}

\* A statement that fails or is interrupted has no effect.
Engine(rc, p) ==
  IF rc = "done"
  THEN /\ done' = Append(done, p)
       /\ changes' \in ChangesAfter(script[p])
       /\ changed' = changed + IF script[p] = "write" THEN changes' ELSE 0
  ELSE UNCHANGED database

\* A statement may be interrupted without a stop, by the cancel of another query.
Returned == {"done", "failed", "interrupted"}

-----------------------------------------------------------------------------
\* The loop, lines 512-579.

Advance == pos' = pos + 1

\* Lines 533-540: wrong text, or a table an earlier statement dropped.
PrepareFails ==
  /\ InLoop(CommandKinds \cup RowKinds)
  /\ outcome' = "error"
  /\ UNCHANGED <<request, loop, affected_rows, stop, cursor, database>>

\* Lines 542-546.
SkipEmpty ==
  /\ InLoop({"empty"})
  /\ Advance
  /\ UNCHANGED <<request, saw_statement, row_query, affected_rows, stop, outcome, cursor, database>>

\* Line 553: the last one is kept.
Keeps == pos

DeferRowQuery ==
  /\ InLoop(RowKinds)
  /\ saw_statement' = TRUE
  /\ row_query' = Keeps
  /\ Advance
  /\ UNCHANGED <<request, affected_rows, stop, outcome, cursor, database>>

\* Mutant: the count is overwritten, not added up.
AffectedOverwritten == changes'

\* Lines 571-574: sqlite3_changes is added whatever the statement was.
Affected == affected_rows + changes'

\* Mutant: a statement that fails does not end the script.
StatementFailsOnInterruptOnly(rc) == rc = "interrupted" \/ stop

\* Lines 559-570.
StatementFails(rc) == rc # "done" \/ stop

Report(rc) == IF rc = "interrupted" \/ stop THEN "cancelled" ELSE "error"

\* Lines 555-575: a statement without columns.
RunStatement(rc) ==
  /\ InLoop(CommandKinds)
  /\ Engine(rc, pos)
  /\ saw_statement' = TRUE
  /\ IF StatementFails(rc)
     THEN /\ outcome' = Report(rc)
          /\ UNCHANGED <<pos, affected_rows>>
     ELSE /\ affected_rows' = Affected
          /\ Advance
          /\ UNCHANGED outcome
  /\ UNCHANGED <<request, row_query, stop, cursor>>

-----------------------------------------------------------------------------
\* After the loop, lines 581-605.

EmptyScript ==
  /\ LoopIsOver
  /\ ~saw_statement
  /\ outcome' = "error"
  /\ UNCHANGED <<request, loop, affected_rows, stop, cursor, database>>

WithoutRows ==
  /\ LoopIsOver
  /\ saw_statement /\ row_query = 0
  /\ outcome' = "ok"
  /\ UNCHANGED <<request, loop, affected_rows, stop, cursor, database>>

\* Mutant: whatever is no PRAGMA is paged.
CursorsByText(kind) == IF kind = "pragma" THEN {"materialized"} ELSE {"paged"}

(***************************************************************************)
(* Lines 586-594.  A PRAGMA is materialized by its text.  The others are   *)
(* counted by SELECT COUNT( * ) over their text; where that does not       *)
(* prepare they are materialized too: a write, and also a SELECT that ends *)
(* in a comment.                                                           *)
(***************************************************************************)
CursorsOf(kind) == IF kind = "select" THEN {"paged", "materialized"} ELSE {"materialized"}

(***************************************************************************)
(* The row query runs: counted by the paged cursor, read to its end by the *)
(* materialized one.  Preparing it again may fail as well.                 *)
(***************************************************************************)
RunRowQuery(rc) ==
  /\ LoopIsOver
  /\ row_query # 0
  /\ Engine(rc, row_query)
  /\ IF rc # "done" \/ stop
     THEN /\ outcome' = Report(rc)
          /\ UNCHANGED cursor
     ELSE /\ outcome' = "ok"
          /\ cursor' \in CursorsOf(script[row_query])
  /\ UNCHANGED <<request, loop, affected_rows, stop>>

\* Lines 225-238 and 401-416: it does not prepare any more, stop or no stop.
RowQueryPrepareFails ==
  /\ LoopIsOver
  /\ row_query # 0
  /\ outcome' = "error"
  /\ UNCHANGED <<request, loop, affected_rows, stop, cursor, database>>

(***************************************************************************)
(* fetch_page: the paged cursor runs the row query again for every page,   *)
(* the materialized one has its rows.                                      *)
(***************************************************************************)
FetchPage ==
  /\ outcome = "ok"
  /\ cursor # "none"
  /\ Len(done) < Len(script) + MaxPages
  /\ IF cursor = "paged" THEN Engine("done", row_query) ELSE UNCHANGED database
  /\ UNCHANGED <<request, loop, affected_rows, stop, outcome, cursor>>

\* execute() has returned, and nobody asks for a page.
Returns == ~Running /\ UNCHANGED vars

Execute == \/ PrepareFails \/ SkipEmpty \/ DeferRowQuery
           \/ EmptyScript \/ WithoutRows \/ RowQueryPrepareFails
           \/ \E rc \in Returned : RunStatement(rc) \/ RunRowQuery(rc)

Next == RequestStop \/ Execute \/ FetchPage \/ Returns

Spec == Init /\ [][Next]_vars
-----------------------------------------------------------------------------
\* The type invariant.
TypeOK == /\ script \in Seq(Kinds)
          /\ pos \in 1..(Len(script) + 1)
          /\ saw_statement \in BOOLEAN
          /\ row_query \in 0..Len(script)
          /\ affected_rows \in Nat
          /\ stop \in BOOLEAN
          /\ outcome \in {"none", "ok", "error", "cancelled"}
          /\ cursor \in {"none", "paged", "materialized"}
          /\ changes \in 0..MaxRows
          /\ changed \in Nat
          /\ done \in Seq(1..Len(script))

IsCommand(p) == script[p] \in CommandKinds
IsRowQuery(p) == script[p] \in RowKinds
CommandsUpTo(n) == {p \in 1..n : IsCommand(p)}
DoneBefore(i) == {done[j] : j \in 1..(i - 1)}

\* Each command runs when exactly the commands in front of it have run.
CommandsInOrder ==
  /\ \A i \in DOMAIN done : IsCommand(done[i]) => DoneBefore(i) = CommandsUpTo(done[i] - 1)
  /\ outcome = "ok" => CommandsUpTo(Len(script)) \subseteq DoneBefore(Len(done) + 1)

RowQueryIsLast ==
  \A i \in DOMAIN done : IsRowQuery(done[i]) =>
    /\ \A p \in (done[i] + 1)..Len(script) : ~IsRowQuery(p)
    /\ CommandsUpTo(Len(script)) \subseteq DoneBefore(i)

(***************************************************************************)
(* Wherever a script ends, by a statement that fails, a cancel or its last *)
(* statement, what was executed is a prefix of its commands, in order, and *)
(* it is all of them when execute() reports success.  The rows shown are   *)
(* those of its last statement that has columns, as it comes out after all *)
(* the commands, also those behind it.                                     *)
(***************************************************************************)
ExecutedInOrder == CommandsInOrder /\ RowQueryIsLast

(***************************************************************************)
(* No statement that writes runs twice, neither to be counted nor for the  *)
(* pages of its result.                                                    *)
(***************************************************************************)
WritesOnce ==
  \A i, j \in DOMAIN done :
    (i # j /\ done[i] = done[j]) => script[done[i]] \notin WritingKinds

(***************************************************************************)
(* affected_rows never misses a row that the commands of the script        *)
(* changed, and is their number where each of them is an INSERT, UPDATE or *)
(* DELETE.  Any other command may add too many: sqlite3_changes still has  *)
(* the count of the last write, of this script or of one before, and it is *)
(* added once for each such command.  The rows that a RETURNING changes    *)
(* are not counted: it is the row query.                                   *)
(***************************************************************************)
CountOf(kind) == Cardinality({p \in 1..Len(script) : script[p] = kind})
AffectedRowsCovered ==
  outcome = "ok" => /\ affected_rows >= changed
                    /\ affected_rows <= changed + MaxRows * CountOf("other")

(***************************************************************************)
(* Run is "RunAll" (QueryEditorPane.cpp:38): a script that is reported as  *)
(* a success has executed each of its statements that writes.              *)
(***************************************************************************)
RunAllRunsAll ==
  outcome = "ok" =>
    \A p \in 1..Len(script) : script[p] \in WritingKinds => \E i \in DOMAIN done : done[i] = p
=============================================================================
