--------------------------- MODULE PostgresScript ---------------------------
(***************************************************************************)
(* PostgresDatabase::execute on one text, and the cursor it returns.  The  *)
(* text is sent as it is, however many statements it has: behind EXPLAIN,  *)
(* inside a subquery, or plain.  Which of these is decided by its first    *)
(* word; whether it worked, by the status of its last statement.           *)
(*                                                                         *)
(* The connection mutex is held from the first step to the answer.  A      *)
(* statement is no more than its kind; BEGIN and COMMIT inside a text, and *)
(* what autocommit makes of the effects, are not here.                     *)
(***************************************************************************)
EXTENDS Naturals, Sequences, SequencesExt, Functions

CONSTANTS
  MaxTexts,   \* bound on the statements of a text
  MaxReads    \* bound on the pages fetched

ASSUME PostgresAssumption == MaxTexts \in Nat /\ MaxReads \in Nat

(***************************************************************************)
(* Kinds that return rows: "select"; "calls", a SELECT of a function that  *)
(* writes; "unseen", a SELECT whose first word is not recognised because   *)
(* its list follows without a space; "show", recognised but not allowed in *)
(* a subquery (SHOW, WITH ... DELETE); "returning", a write that returns   *)
(* its rows; "explain", an EXPLAIN that the user typed.  "write" and       *)
(* "utility" return none.                                                  *)
(***************************************************************************)
TupleKinds == {"select", "calls", "unseen", "show", "returning", "explain"}
PgKinds == TupleKinds \cup {"write", "utility"}

VARIABLES
  text,      \* the statements of request.sql
  explain,   \* request.explain
  remark,    \* does the text end in a line comment?
  described, \* has the cursor been described?
  answer,    \* "none" while execute() runs, then what it returns, or "crashed"
  pages,     \* was a cursor returned?
  affected,  \* affected_rows
  effects    \* the engine: positions of the statements that took effect

asked == <<text, explain, remark>>
pgVars == <<asked, described, answer, pages, affected, effects>>

PgInit == /\ text \in SeqOf(PgKinds, MaxTexts)
          /\ explain \in BOOLEAN
          /\ remark \in BOOLEAN
          /\ described = FALSE
          /\ answer = "none"
          /\ pages = FALSE
          /\ affected = 0
          /\ effects = <<>>

Executing == answer = "none"

\* A text of nothing but semicolons has no statement.
First == IF text = <<>> THEN "nothing" ELSE Head(text)
LastKind == IF text = <<>> THEN "nothing" ELSE Last(text)

\* The statements from the n-th to the last, none if there is no n-th.
From(n) == [i \in 1..(Len(text) + 1 - n) |-> n + i - 1]

(***************************************************************************)
(* PQexec, external: the statements of a text are one transaction, so it   *)
(* has all their effects, or none when one of them fails, is cancelled or  *)
(* does not parse.  The result is that of the last one.                    *)
(***************************************************************************)
PQexec(rc, statements) ==
  effects' = IF rc = "done" THEN effects \o statements ELSE effects

Results == {"done", "failed", "cancelled"}

-----------------------------------------------------------------------------
\* EXPLAIN, lines 372-404.

\* An EXPLAIN of nothing, of a utility statement or of an EXPLAIN does not parse.
Explainable == First \in PgKinds \ {"utility", "explain"}

\* Mutant: the cell is taken from the first result.
CellsOfFirst == {"plan"}

(***************************************************************************)
(* The first cell of the last result, the only one PQexec returns: the     *)
(* plan asked for, if the first statement is the last; else what the last  *)
(* one returns, which reads as a plan if it is an EXPLAIN (FORMAT JSON) or *)
(* a query of such a text; missing, if it returns no row; or a status only.*)
(***************************************************************************)
FirstCells ==
  IF Len(text) = 1 THEN {"plan"}
  ELSE CASE LastKind = "explain" -> {"plan", "other"}
         [] LastKind \in TupleKinds \ {"explain"} -> {"plan", "other", "missing"}
         [] OTHER -> {"status"}

(***************************************************************************)
(* Lines 382-404.  A status is an error, and so is a cell that is no plan, *)
(* by an exception that the worker catches.  Of a missing row PQgetvalue   *)
(* returns NULL, and json::parse(NULL) is undefined: it fails, or the      *)
(* program ends.                                                           *)
(***************************************************************************)
ExplainAnswers(cell) == CASE cell = "plan" -> {"ok"}
                          [] cell = "missing" -> {"error", "crashed"}
                          [] OTHER -> {"error"}

(***************************************************************************)
(* EXPLAIN is put before the text, so the first statement is explained and *)
(* the others are executed.                                                *)
(***************************************************************************)
ExecuteExplain(rc) ==
  /\ Executing
  /\ explain
  /\ rc = "done" => Explainable
  /\ PQexec(rc, From(2))
  /\ \/ rc # "done" /\ answer' = "error"
     \/ rc = "done" /\ \E cell \in FirstCells : answer' \in ExplainAnswers(cell)
  /\ UNCHANGED <<asked, described, pages, affected>>

-----------------------------------------------------------------------------
\* A row query, lines 407-416 and 138-195.

\* classify_statement, on the first word of the text.
TakenForRows == First \in {"select", "calls", "show"}

\* Inside the brackets of a subquery only one statement parses, and no comment
\* that hides the closing bracket.
FitsSubquery == Len(text) = 1 /\ First \in {"select", "calls", "unseen"} /\ ~remark

\* SELECT * FROM (...) LIMIT 0: planned, not evaluated.
Describe(rc) ==
  /\ Executing
  /\ ~explain /\ TakenForRows /\ ~described
  /\ rc = "done" => FitsSubquery
  /\ IF rc = "done"
     THEN described' = TRUE /\ UNCHANGED answer
     ELSE answer' = "error" /\ UNCHANGED described
  /\ UNCHANGED <<asked, pages, affected, effects>>

\* SELECT COUNT( * ) FROM (...): evaluated.  A cancel is reported as an error.
Count(rc) ==
  /\ Executing
  /\ described
  /\ PQexec(rc, <<1>>)
  /\ answer' = IF rc = "done" THEN "ok" ELSE "error"
  /\ pages' = (rc = "done")
  /\ UNCHANGED <<asked, described, affected>>

\* fetch_page evaluates the text again for every page; a page may fail.
FetchPostgresPage(rc) ==
  /\ pages
  /\ Len(effects) < 1 + MaxReads
  /\ PQexec(rc, <<1>>)
  /\ UNCHANGED <<asked, described, answer, pages, affected>>

-----------------------------------------------------------------------------
\* Any other text, lines 418-452.

\* Mutant: success is a count of rows.
StatusOfCount == LastKind = "write"

\* Lines 427 and 434-445: PGRES_COMMAND_OK and nothing else.
StatusIsOk == text # <<>> /\ LastKind \notin TupleKinds

CommandAnswer(rc) ==
  CASE rc = "cancelled" -> "cancelled"
    [] rc = "done" /\ StatusIsOk -> "ok"
    [] OTHER -> "error"

ExecuteCommand(rc) ==
  /\ Executing
  /\ ~explain /\ ~TakenForRows
  /\ PQexec(rc, From(1))
  /\ answer' = CommandAnswer(rc)
  /\ affected' = IF answer' = "ok" /\ LastKind = "write" THEN 1 ELSE affected
  /\ UNCHANGED <<asked, described, pages>>

Answered == ~Executing /\ UNCHANGED pgVars

PgNext == \/ \E rc \in Results : \/ ExecuteExplain(rc) \/ ExecuteCommand(rc)
                                 \/ Describe(rc) \/ Count(rc)
                                 \/ FetchPostgresPage(rc)
          \/ Answered

PgSpec == PgInit /\ [][PgNext]_pgVars
-----------------------------------------------------------------------------
\* The type invariant.
PgTypeOK == /\ text \in Seq(PgKinds)
            /\ {explain, remark, described, pages} \subseteq BOOLEAN
            /\ answer \in {"none", "ok", "error", "cancelled", "crashed"}
            /\ affected \in {0, 1}
            /\ effects \in Seq(1..Len(text))

(***************************************************************************)
(* A text that is reported cancelled has done nothing.  One that is        *)
(* reported as an error, or ends the program, has done nothing either, but *)
(* in two cases: rows came back where none were expected, or it was to be  *)
(* explained and had more than one statement.                              *)
(***************************************************************************)
FailureLeavesNothing ==
  /\ answer = "cancelled" => effects = <<>>
  /\ (answer \in {"error", "crashed"} /\ effects # <<>>) =>
        \/ ~explain /\ LastKind \in TupleKinds /\ ~TakenForRows
        \/ explain /\ Len(text) > 1

(***************************************************************************)
(* What a success means.  Without EXPLAIN it is no less than it says: all  *)
(* the statements of the text were executed, in order, once.  With EXPLAIN *)
(* the first was executed never and the others once, so one statement by   *)
(* itself has done nothing; of several, the plan shown is the last one's   *)
(* result, and only a last statement that returns rows comes to this.      *)
(***************************************************************************)
SuccessDidAll ==
  answer = "ok" =>
    CASE explain -> effects = From(2) /\ (Len(text) > 1 => LastKind \in TupleKinds)
      [] ~explain /\ ~pages -> effects = From(1)
      [] OTHER -> Range(effects) = {1} /\ Len(text) = 1
=============================================================================
