----------------------- MODULE DatabaseExecute_proofs -----------------------
(***************************************************************************)
(* The two engines behind Database::execute, for requests of any length    *)
(* and any number of pages.  First SQLiteDatabase: scripts run in order,   *)
(* no write runs twice, and the affected rows are counted.  Then           *)
(* PostgresDatabase: what has taken effect when it answers.  At last both: *)
(* step by step, each action of either is a step of ExecutionLedger or     *)
(* none.                                                                   *)
(***************************************************************************)
EXTENDS DatabaseExecute, FiniteSetTheorems, SequenceTheorems, TLAPS

-----------------------------------------------------------------------------
\* SQLiteDatabase::execute and its cursors.

\* What Append does to a sequence, element by element.
LEMMA AppendElements ==
  ASSUME NEW S, NEW s \in Seq(S), NEW e \in S
  PROVE  /\ Append(s, e) \in Seq(S)
         /\ Len(Append(s, e)) = Len(s) + 1
         /\ \A i \in 1..Len(s) : Append(s, e)[i] = s[i]
         /\ Append(s, e)[Len(s) + 1] = e
  OBVIOUS

\* The scripts of Init are sequences of kinds.
LEMMA ScriptsAreSequences ==
  ASSUME NEW s \in SeqOf(Kinds, MaxStatements)
  PROVE  s \in Seq(Kinds)
  BY ScriptAssumption DEF SeqOf

-----------------------------------------------------------------------------
(***************************************************************************)
(* While the loop runs, the statements completed lie behind pos, are       *)
(* commands, and are all different; the one kept in row_query lies behind  *)
(* pos too and is none of them.  A paged cursor is one over a SELECT.      *)
(***************************************************************************)
BehindPos == outcome = "none" =>
               \A i \in 1..Len(done) : done[i] < pos /\ IsCommand(done[i])

Distinct == outcome = "none" =>
              \A i, j \in 1..Len(done) : i # j => done[i] # done[j]

RowQueryKept == row_query # 0 => row_query < pos /\ IsRowQuery(row_query)

PagedIsSelect == cursor = "paged" => /\ outcome = "ok"
                                     /\ row_query # 0
                                     /\ script[row_query] = "select"

ScriptInv == TypeOK /\ BehindPos /\ Distinct /\ RowQueryKept /\ PagedIsSelect /\ WritesOnce

LEMMA ScriptInvInit == Init => ScriptInv
<1> SUFFICES ASSUME Init
             PROVE  ScriptInv
    OBVIOUS
<1>1. script \in Seq(Kinds) /\ Len(script) \in Nat
      BY ScriptsAreSequences DEF Init
<1>2. done = <<>> /\ Len(done) = 0 /\ DOMAIN done = {} /\ done \in Seq(1..Len(script))
      BY DEF Init
<1>3. pos = 1 /\ 1 \in 1..(Len(script) + 1) /\ 0 \in 0..Len(script)
      BY <1>1 DEF Init
<1>4. /\ saw_statement \in BOOLEAN /\ row_query = 0 /\ affected_rows \in Nat /\ stop \in BOOLEAN
      /\ outcome \in {"none", "ok", "error", "cancelled"}
      /\ cursor \in {"none", "paged", "materialized"}
      /\ changes \in 0..MaxRows /\ changed \in Nat
      BY ScriptAssumption DEF Init
<1>5. TypeOK
      BY <1>1, <1>2, <1>3, <1>4 DEF TypeOK
<1>6. QED
      BY <1>2, <1>5 DEF Init, ScriptInv, BehindPos, Distinct, RowQueryKept, PagedIsSelect, WritesOnce

\* What the engine does to the log of completed statements.
LEMMA EngineLog ==
  ASSUME TypeOK, NEW p \in 1..Len(script), NEW rc \in Returned, Engine(rc, p)
  PROVE  /\ done' \in Seq(1..Len(script)) /\ changes' \in 0..MaxRows /\ changed' \in Nat
         /\ Len(done) \in Nat
         /\ rc = "done" => /\ Len(done') = Len(done) + 1
                           /\ \A i \in 1..Len(done) : done'[i] = done[i]
                           /\ done'[Len(done) + 1] = p
         /\ rc # "done" => done' = done
<1>1. /\ done \in Seq(1..Len(script)) /\ Len(done) \in Nat
      /\ changes \in 0..MaxRows /\ changed \in Nat /\ MaxRows \in Nat
      BY ScriptAssumption DEF TypeOK
<1>2. CASE rc = "done"
  <2>1. done' = Append(done, p) /\ changes' \in ChangesAfter(script[p])
        BY <1>2 DEF Engine
  <2>2. changes' \in 0..MaxRows
        BY <1>1, <2>1 DEF ChangesAfter
  <2>3. changed' = changed + changes' \/ changed' = changed + 0
        BY <1>2 DEF Engine
  <2>4. changed' \in Nat
        BY <1>1, <2>2, <2>3
  <2>5. QED
        BY <1>1, <1>2, <2>1, <2>2, <2>4, AppendElements
<1>3. CASE rc # "done"
      BY <1>1, <1>3 DEF Engine, database
<1>4. QED
      BY <1>2, <1>3

-----------------------------------------------------------------------------
\* A step that leaves the engine alone keeps what is said of its log.
LEMMA EngineIdle ==
  ASSUME ScriptInv, UNCHANGED <<script, done>>, outcome # "none" => outcome' # "none",
         pos' \in Nat, pos' >= pos
  PROVE  BehindPos' /\ Distinct' /\ WritesOnce'
<1>1. pos \in Nat /\ \A i \in 1..Len(done) : done[i] \in Nat
      BY DEF ScriptInv, TypeOK
<1>2. BehindPos'
      BY <1>1 DEF ScriptInv, BehindPos, IsCommand
<1>3. Distinct' /\ WritesOnce'
      BY DEF ScriptInv, Distinct, WritesOnce
<1>4. QED
      BY <1>2, <1>3

\* The steps of the loop and behind it that run no statement.
LEMMA QuietStepsKeepInv ==
  ASSUME ScriptInv,
         \/ RequestStop \/ PrepareFails \/ SkipEmpty \/ DeferRowQuery
         \/ EmptyScript \/ WithoutRows \/ RowQueryPrepareFails \/ UNCHANGED vars
  PROVE  ScriptInv'
<1> USE DEF ScriptInv, Running, InLoop, LoopIsOver, request, loop, database
<1>t. pos \in Nat /\ Len(script) \in Nat /\ row_query \in Nat
      BY DEF TypeOK
<1>1. CASE DeferRowQuery \/ SkipEmpty
  <2>1. /\ pos' = pos + 1 /\ pos <= Len(script)
        /\ UNCHANGED <<script, affected_rows, stop, outcome, cursor, changes, changed, done>>
        /\ outcome = "none"
        BY <1>1 DEF DeferRowQuery, SkipEmpty, Advance
  <2>2. \/ row_query' = pos /\ script[pos] \in RowKinds /\ saw_statement' = TRUE
        \/ UNCHANGED <<row_query, saw_statement>>
        BY <1>1 DEF DeferRowQuery, SkipEmpty, Keeps
  <2>3. TypeOK'
    <3>1. /\ Len(script') = Len(script) /\ pos \in 1..Len(script)
          /\ pos' \in 1..(Len(script) + 1) /\ row_query' \in 0..Len(script)
          BY <1>t, <2>1, <2>2 DEF TypeOK
    <3>2. saw_statement' \in BOOLEAN
          BY <2>2 DEF TypeOK
    <3>3. QED
          BY <2>1, <3>1, <3>2 DEF TypeOK
  <2>4. BehindPos' /\ Distinct' /\ WritesOnce'
        BY <1>t, <2>1, EngineIdle
  <2>5. RowQueryKept'
        BY <1>t, <2>1, <2>2 DEF RowQueryKept, IsRowQuery
  <2>6. PagedIsSelect'
    <3>1. CASE row_query' = row_query
          BY <2>1, <3>1 DEF PagedIsSelect
    <3>2. CASE row_query' = pos /\ script[pos] \in RowKinds
      <4>1. cursor # "paged"
            BY <2>1 DEF PagedIsSelect
      <4>2. QED
            BY <2>1, <4>1 DEF PagedIsSelect
    <3>3. QED
          BY <2>2, <3>1, <3>2
  <2>7. QED
        BY <2>3, <2>4, <2>5, <2>6
<1>2. CASE \/ RequestStop \/ PrepareFails \/ EmptyScript \/ WithoutRows
           \/ RowQueryPrepareFails \/ UNCHANGED vars
  <2>1. /\ UNCHANGED <<script, pos, saw_statement, row_query, affected_rows, cursor, changes, changed, done>>
        /\ outcome' = outcome \/ (outcome = "none" /\ outcome' \in {"ok", "error"})
        /\ stop' \in {stop, TRUE}
        BY <1>2 DEF RequestStop, PrepareFails, EmptyScript, WithoutRows, RowQueryPrepareFails, vars
  <2>2. TypeOK'
        BY <2>1 DEF TypeOK
  <2>3. BehindPos' /\ Distinct' /\ WritesOnce'
        BY <1>t, <2>1, EngineIdle
  <2>4. RowQueryKept' /\ PagedIsSelect'
        BY <2>1 DEF RowQueryKept, PagedIsSelect, IsRowQuery
  <2>5. QED
        BY <2>2, <2>3, <2>4
<1>3. QED
      BY <1>1, <1>2

\* A command that has run is the one at pos, and the loop goes past it.
LEMMA RunStatementKeepsInv ==
  ASSUME ScriptInv, NEW rc \in Returned, RunStatement(rc)
  PROVE  ScriptInv'
<1> USE DEF ScriptInv, Running, InLoop, request, loop
<1>t. /\ pos \in Nat /\ Len(script) \in Nat /\ Len(done) \in Nat
      /\ \A i \in 1..Len(done) : done[i] \in Nat
      /\ affected_rows \in Nat
      BY DEF TypeOK
<1>1. /\ outcome = "none" /\ pos \in 1..Len(script) /\ IsCommand(pos)
      /\ Engine(rc, pos)
      /\ UNCHANGED <<script, row_query, stop, cursor>>
      BY <1>t DEF RunStatement, TypeOK, IsCommand
<1>2. /\ done' \in Seq(1..Len(script)) /\ changes' \in 0..MaxRows /\ changed' \in Nat
      /\ rc = "done" => /\ Len(done') = Len(done) + 1
                        /\ \A i \in 1..Len(done) : done'[i] = done[i]
                        /\ done'[Len(done) + 1] = pos
      /\ rc # "done" => done' = done
      BY <1>1, EngineLog
<1>3. \/ outcome' \in {"cancelled", "error"} /\ UNCHANGED <<pos, affected_rows>>
      \/ /\ rc = "done" /\ outcome' = "none" /\ pos' = pos + 1
         /\ affected_rows' = affected_rows + changes'
      BY <1>1 DEF RunStatement, StatementFails, Report, Affected, Advance
<1>4. saw_statement' = TRUE
      BY DEF RunStatement
<1>5. TypeOK'
  <2>1. pos' \in 1..(Len(script) + 1) /\ affected_rows' \in Nat
    <3>1. pos \in 1..(Len(script) + 1) /\ changes' \in Nat
          BY <1>t, <1>1, <1>2
    <3>2. CASE UNCHANGED <<pos, affected_rows>>
          BY <1>t, <3>1, <3>2
    <3>3. CASE pos' = pos + 1 /\ affected_rows' = affected_rows + changes'
      <4>1. pos' \in 1..(Len(script) + 1)
            BY <1>t, <1>1, <3>3
      <4>2. affected_rows + changes' \in Nat
        <5>1. \A a, c \in Nat : a + c \in Nat
              OBVIOUS
        <5>2. QED
              BY <1>t, <3>1, <5>1, Zenon
      <4>3. QED
            BY <3>3, <4>1, <4>2
    <3>4. QED
          BY <1>3, <3>2, <3>3
  <2>2. outcome' \in {"none", "ok", "error", "cancelled"}
        BY <1>3
  <2>3. QED
        BY <1>1, <1>2, <1>4, <2>1, <2>2 DEF TypeOK
<1>6. BehindPos'
  <2>1. ASSUME outcome' = "none", NEW i \in 1..Len(done')
        PROVE  done'[i] < pos' /\ script[done'[i]] \in CommandKinds
    <3>1. rc = "done" /\ pos' = pos + 1 /\ i \in 1..(Len(done) + 1)
          BY <1>2, <1>3, <2>1
    <3>2. CASE i = Len(done) + 1
          BY <1>t, <1>1, <1>2, <3>1, <3>2 DEF IsCommand
    <3>3. CASE i \in 1..Len(done)
      <4>1. done'[i] = done[i] /\ done[i] < pos /\ script[done[i]] \in CommandKinds
            BY <1>1, <1>2, <3>1, <3>3 DEF BehindPos, IsCommand
      <4>2. QED
            BY <1>t, <3>1, <3>3, <4>1
    <3>4. QED
          BY <1>t, <3>1, <3>2, <3>3
  <2>2. QED
        BY <1>1, <2>1 DEF BehindPos, IsCommand
<1>7. \A i, j \in 1..Len(done') : i # j => done'[i] # done'[j]
  <2>1. CASE rc = "done"
    <3>1. SUFFICES ASSUME NEW i \in 1..(Len(done) + 1), NEW j \in 1..(Len(done) + 1), i # j
                   PROVE  done'[i] # done'[j]
          BY <1>2, <2>1
    <3>2. \A k \in 1..Len(done) : done'[k] = done[k] /\ done[k] < pos /\ done[k] \in Nat
          BY <1>t, <1>1, <1>2, <2>1 DEF BehindPos
    <3>3. CASE i \in 1..Len(done) /\ j \in 1..Len(done)
          BY <1>1, <3>1, <3>2, <3>3 DEF Distinct
    <3>4. CASE i = Len(done) + 1 \/ j = Len(done) + 1
      <4>1. done'[Len(done) + 1] = pos
            BY <1>2, <2>1
      <4>2. \A k \in 1..Len(done) : done'[k] # pos
            BY <1>t, <3>2
      <4>3. \A k \in 1..(Len(done) + 1) : k = Len(done) + 1 \/ k \in 1..Len(done)
            BY <1>t
      <4>4. QED
            BY <3>1, <3>4, <4>1, <4>2, <4>3
    <3>5. QED
          BY <1>t, <3>1, <3>3, <3>4
  <2>2. CASE rc # "done"
        BY <1>1, <1>2, <2>2 DEF Distinct
  <2>3. QED
        BY <2>1, <2>2
<1>8. Distinct' /\ WritesOnce'
  <2>1. DOMAIN done' = 1..Len(done')
        BY <1>2
  <2>2. QED
        BY <1>7, <2>1 DEF Distinct, WritesOnce
<1>9. RowQueryKept' /\ PagedIsSelect'
  <2>1. pos' >= pos /\ pos' \in Nat /\ row_query \in Nat
        BY <1>t, <1>3 DEF TypeOK
  <2>2. QED
        BY <1>t, <1>1, <2>1 DEF RowQueryKept, PagedIsSelect, IsRowQuery
<1>10. QED
      BY <1>5, <1>6, <1>8, <1>9

\* The row query is not among the commands, and execute() returns after it.
LEMMA RunRowQueryKeepsInv ==
  ASSUME ScriptInv, NEW rc \in Returned, RunRowQuery(rc)
  PROVE  ScriptInv'
<1> USE DEF ScriptInv, Running, LoopIsOver, request, loop
<1>1. /\ outcome = "none" /\ row_query \in 1..Len(script) /\ Len(done) \in Nat
      /\ Engine(rc, row_query)
      /\ UNCHANGED <<script, pos, saw_statement, row_query, affected_rows, stop>>
      BY DEF RunRowQuery, TypeOK
<1>2. /\ done' \in Seq(1..Len(script)) /\ changes' \in 0..MaxRows /\ changed' \in Nat
      /\ rc = "done" => /\ Len(done') = Len(done) + 1
                        /\ \A i \in 1..Len(done) : done'[i] = done[i]
                        /\ done'[Len(done) + 1] = row_query
      /\ rc # "done" => done' = done
      BY <1>1, EngineLog
<1>3. \/ outcome' \in {"cancelled", "error"} /\ UNCHANGED cursor
      \/ outcome' = "ok" /\ cursor' \in CursorsOf(script[row_query])
      BY DEF RunRowQuery, Report
<1>4. TypeOK'
      BY <1>1, <1>2, <1>3 DEF TypeOK, CursorsOf
<1>5. BehindPos' /\ Distinct' /\ RowQueryKept'
      BY <1>1, <1>3 DEF BehindPos, Distinct, RowQueryKept, IsRowQuery
<1>6. PagedIsSelect'
      BY <1>1, <1>3 DEF PagedIsSelect, CursorsOf
<1>7. \A i \in 1..Len(done) : done[i] # row_query
  <2>1. ~IsCommand(row_query)
        BY <1>1 DEF RowQueryKept, IsRowQuery, IsCommand, RowKinds, CommandKinds
  <2>2. QED
        BY <1>1, <2>1 DEF BehindPos
<1>8. WritesOnce'
  <2>1. \A i, j \in 1..Len(done') : i # j => done'[i] # done'[j]
    <3>1. CASE rc = "done"
      <4>1. SUFFICES ASSUME NEW i \in 1..(Len(done) + 1), NEW j \in 1..(Len(done) + 1), i # j
                     PROVE  done'[i] # done'[j]
            BY <1>2, <3>1
      <4>2. CASE i \in 1..Len(done) /\ j \in 1..Len(done)
            BY <1>1, <1>2, <3>1, <4>1, <4>2 DEF Distinct
      <4>3. CASE i = Len(done) + 1 \/ j = Len(done) + 1
            BY <1>1, <1>2, <1>7, <3>1, <4>1, <4>3
      <4>4. QED
            BY <1>1, <4>1, <4>2, <4>3
    <3>2. CASE rc # "done"
          BY <1>1, <1>2, <3>2 DEF Distinct
    <3>3. QED
          BY <3>1, <3>2
  <2>2. DOMAIN done' = 1..Len(done')
        BY <1>2
  <2>3. QED
        BY <2>1, <2>2 DEF WritesOnce
<1>9. QED
      BY <1>4, <1>5, <1>6, <1>8

\* A page runs the row query again only if it is a SELECT.
LEMMA FetchPageKeepsInv ==
  ASSUME ScriptInv, FetchPage
  PROVE  ScriptInv'
<1> USE DEF ScriptInv, request, loop
<1>1. /\ outcome = "ok" /\ Len(done) \in Nat /\ Len(script) \in Nat
      /\ DOMAIN done = 1..Len(done)
      /\ UNCHANGED <<script, pos, saw_statement, row_query, affected_rows, stop, outcome, cursor>>
      BY DEF FetchPage, TypeOK
<1>2. CASE cursor = "paged"
  <2>1. /\ row_query \in 1..Len(script) /\ script[row_query] \notin WritingKinds
        /\ Engine("done", row_query) /\ "done" \in Returned
        BY <1>2 DEF FetchPage, PagedIsSelect, TypeOK, WritingKinds, Returned
  <2>2. /\ done' \in Seq(1..Len(script)) /\ changes' \in 0..MaxRows /\ changed' \in Nat
        /\ Len(done') = Len(done) + 1
        /\ \A i \in 1..Len(done) : done'[i] = done[i]
        /\ done'[Len(done) + 1] = row_query
        BY <2>1, EngineLog
  <2>3. TypeOK'
        BY <1>1, <2>2 DEF TypeOK
  <2>4. WritesOnce'
    <3>1. DOMAIN done' = 1..(Len(done) + 1)
          BY <2>2
    <3>2. SUFFICES ASSUME NEW i \in 1..(Len(done) + 1), NEW j \in 1..(Len(done) + 1),
                          i # j, done'[i] = done'[j]
                   PROVE  script[done'[i]] \notin WritingKinds
          BY <1>1, <3>1 DEF WritesOnce
    <3>3. CASE i = Len(done) + 1 \/ j = Len(done) + 1
          BY <2>1, <2>2, <3>2, <3>3
    <3>4. CASE i \in 1..Len(done) /\ j \in 1..Len(done)
          BY <1>1, <2>2, <3>2, <3>4 DEF WritesOnce
    <3>5. QED
          BY <1>1, <3>3, <3>4
  <2>5. QED
        BY <1>1, <2>3, <2>4 DEF BehindPos, Distinct, RowQueryKept, PagedIsSelect, IsRowQuery
<1>3. CASE cursor # "paged"
  <2>1. UNCHANGED <<done, changes, changed>>
        BY <1>3 DEF FetchPage, database
  <2>2. QED
        BY <1>1, <2>1 DEF TypeOK, BehindPos, Distinct, RowQueryKept, PagedIsSelect, WritesOnce, IsRowQuery
<1>4. QED
      BY <1>2, <1>3

LEMMA ScriptInvInductive == ScriptInv /\ [Next]_vars => ScriptInv'
<1> SUFFICES ASSUME ScriptInv, [Next]_vars
             PROVE  ScriptInv'
    OBVIOUS
<1>1. ASSUME NEW rc \in Returned, RunStatement(rc) \/ RunRowQuery(rc)
      PROVE  ScriptInv'
      BY <1>1, RunStatementKeepsInv, RunRowQueryKeepsInv
<1>2. CASE FetchPage
      BY <1>2, FetchPageKeepsInv
<1>3. CASE \/ RequestStop \/ PrepareFails \/ SkipEmpty \/ DeferRowQuery
           \/ EmptyScript \/ WithoutRows \/ RowQueryPrepareFails \/ UNCHANGED vars
      BY <1>3, QuietStepsKeepInv
<1>4. QED
      BY <1>1, <1>2, <1>3 DEF Next, Execute, Returns

-----------------------------------------------------------------------------
\* execute() and its cursor keep the types of their state.
THEOREM ScriptTyped == Spec => []TypeOK
<1>1. ScriptInv => TypeOK
      BY DEF ScriptInv
<1>2. QED
      BY <1>1, ScriptInvInit, ScriptInvInductive, PTL DEF Spec

(***************************************************************************)
(* For every script: a statement that writes runs at most once, whatever   *)
(* cursor reads its result and however many pages are fetched.             *)
(***************************************************************************)
THEOREM WritesRunOnce == Spec => []WritesOnce
<1>1. ScriptInv => WritesOnce
      BY DEF ScriptInv
<1>2. QED
      BY <1>1, ScriptInvInit, ScriptInvInductive, PTL DEF Spec

-----------------------------------------------------------------------------
(***************************************************************************)
(* The loop leaves no command behind: those in front of pos have all run.  *)
(* What is kept in row_query is the last statement with columns so far.    *)
(***************************************************************************)
NothingLeftBehind ==
  /\ Running => CommandsUpTo(pos - 1) \subseteq DoneBefore(Len(done) + 1)
  /\ outcome = "ok" => pos = Len(script) + 1
  /\ row_query # 0 => \A p \in (row_query + 1)..(pos - 1) : ~IsRowQuery(p)

OrderInv == ScriptInv /\ ExecutedInOrder /\ NothingLeftBehind

\* What was done before a position of the log does not change when it grows.
LEMMA LogOnlyGrows ==
  ASSUME \A i \in 1..Len(done) : done'[i] = done[i], NEW i \in 1..(Len(done) + 1), Len(done) \in Nat
  PROVE  DoneBefore(i)' = DoneBefore(i)
<1>1. \A j \in 1..(i - 1) : j \in 1..Len(done)
      OBVIOUS
<1>2. QED
      BY <1>1 DEF DoneBefore

\* A step that runs no statement.
LEMMA QuietStepsKeepOrder ==
  ASSUME OrderInv,
         \/ RequestStop \/ PrepareFails \/ SkipEmpty \/ DeferRowQuery
         \/ EmptyScript \/ WithoutRows \/ RowQueryPrepareFails \/ UNCHANGED vars
  PROVE  (ExecutedInOrder /\ NothingLeftBehind)'
<1> USE DEF OrderInv, Running, InLoop, LoopIsOver, request, loop, database
<1>t. /\ pos \in Nat /\ Len(script) \in Nat /\ row_query \in Nat /\ Len(done) \in Nat
      /\ pos \in 1..(Len(script) + 1)
      BY DEF ScriptInv, TypeOK
<1>1. ASSUME UNCHANGED <<script, done, outcome>>
      PROVE  ExecutedInOrder'
      BY <1>1 DEF ExecutedInOrder, CommandsInOrder, RowQueryIsLast, CommandsUpTo, DoneBefore,
         IsCommand, IsRowQuery
<1>2. CASE DeferRowQuery \/ SkipEmpty
  <2>1. /\ pos' = pos + 1 /\ pos <= Len(script) /\ outcome = "none"
        /\ UNCHANGED <<script, outcome, done>>
        /\ ~IsCommand(pos)
        /\ row_query' = pos \/ (row_query' = row_query /\ ~IsRowQuery(pos))
        BY <1>2 DEF DeferRowQuery, SkipEmpty, Advance, Keeps, IsCommand, IsRowQuery,
           CommandKinds, RowKinds
  <2>2. CommandsUpTo(pos - 1)' \subseteq CommandsUpTo(pos - 1)
        BY <1>t, <2>1 DEF CommandsUpTo, IsCommand
  <2>3. DoneBefore(Len(done) + 1)' = DoneBefore(Len(done) + 1)
        BY <2>1 DEF DoneBefore
  <2>4. row_query' # 0 => \A p \in (row_query' + 1)..(pos' - 1) : ~IsRowQuery(p)
        BY <1>t, <2>1 DEF NothingLeftBehind
  <2>5. NothingLeftBehind'
        BY <2>1, <2>2, <2>3, <2>4 DEF NothingLeftBehind, IsRowQuery
  <2>6. QED
        BY <1>1, <2>1, <2>5
<1>3. CASE \/ RequestStop \/ PrepareFails \/ EmptyScript \/ WithoutRows
           \/ RowQueryPrepareFails \/ UNCHANGED vars
  <2>1. /\ UNCHANGED <<script, pos, row_query, done>>
        /\ \/ outcome' = outcome
           \/ outcome = "none" /\ outcome' = "error"
           \/ outcome = "none" /\ outcome' = "ok" /\ pos > Len(script)
        BY <1>3 DEF RequestStop, PrepareFails, EmptyScript, WithoutRows, RowQueryPrepareFails, vars
  <2>2. NothingLeftBehind'
        BY <1>t, <2>1 DEF NothingLeftBehind, CommandsUpTo, DoneBefore, IsCommand, IsRowQuery
  <2>3. RowQueryIsLast'
        BY <2>1 DEF ExecutedInOrder, RowQueryIsLast, CommandsUpTo, DoneBefore, IsCommand, IsRowQuery
  <2>4. CommandsInOrder'
    <3>1. \A i \in DOMAIN done : IsCommand(done[i])
             => DoneBefore(i)' = CommandsUpTo(done[i] - 1)'
          BY <2>1 DEF ExecutedInOrder, CommandsInOrder, CommandsUpTo, DoneBefore, IsCommand
    <3>2. outcome' = "ok" => CommandsUpTo(Len(script)) \subseteq DoneBefore(Len(done) + 1)
      <4>1. CASE outcome = "ok"
            BY <4>1 DEF ExecutedInOrder, CommandsInOrder
      <4>2. CASE outcome = "none" /\ pos > Len(script)
        <5>1. pos - 1 = Len(script)
              BY <1>t, <4>2
        <5>2. QED
              BY <4>2, <5>1 DEF NothingLeftBehind
      <4>3. QED
            BY <2>1, <4>1, <4>2
    <3>3. QED
          BY <2>1, <3>1, <3>2 DEF CommandsInOrder, CommandsUpTo, DoneBefore, IsCommand
  <2>5. QED
        BY <2>2, <2>3, <2>4 DEF ExecutedInOrder
<1>4. QED
      BY <1>2, <1>3

(***************************************************************************)
(* A statement that completes: the entry it makes in the log is in order,  *)
(* the entries before it do not change.                                    *)
(***************************************************************************)
LEMMA NextEntryKeepsOrder ==
  ASSUME OrderInv, script' = script, NEW p \in 1..Len(script),
         done' \in Seq(1..Len(script)),
         Len(done') = Len(done) + 1,
         \A i \in 1..Len(done) : done'[i] = done[i],
         done'[Len(done) + 1] = p,
         IsCommand(p) => DoneBefore(Len(done) + 1) = CommandsUpTo(p - 1),
         IsRowQuery(p) => /\ \A q \in (p + 1)..Len(script) : ~IsRowQuery(q)
                          /\ CommandsUpTo(Len(script)) \subseteq DoneBefore(Len(done) + 1)
  PROVE  /\ \A i \in DOMAIN done' : IsCommand(done'[i])
               => DoneBefore(i)' = CommandsUpTo(done'[i] - 1)
         /\ RowQueryIsLast'
<1> DEFINE n == Len(done) + 1
<1>t. Len(done) \in Nat /\ DOMAIN done = 1..Len(done) /\ DOMAIN done' = 1..n
      BY DEF OrderInv, ScriptInv, TypeOK
<1>1. \A i \in 1..n : DoneBefore(i)' = DoneBefore(i)
      BY <1>t, LogOnlyGrows
<1>2. \A i \in 1..n : i = n \/ (i \in 1..Len(done) /\ done'[i] = done[i])
      BY <1>t
<1>3. \A k : CommandsUpTo(k)' = CommandsUpTo(k)
      BY DEF CommandsUpTo, IsCommand
<1>4. ASSUME NEW i \in 1..n, IsCommand(done'[i])
      PROVE  DoneBefore(i)' = CommandsUpTo(done'[i] - 1)
  <2>1. CASE i = n
        BY <1>1, <1>4, <2>1
  <2>2. CASE i \in 1..Len(done) /\ done'[i] = done[i]
        BY <1>1, <1>4, <1>t, <2>2 DEF OrderInv, ExecutedInOrder, CommandsInOrder
  <2>3. QED
        BY <1>2, <2>1, <2>2
<1>5. ASSUME NEW i \in 1..n, IsRowQuery(done'[i])
      PROVE  /\ \A q \in (done'[i] + 1)..Len(script) : ~IsRowQuery(q)
             /\ CommandsUpTo(Len(script)) \subseteq DoneBefore(i)'
  <2>1. CASE i = n
        BY <1>1, <1>5, <2>1
  <2>2. CASE i \in 1..Len(done) /\ done'[i] = done[i]
        BY <1>1, <1>5, <1>t, <2>2 DEF OrderInv, ExecutedInOrder, RowQueryIsLast
  <2>3. QED
        BY <1>2, <2>1, <2>2
<1>6. RowQueryIsLast'
      BY <1>t, <1>5 DEF RowQueryIsLast, IsRowQuery, CommandsUpTo, IsCommand
<1>7. QED
      BY <1>t, <1>4, <1>6

LEMMA RunStatementKeepsOrder ==
  ASSUME OrderInv, NEW rc \in Returned, RunStatement(rc)
  PROVE  (ExecutedInOrder /\ NothingLeftBehind)'
<1> USE DEF OrderInv, Running, InLoop, request
<1>t. /\ pos \in Nat /\ Len(script) \in Nat /\ row_query \in Nat /\ Len(done) \in Nat
      /\ \A i \in 1..Len(done) : done[i] \in 1..Len(script)
      /\ DOMAIN done = 1..Len(done)
      /\ TypeOK
      BY DEF ScriptInv, TypeOK
<1>1. /\ outcome = "none" /\ pos \in 1..Len(script) /\ IsCommand(pos) /\ ~IsRowQuery(pos)
      /\ Engine(rc, pos)
      /\ UNCHANGED <<script, row_query>>
      BY <1>t DEF RunStatement, TypeOK, IsCommand, IsRowQuery, CommandKinds, RowKinds
<1>2. /\ done' \in Seq(1..Len(script))
      /\ rc = "done" => /\ Len(done') = Len(done) + 1
                        /\ \A i \in 1..Len(done) : done'[i] = done[i]
                        /\ done'[Len(done) + 1] = pos
      /\ rc # "done" => done' = done
      BY <1>t, <1>1, EngineLog
<1>3. \/ outcome' \in {"cancelled", "error"} /\ pos' = pos
      \/ rc = "done" /\ outcome' = "none" /\ pos' = pos + 1
      BY <1>1 DEF RunStatement, StatementFails, Report, Advance
<1>4. DoneBefore(Len(done) + 1) = CommandsUpTo(pos - 1)
  <2>1. DoneBefore(Len(done) + 1) \subseteq CommandsUpTo(pos - 1)
        BY <1>t, <1>1 DEF DoneBefore, CommandsUpTo, ScriptInv, BehindPos
  <2>2. QED
        BY <1>1, <2>1 DEF NothingLeftBehind
<1>5. CASE rc = "done"
  <2>1. /\ \A i \in DOMAIN done' : IsCommand(done'[i])
              => DoneBefore(i)' = CommandsUpTo(done'[i] - 1)
        /\ RowQueryIsLast'
        BY <1>1, <1>2, <1>4, <1>5, NextEntryKeepsOrder
  <2>2. outcome' # "ok"
        BY <1>3
  <2>3. ExecutedInOrder'
        BY <1>1, <2>1, <2>2 DEF ExecutedInOrder, CommandsInOrder, CommandsUpTo, IsCommand
  <2>4. ASSUME outcome' = "none"
        PROVE  CommandsUpTo(pos - 1)' \subseteq DoneBefore(Len(done) + 1)'
    <3>1. pos' - 1 = pos
          BY <1>t, <1>3, <2>4
    <3>2. CommandsUpTo(pos) \subseteq CommandsUpTo(pos - 1) \cup {pos}
          BY <1>t, <1>1 DEF CommandsUpTo
    <3>3. DoneBefore(Len(done) + 1) \cup {pos} \subseteq DoneBefore(Len(done) + 1)'
      <4>1. \A j \in 1..((Len(done) + 1) - 1) : done'[j] = done[j] /\ j \in 1..((Len(done') + 1) - 1)
            BY <1>t, <1>2, <1>5
      <4>2. Len(done) + 1 \in 1..((Len(done') + 1) - 1)
            BY <1>t, <1>2, <1>5
      <4>3. QED
            BY <1>2, <1>5, <4>1, <4>2 DEF DoneBefore
    <3>4. CommandsUpTo(pos - 1)' = CommandsUpTo(pos)
          BY <1>1, <3>1 DEF CommandsUpTo, IsCommand
    <3>5. QED
          BY <1>4, <3>2, <3>3, <3>4
  <2>5. row_query' # 0 => \A p \in (row_query' + 1)..(pos' - 1) : ~IsRowQuery(p)
        BY <1>t, <1>1, <1>3 DEF NothingLeftBehind
  <2>6. NothingLeftBehind'
        BY <1>1, <2>2, <2>4, <2>5, Zenon DEF NothingLeftBehind, IsRowQuery
  <2>7. QED
        BY <2>3, <2>6
<1>6. CASE rc # "done"
  <2>1. /\ UNCHANGED <<script, done, pos, row_query>> /\ outcome' \notin {"ok", "none"}
        BY <1>1, <1>2, <1>3, <1>6
  <2>2. ExecutedInOrder'
        BY <2>1 DEF ExecutedInOrder, CommandsInOrder, RowQueryIsLast, CommandsUpTo, DoneBefore,
           IsCommand, IsRowQuery
  <2>3. NothingLeftBehind'
        BY <2>1 DEF NothingLeftBehind, IsRowQuery
  <2>4. QED
        BY <2>2, <2>3
<1>7. QED
      BY <1>5, <1>6

\* The row query, run first by execute() and again for the pages of a SELECT.
LEMMA RunsOfRowQueryKeepOrder ==
  ASSUME OrderInv, FetchPage \/ \E rc \in Returned : RunRowQuery(rc)
  PROVE  (ExecutedInOrder /\ NothingLeftBehind)'
<1> USE DEF OrderInv, Running, LoopIsOver, request, loop
<1>t. /\ pos \in Nat /\ Len(script) \in Nat /\ row_query \in 0..Len(script) /\ Len(done) \in Nat
      /\ DOMAIN done = 1..Len(done)
      /\ TypeOK
      BY DEF ScriptInv, TypeOK
<1>1. /\ pos = Len(script) + 1
      /\ UNCHANGED <<script, pos, row_query>>
      BY <1>t DEF FetchPage, RunRowQuery, NothingLeftBehind, TypeOK
<1>2. CommandsUpTo(Len(script)) \subseteq DoneBefore(Len(done) + 1)
  <2>1. CASE outcome = "none"
    <3>1. pos - 1 = Len(script)
          BY <1>t, <1>1
    <3>2. QED
          BY <2>1, <3>1 DEF NothingLeftBehind
  <2>2. CASE outcome = "ok"
        BY <2>2 DEF ExecutedInOrder, CommandsInOrder
  <2>3. QED
        BY <2>1, <2>2 DEF FetchPage, RunRowQuery
<1>3. outcome' # "none"
      BY DEF FetchPage, RunRowQuery, Report
<1>4. NothingLeftBehind'
      BY <1>1, <1>3 DEF NothingLeftBehind, IsRowQuery
<1>5. CASE done' = done
  <2>1. ExecutedInOrder'
        BY <1>1, <1>2, <1>5 DEF ExecutedInOrder, CommandsInOrder, RowQueryIsLast, CommandsUpTo,
           DoneBefore, IsCommand, IsRowQuery
  <2>2. QED
        BY <1>4, <2>1
<1>6. ASSUME row_query # 0, Engine("done", row_query)
      PROVE  (ExecutedInOrder /\ NothingLeftBehind)'
  <2>1. /\ row_query \in 1..Len(script) /\ "done" \in Returned
        /\ IsRowQuery(row_query) /\ ~IsCommand(row_query)
        BY <1>6, <1>t DEF Returned, ScriptInv, RowQueryKept, IsRowQuery, IsCommand, CommandKinds,
           RowKinds
  <2>2. /\ done' \in Seq(1..Len(script))
        /\ Len(done') = Len(done) + 1
        /\ \A i \in 1..Len(done) : done'[i] = done[i]
        /\ done'[Len(done) + 1] = row_query
        BY <1>t, <1>6, <2>1, EngineLog
  <2>3. \A q \in (row_query + 1)..Len(script) : ~IsRowQuery(q)
    <3>1. pos - 1 = Len(script)
          BY <1>t, <1>1
    <3>2. QED
          BY <1>6, <3>1 DEF NothingLeftBehind
  <2>4. /\ \A i \in DOMAIN done' : IsCommand(done'[i])
              => DoneBefore(i)' = CommandsUpTo(done'[i] - 1)
        /\ RowQueryIsLast'
        BY <1>1, <1>2, <2>1, <2>2, <2>3, NextEntryKeepsOrder
  <2>5. CommandsUpTo(Len(script)) \subseteq DoneBefore(Len(done) + 1)'
    <3>1. \A j \in 1..((Len(done) + 1) - 1) :
             j \in 1..((Len(done') + 1) - 1) /\ done'[j] = done[j]
          BY <1>t, <2>2
    <3>2. DoneBefore(Len(done) + 1) \subseteq DoneBefore(Len(done) + 1)'
          BY <3>1 DEF DoneBefore
    <3>3. QED
          BY <1>2, <3>2
  <2>6. ExecutedInOrder'
        BY <1>1, <2>4, <2>5 DEF ExecutedInOrder, CommandsInOrder, CommandsUpTo, IsCommand
  <2>7. QED
        BY <1>4, <2>6
<1>7. done' = done \/ (row_query # 0 /\ Engine("done", row_query))
      BY <1>t DEF FetchPage, RunRowQuery, Engine, ScriptInv, PagedIsSelect, database
<1>8. QED
      BY <1>5, <1>6, <1>7

LEMMA OrderInvariant == Spec => []OrderInv
<1>1. Init => OrderInv
  <2> SUFFICES ASSUME Init
               PROVE  OrderInv
      OBVIOUS
  <2>1. ScriptInv /\ done = <<>> /\ DOMAIN done = {} /\ Len(done) = 0
        BY ScriptInvInit DEF Init
  <2>2. CommandsUpTo(pos - 1) = {}
        BY DEF Init, CommandsUpTo
  <2>3. QED
        BY <2>1, <2>2 DEF Init, OrderInv, ExecutedInOrder, CommandsInOrder, RowQueryIsLast,
           NothingLeftBehind
<1>2. OrderInv /\ [Next]_vars => OrderInv'
  <2>1. OrderInv /\ [Next]_vars => (ExecutedInOrder /\ NothingLeftBehind)'
        BY QuietStepsKeepOrder, RunStatementKeepsOrder, RunsOfRowQueryKeepOrder
        DEF Next, Execute, Returns
  <2>2. QED
        BY <2>1, ScriptInvInductive DEF OrderInv
<1>3. QED
      BY <1>1, <1>2, PTL DEF Spec

(***************************************************************************)
(* For scripts of any length and wherever they end: what was executed is   *)
(* a prefix of the commands, in order, all of them if execute() reports    *)
(* success; and the rows shown are the last row query's, run behind them.  *)
(***************************************************************************)
THEOREM ScriptRunsInOrder == Spec => []ExecutedInOrder
<1>1. OrderInv => ExecutedInOrder
      BY DEF OrderInv
<1>2. QED
      BY <1>1, OrderInvariant, PTL

-----------------------------------------------------------------------------
\* Statements of a kind among the first n.
KindUpTo(kind, n) == {p \in 1..n : script[p] = kind}
CountUpTo(kind, n) == Cardinality(KindUpTo(kind, n))

LEMMA CountIsNat ==
  ASSUME NEW kind, NEW n \in Nat
  PROVE  IsFiniteSet(KindUpTo(kind, n)) /\ CountUpTo(kind, n) \in Nat
<1>1. IsFiniteSet(1..n) /\ KindUpTo(kind, n) \in SUBSET (1..n)
      BY FS_Interval DEF KindUpTo
<1>2. IsFiniteSet(KindUpTo(kind, n))
      BY <1>1, FS_Subset
<1>3. QED
      BY <1>2, FS_CardinalityType DEF CountUpTo

\* One more statement counts one more, if it is of the kind.
LEMMA CountNext ==
  ASSUME NEW kind, NEW n \in Nat \ {0}
  PROVE  CountUpTo(kind, n) = CountUpTo(kind, n - 1) + (IF script[n] = kind THEN 1 ELSE 0)
<1>1. n - 1 \in Nat /\ n \notin KindUpTo(kind, n - 1)
      BY DEF KindUpTo
<1>2. IsFiniteSet(KindUpTo(kind, n - 1)) /\ CountUpTo(kind, n - 1) \in Nat
      BY <1>1, CountIsNat
<1>3. CASE script[n] = kind
  <2>1. KindUpTo(kind, n) = KindUpTo(kind, n - 1) \cup {n}
        BY <1>3 DEF KindUpTo
  <2>2. Cardinality(KindUpTo(kind, n - 1) \cup {n}) = Cardinality(KindUpTo(kind, n - 1)) + 1
        BY <1>1, <1>2, FS_AddElement
  <2>3. QED
        BY <1>3, <2>1, <2>2 DEF CountUpTo
<1>4. CASE script[n] # kind
  <2>1. KindUpTo(kind, n) = KindUpTo(kind, n - 1)
        BY <1>4 DEF KindUpTo
  <2>2. QED
        BY <1>2, <1>4, <2>1 DEF CountUpTo
<1>5. QED
      BY <1>3, <1>4

(***************************************************************************)
(* AffectedRowsCovered speaks of the end of a script; on the way there the *)
(* same bounds hold for the part of it that the loop has left behind.      *)
(***************************************************************************)
CountedSoFar ==
  outcome \in {"none", "ok"} =>
    /\ affected_rows >= changed
    /\ affected_rows <= changed + MaxRows * CountUpTo("other", pos - 1)

\* A command adds to affected_rows the rows it changed, or for DDL what was left.
LEMMA CommandKeepsCount ==
  ASSUME OrderInv, CountedSoFar, NEW rc \in Returned, RunStatement(rc), outcome' = "none"
  PROVE  CountedSoFar'
<1> USE DEF OrderInv, Running, InLoop, request
<1> DEFINE k == CountUpTo("other", pos - 1)
           next == CountUpTo("other", pos)
<1>t. /\ pos \in Nat \ {0} /\ affected_rows \in Nat /\ changes \in 0..MaxRows
      /\ changed \in Nat /\ MaxRows \in Nat
      BY ScriptAssumption DEF ScriptInv, TypeOK
<1>1. /\ outcome = "none" /\ pos' = pos + 1 /\ script' = script
      /\ affected_rows' = affected_rows + changes'
      /\ changes' \in ChangesAfter(script[pos])
      /\ changed' = changed + IF script[pos] = "write" THEN changes' ELSE 0
      /\ script[pos] \in CommandKinds
      BY DEF RunStatement, StatementFails, Report, Affected, Advance, Engine
<1>2. next = k + (IF script[pos] = "other" THEN 1 ELSE 0) /\ k \in Nat
      BY <1>t, CountNext, CountIsNat
<1>3. changes' \in 0..MaxRows /\ changes' \in Nat
      BY <1>t, <1>1 DEF ChangesAfter
<1>4. affected_rows >= changed /\ affected_rows <= changed + MaxRows * k
      BY <1>1 DEF CountedSoFar
<1>5. CountUpTo("other", pos - 1)' = next
  <2>1. pos' - 1 = pos
        BY <1>t, <1>1
  <2>2. QED
        BY <1>1, <2>1 DEF CountUpTo, KindUpTo
<1> HIDE DEF k, next
<1> DEFINE before == MaxRows * k
           after == MaxRows * next
<1>6. before \in Nat /\ after = before + IF script[pos] = "other" THEN MaxRows ELSE 0
  <2>1. \A m, n \in Nat : m * n \in Nat /\ m * (n + 1) = m * n + m
        OBVIOUS
  <2>2. before \in Nat /\ MaxRows * (k + 1) = before + MaxRows
        BY <1>t, <1>2, <2>1
  <2>3. next = k \/ next = k + 1
        BY <1>2
  <2>4. QED
        BY <1>t, <1>2, <2>2, <2>3
<1>7. affected_rows >= changed /\ affected_rows <= changed + before
      BY <1>4
<1> HIDE DEF before, after
<1>8. affected_rows' >= changed' /\ affected_rows' <= changed' + after
  <2>1. \A rows, total, bound, count \in Nat :
           (rows >= total /\ rows <= total + bound)
             => /\ rows + count >= total + count
                /\ rows + count <= (total + count) + bound
                /\ rows + count >= total
                /\ count <= MaxRows => rows + count <= total + (bound + MaxRows)
        BY <1>t
  <2>2. affected_rows \in Nat /\ changed \in Nat /\ before \in Nat /\ changes' \in Nat
        BY <1>t, <1>3, <1>6
  <2>3. /\ affected_rows + changes' >= changed + changes'
        /\ affected_rows + changes' <= (changed + changes') + before
        /\ affected_rows + changes' >= changed
        /\ affected_rows + changes' <= changed + (before + MaxRows)
    <3>1. changes' <= MaxRows
          BY <1>t, <1>3
    <3>2. QED
          BY <1>7, <2>1, <2>2, <3>1, Zenon
  <2>4. CASE script[pos] = "write"
    <3>1. affected_rows' = affected_rows + changes' /\ changed' = changed + changes'
          BY <1>1, <2>4
    <3>2. after = before
          BY <1>6, <2>2, <2>4
    <3>3. QED
          BY <2>3, <3>1, <3>2, Zenon
  <2>5. CASE script[pos] = "other"
    <3>1. affected_rows' = affected_rows + changes' /\ changed' = changed
          BY <1>1, <2>2, <2>5
    <3>2. after = before + MaxRows
          BY <1>6, <2>5
    <3>3. QED
          BY <2>3, <3>1, <3>2, Zenon
  <2>6. QED
        BY <1>1, <2>4, <2>5 DEF CommandKinds
<1>9. QED
      BY <1>5, <1>8 DEF CountedSoFar, after

\* The other statements of the loop are not counted, and nothing is counted after it.
LEMMA OthersKeepCount ==
  ASSUME OrderInv, CountedSoFar, [Next]_vars,
         ~ \E rc \in Returned : RunStatement(rc) /\ outcome' = "none"
  PROVE  CountedSoFar'
<1> USE DEF OrderInv, Running, InLoop, LoopIsOver, request, loop, database
<1>t. pos \in Nat \ {0} /\ affected_rows \in Nat /\ changed \in Nat
      BY DEF ScriptInv, TypeOK
<1>same. ASSUME UNCHANGED <<script, pos, affected_rows, changed>>, outcome \in {"none", "ok"}
         PROVE  CountedSoFar'
         BY <1>same DEF CountedSoFar, CountUpTo, KindUpTo
<1>1. CASE DeferRowQuery \/ SkipEmpty
  <2>1. /\ pos' = pos + 1 /\ outcome = "none" /\ UNCHANGED <<script, affected_rows, changed>>
        /\ script[pos] # "other"
        BY <1>1 DEF DeferRowQuery, SkipEmpty, Advance, RowKinds
  <2>2. CountUpTo("other", pos) = CountUpTo("other", pos - 1)
        BY <1>t, <2>1, CountNext, CountIsNat
  <2>3. \A kind : CountUpTo(kind, pos - 1)' = CountUpTo(kind, pos)
    <3>1. pos' - 1 = pos
          BY <1>t, <2>1
    <3>2. QED
          BY <2>1, <3>1 DEF CountUpTo, KindUpTo
  <2>4. QED
        BY <2>1, <2>2, <2>3 DEF CountedSoFar
<1>2. ASSUME NEW rc \in Returned, RunStatement(rc), outcome' # "none"
      PROVE  CountedSoFar'
      BY <1>2 DEF RunStatement, Report, CountedSoFar
<1>3. CASE \/ RequestStop \/ PrepareFails \/ EmptyScript \/ WithoutRows \/ RowQueryPrepareFails
  <2>1. UNCHANGED <<script, pos, affected_rows, changed>> /\ outcome \in {"none", "ok"}
        BY <1>3 DEF RequestStop, PrepareFails, EmptyScript, WithoutRows, RowQueryPrepareFails
  <2>2. QED
        BY <2>1, <1>same
<1>4. CASE FetchPage \/ \E rc \in Returned : RunRowQuery(rc)
  <2>1. UNCHANGED <<script, pos, affected_rows>> /\ outcome \in {"none", "ok"}
        BY <1>4 DEF RunRowQuery, FetchPage
  <2>2. \/ UNCHANGED database
        \/ row_query # 0 /\ Engine("done", row_query)
        BY <1>4 DEF RunRowQuery, FetchPage, Engine, ScriptInv, PagedIsSelect
  <2>3. changed' = changed
    <3>1. row_query # 0 => script[row_query] # "write"
          BY DEF ScriptInv, RowQueryKept, IsRowQuery, RowKinds
    <3>2. QED
          BY <1>t, <2>2, <3>1 DEF Engine
  <2>4. QED
        BY <2>1, <2>3, <1>same
<1>5. CASE UNCHANGED vars
  <2>1. UNCHANGED <<script, pos, affected_rows, outcome, changed>>
        BY <1>5 DEF vars
  <2>2. QED
        BY <2>1 DEF CountedSoFar, CountUpTo, KindUpTo
<1>6. QED
      BY <1>1, <1>2, <1>3, <1>4, <1>5 DEF Next, Execute, Returns

(***************************************************************************)
(* For scripts of any length: the rows that execute() reports are at least *)
(* those its commands changed, and the count of one write too many at most *)
(* for each of them that is no INSERT, UPDATE or DELETE.                   *)
(***************************************************************************)
THEOREM AffectedRowsBounded == Spec => []AffectedRowsCovered
<1>1. Init => CountedSoFar
  <2> SUFFICES ASSUME Init
               PROVE  CountedSoFar
      OBVIOUS
  <2>1. KindUpTo("other", pos - 1) = {}
        BY DEF Init, KindUpTo
  <2>2. CountUpTo("other", pos - 1) = 0
        BY <2>1, FS_EmptySet DEF CountUpTo
  <2>3. affected_rows = 0 /\ changed = 0 /\ MaxRows * 0 = 0
        BY ScriptAssumption DEF Init
  <2>4. QED
        BY <2>2, <2>3 DEF CountedSoFar
<1>2. OrderInv /\ CountedSoFar /\ [Next]_vars => CountedSoFar'
      BY CommandKeepsCount, OthersKeepCount
<1>3. OrderInv /\ CountedSoFar => AffectedRowsCovered
  <2> SUFFICES ASSUME OrderInv, CountedSoFar, outcome = "ok"
               PROVE  /\ affected_rows >= changed
                      /\ affected_rows <= changed + MaxRows * CountOf("other")
      BY DEF AffectedRowsCovered
  <2>1. pos - 1 = Len(script)
        BY DEF OrderInv, NothingLeftBehind, ScriptInv, TypeOK
  <2>2. CountUpTo("other", pos - 1) = CountOf("other")
        BY <2>1 DEF CountUpTo, KindUpTo, CountOf
  <2>3. QED
        BY <2>2 DEF CountedSoFar
<1>4. QED
      BY <1>1, <1>2, <1>3, OrderInvariant, PTL DEF Spec

-----------------------------------------------------------------------------
\* PostgresDatabase::execute and its cursor.

(***************************************************************************)
(* Until it answers nothing has taken effect; a cursor stands for a text   *)
(* that is one query, and its pages repeat only that.                      *)
(***************************************************************************)
Request == /\ text \in Seq(PgKinds)
           /\ explain \in BOOLEAN
           /\ remark \in BOOLEAN
           /\ described \in BOOLEAN
           /\ pages \in BOOLEAN
           /\ answer \in {"none", "ok", "error", "cancelled", "crashed"}
           /\ affected \in {0, 1}

CursorIsOfOneQuery ==
  /\ described => /\ ~explain
                  /\ Len(text) = 1
                  /\ First \in {"select", "calls"}
  /\ pages => described /\ answer = "ok"

Effects ==
  /\ effects \in Seq(1..Len(text))
  /\ answer \in {"none", "cancelled"} => effects = <<>>
  /\ (answer \in {"error", "crashed"} /\ effects # <<>>) =>
        \/ ~explain /\ LastKind \in TupleKinds /\ ~TakenForRows
        \/ explain /\ Len(text) > 1
  /\ answer = "ok" /\ explain => effects = From(2) /\ (Len(text) > 1 => LastKind \in TupleKinds)
  /\ answer = "ok" /\ ~explain /\ ~pages => effects = From(1)
  /\ pages => effects \in Seq({1}) /\ effects # <<>>

PgInv == Request /\ CursorIsOfOneQuery /\ Effects

-----------------------------------------------------------------------------
LEMMA FromIsOfText ==
  ASSUME text \in Seq(PgKinds), NEW n \in {1, 2}
  PROVE  /\ From(n) \in Seq(1..Len(text))
         /\ Len(text) <= 1 /\ n = 2 => From(n) = <<>>
<1>1. Len(text) \in Nat
  BY LenProperties
<1> QED BY <1>1 DEF From

LEMMA NothingBefore ==
  ASSUME NEW S, NEW q \in Seq(S)
  PROVE  <<>> \o q = q
BY ConcatEmptySeq

LEMMA InitEstablishesPg == PgInit => PgInv
<1> SUFFICES ASSUME PgInit PROVE PgInv
    OBVIOUS
<1>1. text \in Seq(PgKinds)
  BY PostgresAssumption DEF PgInit, SeqOf
<1>2. described = FALSE /\ pages = FALSE /\ answer = "none" /\ affected = 0 /\ effects = <<>>
  BY DEF PgInit
<1>3. explain \in BOOLEAN /\ remark \in BOOLEAN
  BY DEF PgInit
<1>4. effects \in Seq(1..Len(text))
  BY <1>2
<1> QED BY <1>1, <1>2, <1>3, <1>4 DEF PgInv, Request, CursorIsOfOneQuery, Effects

LEMMA ExplainKeepsPg ==
  ASSUME PgInv, NEW rc \in Results, ExecuteExplain(rc)
  PROVE  PgInv'
<1> USE DEF PgInv, asked
<1>1. /\ answer = "none" /\ effects = <<>> /\ explain /\ ~described /\ ~pages
      /\ UNCHANGED <<text, explain, remark, described, pages, affected>>
  BY DEF ExecuteExplain, Executing, CursorIsOfOneQuery, Effects, Request
<1>2. Len(text) \in Nat /\ text \in Seq(PgKinds)
  BY LenProperties DEF Request
<1>3. effects' \in Seq(1..Len(text)) /\ (Len(text) <= 1 => effects' = <<>>)
  <2>1. From(2) \in Seq(1..Len(text)) /\ (Len(text) <= 1 => From(2) = <<>>)
    BY <1>2, FromIsOfText
  <2>2. effects' = IF rc = "done" THEN From(2) ELSE <<>>
    BY <1>1, <2>1, NothingBefore DEF ExecuteExplain, PQexec
  <2>3. CASE rc = "done"
    BY <2>1, <2>2, <2>3
  <2>4. CASE rc # "done"
    <3>1. effects' = <<>>
      BY <2>2, <2>4
    <3> QED BY <3>1
  <2> QED BY <2>3, <2>4
<1>4. answer' \in {"ok", "error", "crashed"}
  BY DEF ExecuteExplain, ExplainAnswers
<1>5. answer' = "ok" => effects' = From(2) /\ (Len(text) > 1 => LastKind \in TupleKinds)
  <2> SUFFICES ASSUME answer' = "ok"
               PROVE  effects' = From(2) /\ (Len(text) > 1 => LastKind \in TupleKinds)
    OBVIOUS
  <2>1. rc = "done" /\ \E cell \in FirstCells : answer' \in ExplainAnswers(cell)
    BY DEF ExecuteExplain
  <2>2. PICK cell \in FirstCells : answer' \in ExplainAnswers(cell)
    BY <2>1
  <2>3. cell = "plan"
    BY <2>2 DEF ExplainAnswers
  <2>4. Len(text) > 1 => LastKind \in TupleKinds
    <3>1. Len(text) # 1 /\ LastKind \notin TupleKinds => FirstCells = {"status"}
      BY DEF FirstCells, TupleKinds
    <3>2. \A n \in Nat : n > 1 => n # 1
      OBVIOUS
    <3>3. "plan" \notin {"status"}
      OBVIOUS
    <3> QED BY <1>2, <2>2, <2>3, <3>1, <3>2, <3>3, Zenon
  <2>5. From(2) \in Seq(1..Len(text)) /\ effects' = <<>> \o From(2)
    BY <1>1, <1>2, <2>1, FromIsOfText DEF ExecuteExplain, PQexec
  <2>6. effects' = From(2)
    BY <2>5, NothingBefore
  <2> QED BY <2>4, <2>6
<1>6. Request' /\ CursorIsOfOneQuery'
  BY <1>1, <1>4 DEF Request, CursorIsOfOneQuery
<1>7. Effects'
  <2>1. effects' # <<>> => explain' /\ Len(text') > 1
    BY <1>1, <1>2, <1>3
  <2>2. answer' = "ok" => effects' = From(2)' /\ (Len(text') > 1 => LastKind' \in TupleKinds)
    BY <1>1, <1>5 DEF From, LastKind
  <2> QED BY <1>1, <1>3, <1>4, <2>1, <2>2 DEF Effects
<1> QED BY <1>6, <1>7

LEMMA DescribeKeepsPg ==
  ASSUME PgInv, NEW rc \in Results, Describe(rc)
  PROVE  PgInv'
<1> USE DEF PgInv, asked
<1>1. /\ answer = "none" /\ effects = <<>> /\ ~explain /\ TakenForRows
      /\ UNCHANGED <<text, explain, remark, pages, affected, effects>>
      /\ ~pages
  BY DEF Describe, Executing, CursorIsOfOneQuery, Effects, Request
<1>2. Request'
  BY <1>1 DEF Request, Describe
<1>3. CursorIsOfOneQuery'
  BY <1>1 DEF Describe, CursorIsOfOneQuery, FitsSubquery, TakenForRows, First
<1>4. answer' \in {"none", "error"}
  BY <1>1 DEF Describe
<1>5. Effects'
  BY <1>1, <1>4 DEF Effects
<1> QED BY <1>2, <1>3, <1>5

LEMMA CountKeepsPg ==
  ASSUME PgInv, NEW rc \in Results, Count(rc)
  PROVE  PgInv'
<1> USE DEF PgInv, asked
<1>1. /\ answer = "none" /\ effects = <<>> /\ described /\ ~explain /\ Len(text) = 1
      /\ UNCHANGED <<text, explain, remark, described, affected>>
  BY DEF Count, Executing, CursorIsOfOneQuery, Effects, Request
<1>2. effects' = IF rc = "done" THEN <<1>> ELSE <<>>
  BY <1>1 DEF Count, PQexec
<1>3. /\ pages' = (rc = "done")
      /\ answer' = IF rc = "done" THEN "ok" ELSE "error"
  BY DEF Count
<1>4. Request'
  BY <1>1, <1>3 DEF Request
<1>5. CursorIsOfOneQuery'
  BY <1>1, <1>3 DEF CursorIsOfOneQuery, First
<1>6. effects' \in Seq(1..Len(text))
  <2>1. CASE rc = "done"
    <3>1. effects' = <<1>> /\ 1 \in 1..Len(text)
      BY <1>1, <1>2, <2>1
    <3> QED BY <3>1
  <2>2. CASE rc # "done"
    <3>1. effects' = <<>>
      BY <1>2, <2>2
    <3> QED BY <3>1
  <2> QED BY <2>1, <2>2
<1>7. pages' => effects' \in Seq({1}) /\ effects' # <<>>
  <2> SUFFICES ASSUME pages' PROVE effects' \in Seq({1}) /\ effects' # <<>>
    OBVIOUS
  <2>1. effects' = <<1>>
    BY <1>2, <1>3
  <2> QED BY <2>1
<1>8. answer' = "error" => effects' = <<>>
  BY <1>2, <1>3
<1>9. Effects'
  BY <1>1, <1>3, <1>6, <1>7, <1>8 DEF Effects
<1> QED BY <1>4, <1>5, <1>9

LEMMA FetchKeepsPg ==
  ASSUME PgInv, NEW rc \in Results, FetchPostgresPage(rc)
  PROVE  PgInv'
<1> USE DEF PgInv, asked
<1>1. /\ answer = "ok" /\ described /\ pages /\ ~explain /\ Len(text) = 1
      /\ UNCHANGED <<text, explain, remark, described, answer, pages, affected>>
  BY DEF FetchPostgresPage, CursorIsOfOneQuery
<1>2. effects' \in Seq({1}) /\ effects' # <<>>
  <2>1. effects \in Seq({1}) /\ effects # <<>>
    BY <1>1 DEF Effects
  <2>2. effects \o <<1>> \in Seq({1}) /\ effects \o <<1>> # <<>>
    BY <2>1
  <2> QED BY <2>1, <2>2 DEF FetchPostgresPage, PQexec
<1>3. effects' \in Seq(1..Len(text))
  BY <1>1, <1>2
<1>4. Request' /\ CursorIsOfOneQuery'
  BY <1>1 DEF Request, CursorIsOfOneQuery, First
<1>5. Effects'
  BY <1>1, <1>2, <1>3 DEF Effects
<1> QED BY <1>4, <1>5

LEMMA CommandKeepsPg ==
  ASSUME PgInv, NEW rc \in Results, ExecuteCommand(rc)
  PROVE  PgInv'
<1> USE DEF PgInv, asked
<1>1. /\ answer = "none" /\ effects = <<>> /\ ~explain /\ ~TakenForRows
      /\ UNCHANGED <<text, explain, remark, described, pages>>
      /\ ~pages
  BY DEF ExecuteCommand, Executing, CursorIsOfOneQuery, Effects, Request
<1>2. From(1) \in Seq(1..Len(text))
  BY FromIsOfText DEF Request
<1>3. effects' = IF rc = "done" THEN From(1) ELSE <<>>
  BY <1>1, <1>2, NothingBefore DEF ExecuteCommand, PQexec
<1>4. /\ answer' \in {"ok", "error", "cancelled"}
      /\ answer' = "cancelled" => rc = "cancelled"
      /\ answer' = "ok" => rc = "done"
      /\ answer' = "error" /\ rc = "done" => text = <<>> \/ LastKind \in TupleKinds
  BY DEF ExecuteCommand, CommandAnswer, StatusIsOk, Results
<1>5. text = <<>> => From(1) = <<>>
  BY DEF From
<1>6. Request'
  BY <1>1, <1>4 DEF Request, ExecuteCommand
<1>7. CursorIsOfOneQuery'
  BY <1>1 DEF CursorIsOfOneQuery, First
<1>8. Effects'
  BY <1>1, <1>2, <1>3, <1>4, <1>5 DEF Effects, LastKind, TakenForRows, First, From
<1> QED BY <1>6, <1>7, <1>8

LEMMA StillKeepsPg ==
  ASSUME PgInv, UNCHANGED pgVars
  PROVE  PgInv'
BY DEF pgVars, asked, PgInv, Request, CursorIsOfOneQuery, Effects, LastKind, TakenForRows, First, From

LEMMA NextKeepsPg == PgInv /\ [PgNext]_pgVars => PgInv'
BY ExplainKeepsPg, DescribeKeepsPg, CountKeepsPg, FetchKeepsPg, CommandKeepsPg, StillKeepsPg
   DEF PgNext, Answered

LEMMA PgInvariant == PgSpec => []PgInv
<1>1. PgInit => PgInv
  BY InitEstablishesPg
<1>2. PgInv /\ [PgNext]_pgVars => PgInv'
  BY NextKeepsPg
<1> QED BY <1>1, <1>2, PTL DEF PgSpec

-----------------------------------------------------------------------------
(***************************************************************************)
(* PgTypeOK: the type invariant of execute() and its cursor.               *)
(***************************************************************************)
THEOREM PostgresTyped == PgSpec => []PgTypeOK
<1>1. PgInv => PgTypeOK
  <2> SUFFICES ASSUME PgInv PROVE PgTypeOK
    OBVIOUS
  <2>1. {explain, remark, described, pages} \subseteq BOOLEAN
    BY DEF PgInv, Request
  <2> QED BY <2>1 DEF PgInv, Request, Effects, PgTypeOK
<1> QED BY <1>1, PgInvariant, PTL

(***************************************************************************)
(* FailureLeavesNothing: what execute() reports as cancelled has done      *)
(* nothing, and so has what it reports as an error or ends the program,    *)
(* but for unexpected rows and an EXPLAIN of several statements.           *)
(***************************************************************************)
THEOREM FailuresAreUndone == PgSpec => []FailureLeavesNothing
<1>1. PgInv => FailureLeavesNothing
  BY DEF PgInv, Effects, FailureLeavesNothing
<1> QED BY <1>1, PgInvariant, PTL

(***************************************************************************)
(* SuccessDidAll: what execute() reports as a success has run all of its   *)
(* text, once; an EXPLAIN all but the first statement, and if it has more  *)
(* than one, the last one returns rows.                                    *)
(***************************************************************************)
THEOREM SuccessesAreDone == PgSpec => []SuccessDidAll
<1>1. PgInv => SuccessDidAll
  <2> SUFFICES ASSUME PgInv, answer = "ok" PROVE SuccessDidAll
    BY DEF SuccessDidAll
  <2>1. CASE explain
    <3>1. effects = From(2) /\ (Len(text) > 1 => LastKind \in TupleKinds)
      BY <2>1 DEF PgInv, Effects
    <3> QED BY <2>1, <3>1 DEF SuccessDidAll
  <2>2. CASE ~explain /\ ~pages
    BY <2>2 DEF PgInv, Effects, SuccessDidAll
  <2>3. CASE ~explain /\ pages
    <3>1. effects \in Seq({1}) /\ effects # <<>> /\ Len(text) = 1
      BY <2>3 DEF PgInv, CursorIsOfOneQuery, Effects
    <3>2. Range(effects) = {1}
      <4>1. DOMAIN effects = 1..Len(effects) /\ Len(effects) \in Nat \ {0}
        BY <3>1, EmptySeq, LenProperties
      <4>2. 1 \in DOMAIN effects /\ \A i \in DOMAIN effects : effects[i] = 1
        BY <3>1, <4>1, ElementOfSeq
      <4> QED BY <4>2 DEF Range
    <3> QED BY <2>3, <3>1, <3>2 DEF SuccessDidAll
  <2> QED BY <2>1, <2>2, <2>3 DEF PgInv, Request
<1> QED BY <1>1, PgInvariant, PTL

-----------------------------------------------------------------------------
\* Database::execute.

\* What was done before is what IsPrefix compares.
LEMMA LongerIsExtension ==
  ASSUME NEW S, NEW s \in Seq(S), NEW t \in Seq(S), Len(s) <= Len(t),
         \A i \in 1..Len(s) : s[i] = t[i]
  PROVE  IsPrefix(s, t)
<1>1. Len(s) \in Nat /\ Len(t) \in Nat
  BY LenProperties
<1>2. \A i \in 1..Len(s) : s[i] \in S /\ t[i] \in S
  BY <1>1, ElementOfSeq
<1>3. /\ SubSeq(s, 1, Len(s)) \in Seq(S) /\ SubSeq(t, 1, Len(s)) \in Seq(S)
      /\ Len(SubSeq(s, 1, Len(s))) = Len(s) /\ Len(SubSeq(t, 1, Len(s))) = Len(s)
      /\ \A i \in 1..Len(s) : SubSeq(s, 1, Len(s))[i] = s[i] /\ SubSeq(t, 1, Len(s))[i] = t[i]
  BY <1>1, <1>2
<1>4. SubSeq(s, 1, Len(s)) = SubSeq(t, 1, Len(s))
  BY <1>3, SeqEqual
<1> QED BY <1>4 DEF IsPrefix

LEMMA SameIsExtension ==
  ASSUME NEW S, NEW s \in Seq(S)
  PROVE  IsPrefix(s, s)
<1>1. Len(s) <= Len(s)
  BY LenProperties
<1> QED BY <1>1, LongerIsExtension

LEMMA RangeWithin ==
  ASSUME NEW S, NEW q \in Seq(S)
  PROVE  Range(q) \subseteq S
BY ElementOfSeq, LenProperties DEF Range

-----------------------------------------------------------------------------
(***************************************************************************)
(* The SQLite side.  Two statements of one position are never completed    *)
(* before the answer (Distinct), and a paged cursor reads what was run.    *)
(***************************************************************************)
PagedWasRun == cursor = "paged" => row_query \in Range(done)

SqliteInv == ScriptInv /\ PagedWasRun

LEMMA EngineKeepsOrder ==
  ASSUME TypeOK, NEW p \in 1..Len(script), NEW rc \in Returned, Engine(rc, p)
  PROVE  /\ done' \in Seq(1..Len(script))
         /\ IsPrefix(done, done')
         /\ rc = "done" => done' = Append(done, p) /\ p \in Range(done')
<1>1. done \in Seq(1..Len(script)) /\ Len(done) \in Nat
  BY LenProperties DEF TypeOK
<1>2. CASE rc = "done"
  <2>1. done' = Append(done, p)
    BY <1>2 DEF Engine
  <2>2. /\ done' \in Seq(1..Len(script)) /\ Len(done') = Len(done) + 1
        /\ \A i \in 1..Len(done) : done'[i] = done[i]
        /\ done'[Len(done) + 1] = p
    BY <1>1, <2>1, AppendElements
  <2>3. IsPrefix(done, done')
    BY <1>1, <2>2, LongerIsExtension
  <2>4. Len(done) + 1 \in DOMAIN done'
    BY <1>1, <2>2, LenProperties
  <2> QED BY <2>1, <2>2, <2>3, <2>4 DEF Range
<1>3. CASE rc # "done"
  BY <1>1, <1>3, SameIsExtension DEF Engine, database
<1> QED BY <1>2, <1>3

LEMMA SqliteInvInductive == SqliteInv /\ [Next]_vars => SqliteInv'
<1> SUFFICES ASSUME SqliteInv, [Next]_vars PROVE SqliteInv'
    OBVIOUS
<1>1. ScriptInv'
  BY ScriptInvInductive DEF SqliteInv
<1>2. PagedWasRun'
  <2>1. ASSUME NEW rc \in Returned, RunStatement(rc)
        PROVE  PagedWasRun'
    <3>1. cursor # "paged" /\ cursor' = cursor
      BY <2>1 DEF RunStatement, InLoop, Running, SqliteInv, ScriptInv, PagedIsSelect
    <3> QED BY <3>1 DEF PagedWasRun
  <2>2. ASSUME NEW rc \in Returned, RunRowQuery(rc)
        PROVE  PagedWasRun'
    <3>1. row_query \in 1..Len(script) /\ row_query' = row_query /\ cursor # "paged"
      BY <2>2 DEF RunRowQuery, LoopIsOver, Running, loop, SqliteInv, ScriptInv, TypeOK, PagedIsSelect
    <3>2. cursor' = "paged" => rc = "done"
      BY <2>2, <3>1 DEF RunRowQuery
    <3>3. rc = "done" => row_query \in Range(done')
      BY <2>2, <3>1, EngineKeepsOrder DEF RunRowQuery, SqliteInv, ScriptInv
    <3> QED BY <3>1, <3>2, <3>3 DEF PagedWasRun
  <2>3. CASE FetchPage
    <3>1. cursor' = cursor /\ row_query' = row_query
      BY <2>3 DEF FetchPage, loop
    <3>2. CASE cursor = "paged"
      <4>1. /\ row_query \in 1..Len(script) /\ "done" \in Returned
            /\ Engine("done", row_query) /\ TypeOK
        BY <2>3, <3>2 DEF FetchPage, SqliteInv, ScriptInv, TypeOK, PagedIsSelect, Returned
      <4>2. row_query \in Range(done')
        BY <4>1, EngineKeepsOrder
      <4> QED BY <3>1, <4>2 DEF PagedWasRun
    <3> QED BY <3>1, <3>2 DEF PagedWasRun
  <2>4. CASE RequestStop \/ SkipEmpty \/ PrepareFails \/ EmptyScript \/ WithoutRows
             \/ RowQueryPrepareFails \/ UNCHANGED vars
    <3>1. cursor' = cursor /\ row_query' = row_query /\ done' = done
      BY <2>4 DEF RequestStop, SkipEmpty, PrepareFails, EmptyScript, WithoutRows,
                  RowQueryPrepareFails, vars, loop, database
    <3> QED BY <3>1 DEF SqliteInv, PagedWasRun, Range
  <2>5. CASE DeferRowQuery
    <3>1. cursor # "paged" /\ cursor' = cursor
      BY <2>5 DEF DeferRowQuery, InLoop, Running, SqliteInv, ScriptInv, PagedIsSelect
    <3> QED BY <3>1 DEF PagedWasRun
  <2> QED BY <2>1, <2>2, <2>3, <2>4, <2>5 DEF Next, Execute, Returns
<1> QED BY <1>1, <1>2 DEF SqliteInv

(***************************************************************************)
(* What a step of execute() does to its answer and to the log.             *)
(***************************************************************************)
SqliteRuns == /\ outcome = "none"
              /\ outcome' \in {"none", "ok", "error", "cancelled"}
              /\ IsPrefix(done, done')
              /\ Range(done') \subseteq DOMAIN script
              /\ IsInjective(done')
              /\ script' = script
SqliteReads == /\ outcome = "ok"
               /\ \E p \in Range(done) : /\ script[p] = "select"
                                         /\ done' = Append(done, p)
               /\ script' = script /\ outcome' = outcome
SqliteRests == UNCHANGED <<script, outcome, done>>

LEMMA SqliteStep == SqliteInv /\ [Next]_vars => SqliteRuns \/ SqliteReads \/ SqliteRests
<1> SUFFICES ASSUME SqliteInv, [Next]_vars
             PROVE  SqliteRuns \/ SqliteReads \/ SqliteRests
    OBVIOUS
<1>1. CASE FetchPage
  <2>1. script' = script /\ outcome' = outcome /\ outcome = "ok"
    BY <1>1 DEF FetchPage, request
  <2>2. CASE cursor = "paged"
    <3>1. done' = Append(done, row_query)
      BY <1>1, <2>2 DEF FetchPage, Engine
    <3>2. row_query \in Range(done) /\ script[row_query] = "select"
      BY <2>2 DEF SqliteInv, ScriptInv, PagedWasRun, PagedIsSelect
    <3> QED BY <2>1, <3>1, <3>2 DEF SqliteReads
  <2>3. CASE cursor # "paged"
    BY <1>1, <2>1, <2>3 DEF FetchPage, SqliteRests, database
  <2> QED BY <2>2, <2>3
<1>2. CASE outcome = "none" /\ ~FetchPage
  <2>1. TypeOK /\ TypeOK' /\ script' = script /\ Len(script) \in Nat /\ DOMAIN script = 1..Len(script)
    <3>1. ScriptInv'
      BY ScriptInvInductive DEF SqliteInv
    <3>2. script' = script
      BY <1>2 DEF Next, Execute, Returns, RequestStop, PrepareFails, SkipEmpty, DeferRowQuery,
                  EmptyScript, WithoutRows, RowQueryPrepareFails, RunStatement, RunRowQuery,
                  request, vars
    <3> QED BY <3>1, <3>2, LenProperties DEF SqliteInv, ScriptInv, TypeOK
  <2>2. \/ done' = done
        \/ \E p \in 1..Len(script), rc \in Returned :
             Engine(rc, p) /\ rc = "done" /\ \A i \in 1..Len(done) : done[i] # p
    <3>1. ASSUME NEW rc \in Returned, RunStatement(rc), done' # done
          PROVE  \E p \in 1..Len(script), r \in Returned :
                   Engine(r, p) /\ r = "done" /\ \A i \in 1..Len(done) : done[i] # p
      <4>1. Engine(rc, pos) /\ pos \in 1..Len(script)
        BY <2>1, <3>1 DEF RunStatement, InLoop, TypeOK
      <4>2. rc = "done"
        BY <3>1, <4>1 DEF Engine, database
      <4>3. \A i \in 1..Len(done) : done[i] # pos
        <5>1. \A i \in 1..Len(done) : done[i] < pos /\ done[i] \in 1..Len(script)
          BY <1>2, <2>1, ElementOfSeq DEF SqliteInv, ScriptInv, BehindPos, TypeOK
        <5> QED BY <4>1, <5>1
      <4> QED BY <4>1, <4>2, <4>3
    <3>2. ASSUME NEW rc \in Returned, RunRowQuery(rc), done' # done
          PROVE  \E p \in 1..Len(script), r \in Returned :
                   Engine(r, p) /\ r = "done" /\ \A i \in 1..Len(done) : done[i] # p
      <4>1. Engine(rc, row_query) /\ row_query \in 1..Len(script) /\ row_query # 0
        BY <2>1, <3>2 DEF RunRowQuery, TypeOK
      <4>2. rc = "done"
        BY <3>2, <4>1 DEF Engine, database
      <4>3. \A i \in 1..Len(done) : done[i] # row_query
        BY <1>2, <4>1 DEF SqliteInv, ScriptInv, BehindPos, RowQueryKept, IsCommand, IsRowQuery,
                          CommandKinds, RowKinds
      <4> QED BY <4>1, <4>2, <4>3
    <3>3. CASE \/ RequestStop \/ PrepareFails \/ SkipEmpty \/ DeferRowQuery
               \/ EmptyScript \/ WithoutRows \/ RowQueryPrepareFails \/ UNCHANGED vars
      BY <3>3 DEF RequestStop, PrepareFails, SkipEmpty, DeferRowQuery, EmptyScript, WithoutRows,
                  RowQueryPrepareFails, vars, database
    <3> QED BY <1>2, <3>1, <3>2, <3>3 DEF Next, Execute, Returns
  <2>3. done \in Seq(1..Len(script)) /\ Len(done) \in Nat /\ DOMAIN done = 1..Len(done)
    BY <2>1, LenProperties DEF TypeOK
  <2>4. IsPrefix(done, done')
    BY <2>1, <2>2, <2>3, SameIsExtension, EngineKeepsOrder
  <2>5. Range(done') \subseteq DOMAIN script
    <3>1. done' \in Seq(1..Len(script))
      BY <2>1 DEF TypeOK
    <3> QED BY <2>1, <3>1, RangeWithin
  <2>6. IsInjective(done')
    <3>1. \A i, j \in 1..Len(done) : done[i] = done[j] => i = j
      BY <1>2 DEF SqliteInv, ScriptInv, Distinct
    <3>2. CASE done' = done
      BY <2>3, <3>1, <3>2 DEF IsInjective
    <3>3. ASSUME NEW p \in 1..Len(script), NEW rc \in Returned, Engine(rc, p), rc = "done",
                 \A i \in 1..Len(done) : done[i] # p
          PROVE  IsInjective(done')
      <4>1. /\ Len(done') = Len(done) + 1 /\ done' \in Seq(1..Len(script))
            /\ \A i \in 1..Len(done) : done'[i] = done[i]
            /\ done'[Len(done) + 1] = p
        BY <2>1, <3>3, EngineLog
      <4>2. DOMAIN done' = 1..(Len(done) + 1)
        BY <4>1, LenProperties
      <4>3. ASSUME NEW i \in 1..(Len(done) + 1), NEW j \in 1..(Len(done) + 1), done'[i] = done'[j]
            PROVE  i = j
        BY <2>3, <3>1, <3>3, <4>1, <4>3
      <4> QED BY <4>2, <4>3 DEF IsInjective
    <3> QED BY <2>2, <3>2, <3>3
  <2>7. outcome' \in {"none", "ok", "error", "cancelled"}
    BY <2>1 DEF TypeOK
  <2> QED BY <1>2, <2>1, <2>4, <2>5, <2>6, <2>7 DEF SqliteRuns
<1>3. CASE outcome # "none" /\ ~FetchPage
  BY <1>3 DEF Next, Execute, Returns, RequestStop, PrepareFails, SkipEmpty, DeferRowQuery,
              EmptyScript, WithoutRows, RowQueryPrepareFails, RunStatement, RunRowQuery,
              InLoop, LoopIsOver, Running, request, vars, database, SqliteRests
<1> QED BY <1>1, <1>2, <1>3

-----------------------------------------------------------------------------
(***************************************************************************)
(* The PostgreSQL side.  All of a text takes effect at once, or from its   *)
(* second statement on, or its only one for a cursor.                      *)
(***************************************************************************)
PostgresRuns == /\ answer = "none"
                /\ Reported' \in {"none", "ok", "error", "cancelled"}
                /\ IsPrefix(effects, effects')
                /\ Range(effects') \subseteq DOMAIN text
                /\ IsInjective(effects')
                /\ text' = text
PostgresReads == /\ answer = "ok"
                 /\ \E p \in Range(effects) : /\ text[p] \in {"select", "calls"}
                                              /\ effects' = Append(effects, p)
                 /\ text' = text /\ answer' = answer
PostgresRests == UNCHANGED <<text, answer, effects>>

LEMMA FromIsInjective ==
  ASSUME text \in Seq(PgKinds), NEW n \in {1, 2}
  PROVE  IsInjective(From(n))
<1>1. Len(text) \in Nat
  BY LenProperties
<1> QED BY <1>1 DEF From, IsInjective

LEMMA EmptyIsPrefix ==
  ASSUME NEW S, NEW q \in Seq(S)
  PROVE  IsPrefix(<<>>, q)
<1>1. <<>> \in Seq(S) /\ Len(<<>>) = 0 /\ Len(<<>>) <= Len(q)
  BY LenProperties
<1>2. \A i \in 1..Len(<<>>) : <<>>[i] = q[i]
  BY <1>1
<1> QED BY <1>1, <1>2, LongerIsExtension, Zenon

LEMMA PostgresStep == PgInv /\ [PgNext]_pgVars => PostgresRuns \/ PostgresReads \/ PostgresRests
<1> SUFFICES ASSUME PgInv, [PgNext]_pgVars
             PROVE  PostgresRuns \/ PostgresReads \/ PostgresRests
    OBVIOUS
<1>0. PgInv' /\ text' = text
  <2>1. PgInv'
    BY NextKeepsPg
  <2> QED BY <2>1 DEF PgNext, ExecuteExplain, ExecuteCommand, Describe, Count,
                      FetchPostgresPage, Answered, pgVars, asked
<1>1. text \in Seq(PgKinds) /\ Len(text) \in Nat /\ DOMAIN text = 1..Len(text)
  BY LenProperties DEF PgInv, Request
<1>2. ASSUME NEW rc \in Results, FetchPostgresPage(rc)
      PROVE  PostgresReads \/ PostgresRests
  <2>1. /\ answer = "ok" /\ answer' = answer
        /\ effects \in Seq({1}) /\ effects # <<>>
        /\ Len(text) = 1 /\ First \in {"select", "calls"}
    BY <1>2 DEF FetchPostgresPage, PgInv, CursorIsOfOneQuery, Effects
  <2>2. CASE rc = "done"
    <3>1. 1 \in Range(effects)
      <4>1. Len(effects) \in Nat \ {0} /\ DOMAIN effects = 1..Len(effects)
        BY <2>1, EmptySeq, LenProperties
      <4>2. 1 \in DOMAIN effects /\ effects[1] = 1
        BY <2>1, <4>1, ElementOfSeq
      <4> QED BY <4>2 DEF Range
    <3>2. effects' = Append(effects, 1)
      BY <1>2, <2>1, <2>2 DEF FetchPostgresPage, PQexec
    <3>3. text[1] \in {"select", "calls"}
      BY <1>1, <2>1 DEF First
    <3> QED BY <1>0, <2>1, <3>1, <3>2, <3>3 DEF PostgresReads
  <2>3. CASE rc # "done"
    BY <1>0, <1>2, <2>1, <2>3 DEF FetchPostgresPage, PQexec, PostgresRests
  <2> QED BY <2>2, <2>3
<1>3. ASSUME NEW rc \in Results,
             ExecuteExplain(rc) \/ ExecuteCommand(rc) \/ Describe(rc) \/ Count(rc)
      PROVE  PostgresRuns
  <2>1. answer = "none" /\ effects = <<>>
    BY <1>3 DEF ExecuteExplain, ExecuteCommand, Describe, Count, Executing, PgInv, Effects
  <2>2. /\ effects' \in Seq(1..Len(text))
        /\ Reported' \in {"none", "ok", "error", "cancelled"}
    BY <1>0 DEF PgInv, Request, Effects, Reported
  <2>3. IsPrefix(effects, effects') /\ Range(effects') \subseteq DOMAIN text
    BY <1>1, <2>1, <2>2, EmptyIsPrefix, RangeWithin
  <2>4. \/ effects' = <<>> \/ effects' = <<1>>
        \/ \E n \in {1, 2} : effects' = From(n)
    BY <1>1, <1>3, <2>1, FromIsOfText, NothingBefore
       DEF ExecuteExplain, ExecuteCommand, Describe, Count, PQexec
  <2>5. IsInjective(effects')
    BY <1>1, <2>4, FromIsInjective DEF IsInjective
  <2> QED BY <1>0, <2>1, <2>2, <2>3, <2>5 DEF PostgresRuns
<1>4. CASE Answered \/ UNCHANGED pgVars
  BY <1>4 DEF Answered, pgVars, asked, PostgresRests
<1> QED BY <1>2, <1>3, <1>4 DEF PgNext

-----------------------------------------------------------------------------
\* A session is one of the two; what the other has never moves.
SessionInv == engine \in {"sqlite", "postgres"} /\ SqliteInv /\ PgInv

LEMMA SessionInvariant == SessionSpec => []SessionInv
<1>1. CreateSession => SessionInv
  <2> SUFFICES ASSUME CreateSession PROVE SessionInv
    OBVIOUS
  <2>1. Init /\ PgInit /\ engine \in {"sqlite", "postgres"}
    BY DEF CreateSession, NoSqlite, NoPostgres
  <2>2. PagedWasRun
    BY <2>1 DEF Init, PagedWasRun
  <2> QED BY <2>1, <2>2, ScriptInvInit, InitEstablishesPg DEF SessionInv, SqliteInv
<1>2. SessionInv /\ [SessionNext]_session => SessionInv'
  <2> SUFFICES ASSUME SessionInv, [SessionNext]_session PROVE SessionInv'
    OBVIOUS
  <2>1. [Next]_vars /\ [PgNext]_pgVars /\ engine' = engine
    BY DEF SessionNext, SqliteExecute, PostgresExecute, session
  <2>2. SqliteInv'
    BY <2>1, SqliteInvInductive DEF SessionInv
  <2>3. PgInv'
    BY <2>1, NextKeepsPg DEF SessionInv
  <2> QED BY <2>1, <2>2, <2>3 DEF SessionInv
<1> QED BY <1>1, <1>2, PTL DEF SessionSpec

LEMMA SessionStep ==
  SessionInv /\ [SessionNext]_session => [Promise!Next]_(Promise!vars)
<1> SUFFICES ASSUME SessionInv, [SessionNext]_session
             PROVE  [Promise!Next]_(Promise!vars)
    OBVIOUS
<1>1. CASE engine = "sqlite"
  <2>1. engine' = "sqlite" /\ [Next]_vars
    BY <1>1 DEF SessionNext, SqliteExecute, PostgresExecute, session
  <2>2. SqliteRuns \/ SqliteReads \/ SqliteRests
    BY <2>1, SqliteStep DEF SessionInv
  <2>3. SqliteRuns => Promise!Execute
    BY <1>1, <2>1 DEF SqliteRuns, Promise!Execute, Of, Promise!IsPrefix, IsPrefix,
                       Promise!Range, Range, Promise!IsInjective, IsInjective
  <2>4. SqliteReads => Promise!ReadAgain
    BY <1>1, <2>1 DEF SqliteReads, Promise!ReadAgain, Of, Promise!Range, Range
  <2>5. SqliteRests => UNCHANGED Promise!vars
    BY <1>1, <2>1 DEF SqliteRests, Promise!vars, Of
  <2> QED BY <2>2, <2>3, <2>4, <2>5 DEF Promise!Next
<1>2. CASE engine = "postgres"
  <2>1. engine' = "postgres" /\ [PgNext]_pgVars
    BY <1>2 DEF SessionNext, SqliteExecute, PostgresExecute, session
  <2>2. PostgresRuns \/ PostgresReads \/ PostgresRests
    BY <2>1, PostgresStep DEF SessionInv
  <2>3. PostgresRuns => Promise!Execute
    BY <1>2, <2>1 DEF PostgresRuns, Promise!Execute, Of, Reported, Promise!IsPrefix, IsPrefix,
                       Promise!Range, Range, Promise!IsInjective, IsInjective
  <2>4. PostgresReads => Promise!ReadAgain
    BY <1>2, <2>1 DEF PostgresReads, Promise!ReadAgain, Of, Reported, Promise!Range, Range
  <2>5. PostgresRests => UNCHANGED Promise!vars
    BY <1>2, <2>1 DEF PostgresRests, Promise!vars, Of, Reported
  <2> QED BY <2>2, <2>3, <2>4, <2>5 DEF Promise!Next
<1> QED BY <1>1, <1>2 DEF SessionInv

(***************************************************************************)
(* Each engine's execute() keeps the promise of the ledger: statements at  *)
(* most once before one answer, and after it nothing but the query whose   *)
(* pages are shown.                                                        *)
(***************************************************************************)
THEOREM ExecuteKeepsItsPromise == SessionSpec => ImplementsExecutionLedger
<1>1. CreateSession => Promise!Init
  BY DEF CreateSession, NoSqlite, NoPostgres, Init, PgInit, Promise!Init, Of, Reported
<1>2. SessionInv /\ [SessionNext]_session => [Promise!Next]_(Promise!vars)
  BY SessionStep
<1> QED BY <1>1, <1>2, SessionInvariant, PTL
       DEF SessionSpec, ImplementsExecutionLedger, Promise!Spec
=============================================================================
