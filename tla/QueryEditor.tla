----------------------------- MODULE QueryEditor -----------------------------
(***************************************************************************)
(* ui/QueryEditorPane.cpp and the way of a text through ui/MainWindow.cpp: *)
(* from the editor, its selection or the history, by way of the question   *)
(* before a dangerous write, to the query service, and the place of an     *)
(* error on its way back.  One thread does all of it; each action is one   *)
(* input of the user, or the poll that finds an answer.                    *)
(***************************************************************************)
EXTENDS SqlText, FiniteSets

CONSTANTS
  Alphabet,    \* the atoms that are typed
  MaxLength,   \* bound on the text typed
  Texts,       \* the texts that are run, whole or in parts
  HistoryCap,  \* entries kept (the code: 50)
  None

ASSUME EditorAssumption == /\ Alphabet \subseteq Blanks \cup Quotes \cup Marks \cup Fragments
                           /\ MaxLength \in Nat
                           /\ Texts \subseteq SeqOf(Alphabet, MaxLength)
                           /\ HistoryCap \in Nat \ {0}
                           /\ None \notin Seq(Alphabet)

VARIABLES
  buffer,     \* the text in the editor
  selection,  \* selection_start_ and selection_end_
  history,    \* query_history_, newest first
  connected,  \* is there a database_?
  pending,    \* pending_sql_ while the question is open, None otherwise
  request,    \* the active query, None when there is none
  error       \* last_error_: None, a plain one, or one with a location

vars == <<buffer, selection, history, connected, pending, request, error>>

(***************************************************************************)
(* A text on its way also carries where it comes from: the text in the     *)
(* editor then, and the offset in it.                                      *)
(***************************************************************************)
Part(first, last) ==
  [sql |-> SubSeq(buffer, first + 1, last), text |-> buffer, offset |-> first]
Whole == Part(0, Len(buffer))

Plain == [shown |-> None]
Asking == pending # None
Running == request # None

\* The user has deleted the text that the editor starts with.
Init == /\ buffer = <<>>
        /\ selection = <<0, 0>>
        /\ history = <<>>
        /\ connected = FALSE
        /\ pending = None
        /\ request = None
        /\ error = None

-----------------------------------------------------------------------------
\* The editor.  A modal question keeps all input away from it.

\* The last bytes of a letter follow its first.
Continues(atom) == atom = "trail" => /\ buffer # <<>>
                                     /\ Last(buffer) \in {"x", "trail"}

\* A text is typed atom by atom until it is one that is run, then replaced.
Type ==
  /\ ~Asking
  /\ \/ /\ history = <<>> /\ ~connected /\ error = None
        /\ Len(buffer) < MaxLength
        /\ \E atom \in Alphabet : /\ Continues(atom)
                                /\ buffer' = Append(buffer, atom)
     \/ \E text \in Texts : buffer' = text
  /\ selection' = <<Len(buffer'), Len(buffer')>>
  /\ UNCHANGED <<history, connected, pending, request, error>>

\* The buttons are used on the texts that are run, and on those of the history.
Ready == ~Asking /\ buffer \in Texts \cup Range(history)

\* The offsets that no letter is divided by.
Boundaries(sql) == {i \in 0..Len(sql) : At(sql, i + 1) # "trail"}

Select ==
  /\ Ready
  /\ \E from, to \in Boundaries(buffer) : selection' = <<from, to>>
  /\ UNCHANGED <<buffer, history, connected, pending, request, error>>

\* Mutant: the selection of the text before stays.
SelectionKept == selection

\* QueryEditorPane, lines 27-28.
SelectionReset == <<0, 0>>

\* QueryEditorPane, lines 22-32: also while a query runs.
LoadFromHistory ==
  /\ ~Asking
  /\ \E i \in DOMAIN history : buffer' = history[i]
  /\ selection' = SelectionReset
  /\ UNCHANGED <<history, connected, pending, request, error>>

has_selection == selection[1] # selection[2]

\* QueryEditorPane, lines 120-130: minmax, because a selection may run backwards.
selected_text == Part(Min(Range(selection)), Max(Range(selection)))

-----------------------------------------------------------------------------
\* submit_query and enqueue_query.

\* Mutant: every run is remembered, the same text as well.
RememberAlways(sql) == SubSeq(<<sql>> \o history, 1, Min({Len(history) + 1, HistoryCap}))

Remember(sql) ==
  IF history # <<>> /\ Head(history) = sql THEN history
  ELSE SubSeq(<<sql>> \o history, 1, Min({Len(history) + 1, HistoryCap}))

\* MainWindow, line 446: the blanks around the text are cut off.
Leading(sql) == Cardinality({i \in DOMAIN sql : trim_sql(SubSeq(sql, 1, i)) = <<>>})

Refuse == error' = Plain /\ UNCHANGED <<history, request>>

(***************************************************************************)
(* enqueue_query.  The service answers later; asked is the text that the   *)
(* question was about, None when there was no question.                    *)
(***************************************************************************)
enqueue_query(part, explain, asked) ==
  IF ~connected \/ trim_sql(part.sql) = <<>> THEN Refuse
  ELSE /\ history' = Remember(trim_sql(part.sql))
       /\ error' = None
       /\ request' = [sql |-> trim_sql(part.sql), explain |-> explain, asked |-> asked,
                      text |-> part.text, offset |-> part.offset + Leading(part.sql)]

\* Mutant: the question is left out for a selection.
AsksForWholeTexts(part, explain) ==
  ~explain /\ part.sql = buffer /\ is_dangerous_write_without_where(part.sql)

\* MainWindow, line 468.
Asks(part, explain) == ~explain /\ is_dangerous_write_without_where(part.sql)

submit_query(part, explain) ==
  IF Asks(part, explain)
  THEN pending' = part /\ UNCHANGED <<history, request, error>>
  ELSE enqueue_query(part, explain, None) /\ UNCHANGED pending

\* The four buttons of QueryEditorPane, lines 34-67, and Run Query in the menu, which needs a connection.
Run ==
  /\ Ready
  /\ ~Running
  /\ \E explain \in BOOLEAN :
       \/ submit_query(Whole, explain)
       \/ has_selection /\ submit_query(selected_text, explain)
  /\ UNCHANGED <<buffer, selection, connected>>

\* MainWindow, line 374.
Executed == pending

Execute ==
  /\ Asking
  /\ enqueue_query(Executed, FALSE, pending.sql)
  /\ pending' = None
  /\ UNCHANGED <<buffer, selection, connected>>

Cancel ==
  /\ Asking
  /\ pending' = None
  /\ UNCHANGED <<buffer, selection, history, connected, request, error>>

-----------------------------------------------------------------------------
\* connect and poll_query.

\* A connection that cannot be made leaves its error and nothing else.
Connect ==
  /\ Ready
  /\ \/ connected' = TRUE /\ request' = None /\ error' = None
     \/ error' = Plain /\ UNCHANGED <<connected, request>>
  /\ UNCHANGED <<buffer, selection, history, pending>>

\* 22 characters in front of the text, "EXPLAIN (FORMAT JSON) ".
ExplainPrefix == 22

\* What PostgreSQL is given: the blanks and semicolons at the end are cut off.
normalize_statement_text(sql) ==
  LET kept == {i \in DOMAIN sql : sql[i] \notin Blanks \cup {";"}}
  IN IF kept = {} THEN <<>> ELSE SubSeq(sql, 1, Max(kept))

(***************************************************************************)
(* PG_DIAG_STATEMENT_POSITION, less one: PostgreSQL counts characters, not *)
(* bytes, and for an EXPLAIN it counts in the text with its prefix.        *)
(***************************************************************************)
CountedOffset(sql, at) ==
  Cardinality({i \in 1..at : sql[i] # "trail"}) + IF request.explain THEN ExplainPrefix ELSE 0

(***************************************************************************)
(* Where sqlite3_prepare begins a statement: at the first that is no blank *)
(* in the text, or behind the semicolon that ends the statement before.    *)
(***************************************************************************)
StatementStarts(sql) ==
  LET code == CodeOf(sql)
      Ends(i) == /\ code[i] = ";"
                 /\ \E k \in 1..(i - 1) : /\ code[k] \notin Blanks \cup {";"}
                                         /\ \A j \in k..(i - 1) : code[j] # ";"
  IN {at \in 0..(Len(sql) - 1) :
        /\ sql[at + 1] \notin Blanks
        /\ \E end \in 0..at : /\ end = 0 \/ Ends(end)
                              /\ \A k \in (end + 1)..at : sql[k] \in Blanks}

\* An error that engine reports at a place of the text, shown where offset is.
Located(engine, sql, at, offset) ==
  [shown   |-> location_from_offset(sql, offset),
   engine  |-> engine,
   explain |-> request.explain,
   text    |-> request.text,
   from    |-> request.offset,
   at      |-> request.offset + at]

\* SQLiteDatabase, lines 534 and 563: the place is where the statement begins.
FailsInSqlite ==
  /\ ~request.explain
  /\ \E at \in StatementStarts(request.sql) : error' = Located("sqlite", request.sql, at, at)

(***************************************************************************)
(* PostgresDatabase, lines 388 and 432: between any two letters of what it *)
(* was given.  A row query has no place.                                   *)
(***************************************************************************)
FailsInPostgres ==
  LET sql == normalize_statement_text(request.sql)
  IN /\ request.explain \/ classify_statement(sql) # "Select"
     /\ \E at \in Boundaries(sql) : error' = Located("postgres", sql, at, CountedOffset(sql, at))

PollError ==
  /\ Running
  /\ error' = Plain \/ FailsInSqlite \/ FailsInPostgres
  /\ request' = None
  /\ UNCHANGED <<buffer, selection, history, connected, pending>>

PollResult ==
  /\ Running
  /\ error' = None
  /\ request' = None
  /\ UNCHANGED <<buffer, selection, history, connected, pending>>

Next == \/ Type \/ Select \/ LoadFromHistory
        \/ Run \/ Execute \/ Cancel
        \/ Connect \/ PollError \/ PollResult

Spec == Init /\ [][Next]_vars
-----------------------------------------------------------------------------
\* The type invariant.
TypeOK ==
  /\ buffer \in Seq(Alphabet)
  /\ selection \in (0..Len(buffer)) \X (0..Len(buffer))
  /\ history \in Seq(Seq(Alphabet))
  /\ connected \in BOOLEAN
  /\ pending = None \/ pending.sql \in Seq(Alphabet)
  /\ request = None \/ (request.sql \in Seq(Alphabet) /\ request.explain \in BOOLEAN)
  /\ error = None \/ error.shown = None \/ error.shown \in [line : Nat, column : Nat]

(***************************************************************************)
(* The history is what was run, newest first: the text that is running is  *)
(* its first entry, no entry is blank, no two neighbours are equal, and it *)
(* never holds more than its limit.                                        *)
(***************************************************************************)
HistoryIsWhatRan ==
  /\ Running => history # <<>> /\ Head(history) = request.sql
  /\ \A i \in DOMAIN history : /\ history[i] # <<>> /\ trim_sql(history[i]) = history[i]
                               /\ i > 1 => history[i] # history[i - 1]
  /\ Len(history) <= HistoryCap

(***************************************************************************)
(* The scanner keeps exactly what an SQL engine reads as code: no comment, *)
(* nothing quoted, whatever quotes and comments contain of each other.     *)
(***************************************************************************)
ScannerKeepsCode ==
  Without(normalize_sql_for_analysis(buffer), Blanks) = Without(CodeOf(buffer), Blanks \cup Quotes)

(***************************************************************************)
(* A text that begins with UPDATE or DELETE and has no word WHERE is       *)
(* always asked about, unless the letters w-h-e-r-e are part of one of its *)
(* names; and the question is never asked where a WHERE can be read.       *)
(***************************************************************************)
PlainWrite(sql) ==
  LET code == CodeOf(sql)
  IN /\ WritesEveryRow(code)
     /\ \A word \in Words(code) : Len(word) = 1 \/ "where" \notin Range(word)
AsksBeforePlainWrite ==
  LET asked == is_dangerous_write_without_where(buffer)
  IN /\ PlainWrite(buffer) => asked
     /\ asked => <<"where">> \notin Words(CodeOf(buffer))

\* A name or literal that the program quotes is read back as one token.
QuotedIsOneToken ==
  \A quote \in Quotes :
    LET sql == quoted(buffer, quote)
    IN TokenEnd(sql, 1) = Len(sql)

(***************************************************************************)
(* A write over every row that is run as it is runs only after the         *)
(* question, and what runs is what the question was about, whatever was    *)
(* typed, selected, loaded or connected before and after.  EXPLAIN is      *)
(* never asked about, although PostgreSQL executes the statements behind   *)
(* the first one.                                                          *)
(***************************************************************************)
WhatRunsWasAsked ==
  (Running /\ ~request.explain) =>
    /\ PlainWrite(request.sql) => request.asked # None
    /\ request.asked # None => trim_sql(request.asked) = request.sql

(***************************************************************************)
(* The location shown counts lines, and columns in bytes, from the first   *)
(* character that was run.  It is one of a place in the text that was in   *)
(* the editor: for SQLite the beginning of the statement that fails; for   *)
(* PostgreSQL, which counts characters, not the place of the error but as  *)
(* many bytes in front of it as the letters before it have bytes behind    *)
(* their first.  Line and column are the editor's own if the text was run  *)
(* from its first character on; otherwise they lack the lines in front,    *)
(* and the columns in front as long as the place is on the same line.  (Of *)
(* an EXPLAIN it says nothing.)                                            *)
(***************************************************************************)
Line(text, offset) == 1 + Cardinality({i \in 1..offset : text[i] = "\n"})
Column(text, offset) ==
  1 + offset - Max({0} \cup {i \in 1..offset : text[i] = "\n"})
BytesBehindFirst ==
  Cardinality({i \in 1..(error.at - error.from) : error.text[error.from + i] = "trail"})
ErrorCountsFromRun ==
  (error # None /\ error.shown # None /\ ~error.explain) =>
    LET place == error.at - IF error.engine = "postgres" THEN BytesBehindFirst ELSE 0
        line == Line(error.text, place) - Line(error.text, error.from)
        column == Column(error.text, place)
                    - IF line = 0 THEN Column(error.text, error.from) - 1 ELSE 0
    IN error.shown = Location(line + 1, column)
=============================================================================
