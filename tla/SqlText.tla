------------------------------- MODULE SqlText -------------------------------
(***************************************************************************)
(* core/common/SqlText.cpp: what the program finds out about a text        *)
(* without a parser, and beside it how an SQL engine splits the same text. *)
(*                                                                         *)
(* A text is a sequence of atoms: a blank, a newline, a character that     *)
(* matters to the scanner, or a fragment of letters.  A word is a run of   *)
(* fragments, so <<"delete", "x">> is the one word deletex.  Upper case,   *)
(* which both sides fold, is left out.                                     *)
(*                                                                         *)
(* Offsets are counted in bytes, and each atom stands for one: "trail" is  *)
(* a byte of a letter that is not its first (UTF-8), so <<"x", "trail">>   *)
(* is one letter of two bytes.                                             *)
(***************************************************************************)
EXTENDS Naturals, Sequences, SequencesExt, FiniteSetsExt, Functions

Blanks == {" ", "\n"}
Quotes == {"'", "\""}
Marks == {"-", "/", "*", ";", "("}
Writes == {"delete", "update"}
Fragments == Writes \cup {"where", "select", "x", "trail"}

At(sql, i) == IF i \in DOMAIN sql THEN sql[i] ELSE "end"
Pair(sql, i) == <<At(sql, i), At(sql, i + 1)>>

\* The first position from i on that satisfies P, or the one behind the text.
FirstFrom(sql, i, P(_)) ==
  Min({j \in i..Len(sql) : P(j)} \cup {Len(sql) + 1})

trim_sql(sql) ==
  LET kept == {i \in DOMAIN sql : sql[i] \notin Blanks}
  IN IF kept = {} THEN <<>> ELSE SubSeq(sql, Min(kept), Max(kept))

-----------------------------------------------------------------------------
(***************************************************************************)
(* normalize_sql_for_analysis: one pass with a flag for the quote or the   *)
(* comment it is in.  The flags exclude each other, so they are one mode.  *)
(***************************************************************************)
ScanStart == [mode |-> "code", skip |-> FALSE, out |-> <<>>]

Blank(st) == Append(st.out, " ")

\* Mutant: a quote is looked for in comments only, not in quoted text.
OpensCommentAnywhere(st) == st.mode \in {"code", "'", "\""}

\* Line 87: no comment begins inside quotes.
OpensComment(st) == st.mode = "code"

Consume(st, sql, i) ==
  CASE st.skip -> [st EXCEPT !.skip = FALSE]
    [] ~st.skip /\ st.mode = "line" ->
         IF sql[i] = "\n" THEN [st EXCEPT !.mode = "code", !.out = Blank(st)] ELSE st
    [] ~st.skip /\ st.mode = "block" ->
         IF Pair(sql, i) = <<"*", "/">> THEN [st EXCEPT !.mode = "code", !.skip = TRUE] ELSE st
    [] OTHER ->
         CASE OpensComment(st) /\ Pair(sql, i) = <<"-", "-">> ->
                [st EXCEPT !.mode = "line", !.skip = TRUE]
           [] OpensComment(st) /\ Pair(sql, i) = <<"/", "*">> ->
                [st EXCEPT !.mode = "block", !.skip = TRUE]
           [] sql[i] \in Quotes /\ st.mode \in {"code", sql[i]} ->
                [st EXCEPT !.mode = IF @ = "code" THEN sql[i] ELSE "code", !.out = Blank(st)]
           [] OTHER ->
                [st EXCEPT !.out = Append(@, IF st.mode = "code" THEN sql[i] ELSE " ")]

normalize_sql_for_analysis(sql) ==
  LET scan[i \in 0..Len(sql)] == IF i = 0 THEN ScanStart ELSE Consume(scan[i - 1], sql, i)
  IN scan[Len(sql)].out

StartsWithWrite(sql) == At(sql, 1) \in Writes

Mentions(sql, fragment) == fragment \in Range(sql)

\* Mutant: the text is searched as it is, quoted text and comments included.
IsDangerousUnscanned(sql) ==
  StartsWithWrite(trim_sql(sql)) /\ ~Mentions(sql, "where")

is_dangerous_write_without_where(sql) ==
  LET trimmed == trim_sql(normalize_sql_for_analysis(sql))
  IN StartsWithWrite(trimmed) /\ ~Mentions(trimmed, "where")

-----------------------------------------------------------------------------
\* strip_leading_noise, and the first word behind it.

\* Lines 27-33: up to the newline, which is a blank.
LineCommentEnd(sql, i) == FirstFrom(sql, i, LAMBDA j : sql[j] = "\n")

BlockCommentEnd(sql, i) == FirstFrom(sql, i, LAMBDA j : Pair(sql, j) = <<"*", "/">>) + 2

\* The position of the first character that is kept.
AfterNoise(sql) ==
  LET from[i \in 1..(Len(sql) + 3)] ==
        CASE At(sql, i) \in Blanks -> from[i + 1]
          [] Pair(sql, i) = <<"-", "-">> -> from[LineCommentEnd(sql, i + 2)]
          [] Pair(sql, i) = <<"/", "*">> -> from[BlockCommentEnd(sql, i + 2)]
          [] OTHER -> i
  IN from[1]

\* Line 124: a word ends at a blank or a bracket, and at nothing else.
FirstWord(sql) ==
  LET first == AfterNoise(sql)
  IN SubSeq(sql, first, FirstFrom(sql, first, LAMBDA j : sql[j] \in Blanks \cup {"("}) - 1)

\* The one distinction that execute() makes: is it taken for a row query?
classify_statement(sql) == IF FirstWord(sql) = <<"select">> THEN "Select" ELSE "Other"

-----------------------------------------------------------------------------
\* location_from_offset: columns are bytes.

Location(line, column) == [line |-> line, column |-> column]

\* Mutant: a newline does not reset the column.
AfterNewlineKeepsColumn(at) == Location(at.line + 1, at.column + 1)

AfterNewline(at) == Location(at.line + 1, 1)

location_from_offset(sql, offset) ==
  LET at[i \in 0..Len(sql)] ==
        CASE i = 0 -> Location(1, 1)
          [] i > 0 /\ sql[i] = "\n" -> AfterNewline(at[i - 1])
          [] OTHER -> Location(at[i - 1].line, at[i - 1].column + 1)
  IN at[Min({offset, Len(sql)})]

-----------------------------------------------------------------------------
\* quote_identifier and quote_literal

\* Mutant: only the quote at the very beginning is doubled.
DoubledFirst(text, quote) ==
  IF At(text, 1) = quote THEN <<quote>> \o text ELSE text

Doubled(text, quote) ==
  FlattenSeq([i \in DOMAIN text |-> IF text[i] = quote THEN <<quote, quote>> ELSE <<text[i]>>])

quoted(text, quote) == <<quote>> \o Doubled(text, quote) \o <<quote>>

-----------------------------------------------------------------------------
(***************************************************************************)
(* How an engine reads the text, from the rules of SQL: a quoted token     *)
(* ends at the first quote that is not doubled, a comment at its end, or   *)
(* with the text; what is left is code.  An engine's own extensions (nested*)
(* comments and dollar quotes of PostgreSQL, [names] of SQLite) are not    *)
(* here.                                                                   *)
(***************************************************************************)
ClosingQuote(sql, i) ==
  LET close[j \in (i + 1)..(Len(sql) + 2)] ==
        CASE j > Len(sql) -> Len(sql)
          [] Pair(sql, j) = <<sql[i], sql[i]>> -> close[j + 2]
          [] At(sql, j) = sql[i] /\ At(sql, j + 1) # sql[i] -> j
          [] OTHER -> close[j + 1]
  IN close[i + 1]

TokenEnd(sql, i) ==
  CASE sql[i] \in Quotes -> ClosingQuote(sql, i)
    [] Pair(sql, i) = <<"-", "-">> -> Min({Len(sql)} \cup {j \in i..Len(sql) : sql[j] = "\n"})
    [] Pair(sql, i) = <<"/", "*">> ->
         Min({Len(sql)} \cup {j \in (i + 3)..Len(sql) : Pair(sql, j - 1) = <<"*", "/">>})
    [] OTHER -> i

\* The positions at which a token begins.
TokenStarts(sql) ==
  LET starts[i \in 1..(Len(sql) + 1)] ==
        IF i > Len(sql) THEN {} ELSE {i} \cup starts[TokenEnd(sql, i) + 1]
  IN starts[1]

\* The code: a comment is a blank, and so is a quoted token but for its first quote.
CodeOf(sql) ==
  [i \in DOMAIN sql |->
     IF i \in TokenStarts(sql) /\ (sql[i] \in Quotes \/ TokenEnd(sql, i) = i) THEN sql[i] ELSE " "]

IsBlank(atom) == atom \in Blanks

\* What is left of a text when all atoms of a set are taken out.
Without(text, atoms) ==
  LET rest[i \in 0..Len(text)] ==
        CASE i = 0 -> <<>>
          [] i > 0 /\ text[i] \in atoms -> rest[i - 1]
          [] OTHER -> Append(rest[i - 1], text[i])
  IN rest[Len(text)]

\* The longest parts of a code that are made of the atoms IsPart.
Pieces(code, IsPart(_)) ==
  LET first == {i \in DOMAIN code : IsPart(code[i]) /\ (i > 1 => ~IsPart(code[i - 1]))}
      After(i) == FirstFrom(code, i, LAMBDA j : ~IsPart(code[j]))
  IN {SubSeq(code, i, After(i) - 1) : i \in first}

Words(code) == Pieces(code, LAMBDA a : a \in Fragments)

\* The code begins with one of these words.
BeginsWith(code, words) ==
  \E i \in DOMAIN code : /\ \A k \in 1..(i - 1) : IsBlank(code[k])
                         /\ code[i] \in words
                         /\ At(code, i + 1) \notin Fragments

(***************************************************************************)
(* An UPDATE or DELETE without a WHERE clause: the text begins with the    *)
(* word, and where is none of its words.                                   *)
(***************************************************************************)
WritesEveryRow(code) ==
  BeginsWith(code, Writes) /\ <<"where">> \notin Words(code)
=============================================================================
