---------------------------- MODULE ResultCursor ----------------------------
(***************************************************************************)
(* fetch_page of the cursors: which rows a page may hold.  A paged cursor, *)
(* of either engine, wraps its query and runs it again for every page, on  *)
(* the table as it is by then; a materialized one (SQLite only) sorts the  *)
(* rows that it kept.                                                      *)
(*                                                                         *)
(* A table is the sequence of its rows in the query's own order, a row is  *)
(* the value of the column that is sorted by.  A page is a sequence of     *)
(* positions in the table.                                                 *)
(***************************************************************************)
EXTENDS Naturals, FiniteSets, FiniteSetsExt, Sequences, Functions

CONSTANT NoSort  \* sort_ when reset: rows come in the query's own order

Null == 0  \* NULL; any other value is a positive number
Directions == {"ascending", "descending"}
CursorKinds == {"paged", "materialized"}

(***************************************************************************)
(* SQLiteDatabase.cpp, lines 167-177: must left come before right?         *)
(***************************************************************************)
compare_cells(left, right, direction) ==
  IF (left = Null) # (right = Null)
  THEN (direction = "ascending") = (right = Null)
  ELSE IF direction = "ascending" THEN left < right ELSE left > right

\* ORDER BY, external: NULL is less than any value (or more, on PostgreSQL).
OrderBy(left, right, direction) ==
  IF direction = "ascending" THEN left < right ELSE left > right

Precedes(kind, left, right, sort) ==
  CASE sort = NoSort -> FALSE
    [] kind = "materialized" /\ sort # NoSort -> compare_cells(left, right, sort)
    [] OTHER -> OrderBy(left, right, sort)

\* The rows in front of row x and, x included, those the order does not tell from it.
Before(kind, table, sort, x) ==
  {y \in DOMAIN table : Precedes(kind, table[y], table[x], sort)}
Ties(kind, table, sort, x) ==
  {y \in DOMAIN table : /\ ~Precedes(kind, table[y], table[x], sort)
                        /\ ~Precedes(kind, table[x], table[y], sort)}

(***************************************************************************)
(* Where row x may come out.  std::stable_sort leaves ties in the order of *)
(* the query; an ORDER BY that is evaluated again for every page may leave *)
(* them in a different order each time.  A query that is not sorted is     *)
(* taken to repeat its own order.                                          *)
(***************************************************************************)
Places(kind, table, sort, x) ==
  LET before == Cardinality(Before(kind, table, sort, x))
      ties == Ties(kind, table, sort, x)
  IN IF kind = "materialized" \/ sort = NoSort
     THEN {before + Cardinality({y \in ties : y <= x})}
     ELSE (before + 1)..(before + Cardinality(ties))

PageEnd(table, offset, limit) == Min({offset + limit, Len(table)})

\* The pages that fetch_page(offset, limit, sort) may return.
fetch_page(kind, table, sort, offset, limit) ==
  LET size == IF offset < Len(table) THEN PageEnd(table, offset, limit) - offset ELSE 0
      Fits(i) == {x \in DOMAIN table : offset + i \in Places(kind, table, sort, x)}
  IN {page \in [1..size -> UNION {Fits(i) : i \in 1..size}] :
        IsInjective(page) /\ \A i \in 1..size : page[i] \in Fits(i)}
=============================================================================
