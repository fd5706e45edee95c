---------------------------- MODULE MCResultGrid ----------------------------
(***************************************************************************)
(* The grid for TLC: a table that has more pages than the cache takes, and *)
(* three small ones with a NULL and equal rows, which another program      *)
(* turns into each other.                                                  *)
(***************************************************************************)
EXTENDS ResultGridPanel

Long == <<8, 1, 7, 2, 6, 3, 5, 4>>
Short == <<2, 0, 2>>
Shorter == <<2, 0>>
Shortest == <<2>>

MCTables == {Long, Short, Shorter, Shortest}
MCResults == {<<Long, "paged">>, <<Short, "paged">>, <<Shorter, "paged">>, <<Short, "materialized">>}
MCEdits == {Short, Shorter, Shortest}
=============================================================================
