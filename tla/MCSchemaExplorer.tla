-------------------------- MODULE MCSchemaExplorer --------------------------
(***************************************************************************)
(* The explorer for TLC: one table whose key is its own, two that share    *)
(* one because of a dot.                                                   *)
(***************************************************************************)
EXTENDS SchemaExplorer

MCTables == {[schema |-> <<"a">>, name |-> <<"c">>],
             [schema |-> <<"a">>, name |-> <<"b", "c">>],
             [schema |-> <<"a", "b">>, name |-> <<"c">>]}
=============================================================================
