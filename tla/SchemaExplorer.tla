--------------------------- MODULE SchemaExplorer ---------------------------
(***************************************************************************)
(* ui/SchemaExplorerPanel.cpp over core/schema/*SchemaProvider.cpp: a tree *)
(* of tables whose metadata is read, on the drawing thread, through a      *)
(* connection of its own when a table is first opened.  It is cached       *)
(* twice, in the provider and in the panel.                                *)
(*                                                                         *)
(* Reading the metadata of a table takes one query for its columns, one or *)
(* more for its indexes, and one for its foreign keys; any may fail.  What *)
(* a query returns is only of which table and when it was asked: the       *)
(* number of refreshes and connects before it.                             *)
(***************************************************************************)
EXTENDS Naturals, Sequences

CONSTANTS
  Tables,     \* tables a database may have: schema and name, split at their dots
  NoTable,    \* not one of them
  MaxEpochs   \* bound on refreshes and connects

ASSUME SchemaAssumption == /\ MaxEpochs \in Nat
                           /\ NoTable \notin Tables
                           /\ Tables \subseteq [schema : Seq(STRING),
                                               name : Seq(STRING) \ {<<>>}]
                           /\ \A t, u \in Tables : t.schema = <<>> => u.schema = <<>>

VARIABLES
  cache,     \* the provider's cache_: by key, the table it was read of and its parts
  loaded,    \* the panel's loaded_
  tables,    \* the panel's tables_
  metadata,  \* the panel's metadata_
  error,     \* is the panel's error_ set?
  at,        \* what render() does next: see Places
  left,      \* tables the loop of render() has not come to
  table,     \* the table being read
  draft,     \* what has been read of it, in the order of Parts
  epoch      \* history: refreshes and connects so far

panel == <<loaded, tables, metadata, error>>
reading == <<table, draft>>
vars == <<cache, panel, at, left, reading, epoch>>

\* "away": not in render; "list": before list_tables; "draw": in the loop over
\* tables_; "read": in load_table_metadata.
Places == {"away", "list", "draw", "read"}

Parts == <<"columns", "indexes", "foreign_keys">>

\* Mutant: the schema is no part of the key.
KeyByName(t) == t.name

\* schema + "." + name, for the panel and the PostgreSQL provider.  The tables of
\* SQLite have no schema; their provider takes the name alone, and the panel puts
\* one more dot in front of it, the same for all.
cache_key(t) == t.schema \o t.name

Nothing == [key \in {} |-> <<>>]
Cached(f, t, parts) ==
  [key \in DOMAIN f \cup {cache_key(t)} |->
     IF key = cache_key(t) THEN [of |-> t, parts |-> parts] ELSE f[key]]

\* The first connect has been made.
Init == /\ cache = Nothing
        /\ loaded = FALSE
        /\ tables = {}
        /\ metadata = Nothing
        /\ error = FALSE
        /\ at = "away"
        /\ left = {}
        /\ table = NoTable
        /\ draft = <<>>
        /\ epoch = 0

-----------------------------------------------------------------------------
\* SchemaExplorerPanel::reset, lines 62-67.
Reset == /\ loaded' = FALSE
         /\ tables' = {}
         /\ metadata' = Nothing
         /\ error' = FALSE

\* Mutant: the panel is not reset on connect.
ResetOnConnectForgotten == UNCHANGED panel

ResetOnConnect == Reset

\* MainWindow::connect: a new provider; a session that fails changes nothing.
Connect ==
  /\ at = "away"
  /\ epoch < MaxEpochs
  /\ epoch' = epoch + 1
  /\ cache' = Nothing
  /\ ResetOnConnect
  /\ UNCHANGED <<at, left, reading>>

\* A frame in which the schema window is open.
Render ==
  /\ at = "away"
  /\ at' = "list"
  /\ UNCHANGED <<cache, panel, left, reading, epoch>>

\* invalidate of either provider.
Invalidate == Nothing

\* Lines 75-78: Refresh Schema was clicked in this frame.
RenderRefreshed ==
  /\ at = "away"
  /\ epoch < MaxEpochs
  /\ epoch' = epoch + 1
  /\ cache' = Invalidate
  /\ Reset
  /\ at' = "list"
  /\ UNCHANGED <<left, reading>>

\* The loop begins, unless there is an error to show instead.
LoopOver(found, failed) ==
  /\ at' = IF failed THEN "away" ELSE "draw"
  /\ left' = IF failed THEN {} ELSE found

ListKnown ==
  /\ at = "list"
  /\ loaded
  /\ LoopOver(tables, error)
  /\ UNCHANGED <<cache, panel, reading, epoch>>

\* Lines 80-89; list_tables is not cached.
ListTables(found) ==
  /\ at = "list"
  /\ ~loaded
  /\ tables' = found
  /\ loaded' = TRUE
  /\ error' = FALSE
  /\ LoopOver(found, FALSE)
  /\ UNCHANGED <<cache, metadata, reading, epoch>>

\* Asked again in every frame, until it succeeds.
ListTablesFails ==
  /\ at = "list"
  /\ ~loaded
  /\ error' = TRUE
  /\ LoopOver({}, TRUE)
  /\ UNCHANGED <<cache, loaded, tables, metadata, reading, epoch>>

-----------------------------------------------------------------------------
\* The loop over tables_, lines 98-118.

\* A closed node, or one whose metadata the panel has.
DrawKnown(t) ==
  /\ at = "draw"
  /\ t \in left
  /\ left' = left \ {t}
  /\ UNCHANGED <<cache, panel, at, reading, epoch>>

(***************************************************************************)
(* load_table_metadata begins to read.  Its first test, whether the        *)
(* provider has the table, never succeeds: PanelShowsProvider.             *)
(***************************************************************************)
ReadTable(t) ==
  /\ at = "draw"
  /\ t \in left
  /\ cache_key(t) \notin DOMAIN metadata \cup DOMAIN cache
  /\ at' = "read"
  /\ table' = t
  /\ draft' = <<>>
  /\ left' = left \ {t}
  /\ UNCHANGED <<cache, panel, epoch>>

\* Mutant: the metadata is built in the cache itself.
CacheWhileReadingFilled == Cached(cache, table, draft')

\* Nothing is cached before the last query.
CacheWhileReading == cache

\* One query of load_table_metadata succeeds, and it is not the last.
ReadPart ==
  /\ at = "read"
  /\ Len(draft) < Len(Parts) - 1
  /\ draft' = Append(draft, epoch)
  /\ cache' = CacheWhileReading
  /\ UNCHANGED <<panel, at, left, table, epoch>>

\* The last one does: the metadata goes into both caches.
ReadLastPart ==
  /\ at = "read"
  /\ Len(draft) = Len(Parts) - 1
  /\ cache' = Cached(cache, table, Append(draft, epoch))
  /\ metadata' = Cached(metadata, table, Append(draft, epoch))
  /\ at' = "draw"
  /\ table' = NoTable
  /\ draft' = <<>>
  /\ UNCHANGED <<loaded, tables, error, left, epoch>>

\* One fails: the error stays until Refresh Schema or a connect.
ReadFails ==
  /\ at = "read"
  /\ error' = TRUE
  /\ at' = "away"
  /\ left' = {}
  /\ table' = NoTable
  /\ draft' = <<>>
  /\ UNCHANGED <<cache, loaded, tables, metadata, epoch>>

RenderEnds ==
  /\ at = "draw"
  /\ left = {}
  /\ at' = "away"
  /\ UNCHANGED <<cache, panel, left, reading, epoch>>

Read == ReadPart \/ ReadLastPart \/ ReadFails

Next == \/ Connect \/ Render \/ RenderRefreshed
        \/ ListKnown \/ ListTablesFails
        \/ \E found \in SUBSET Tables : ListTables(found)
        \/ \E t \in Tables : DrawKnown(t) \/ ReadTable(t)
        \/ Read
        \/ RenderEnds

Spec == Init /\ [][Next]_vars

-----------------------------------------------------------------------------
\* The type invariant: what is shown belongs to a table that was listed.
TypeOK ==
  /\ \A f \in {cache, metadata} : \A key \in DOMAIN f :
       f[key].of \in tables /\ f[key].parts \in Seq(0..MaxEpochs)
  /\ tables \subseteq Tables
  /\ loaded \in BOOLEAN /\ error \in BOOLEAN
  /\ at \in Places
  /\ left \subseteq tables
  /\ table \in Tables \cup {NoTable}
  /\ draft \in Seq(0..MaxEpochs)
  /\ epoch \in 0..MaxEpochs

CachedIsComplete == \A key \in DOMAIN cache : Len(cache[key].parts) = Len(Parts)

FreshSinceRefresh ==
  \A f \in {cache, metadata} : \A key \in DOMAIN f :
    \A i \in DOMAIN f[key].parts : f[key].parts[i] = epoch

(***************************************************************************)
(* A load that fails half way leaves no trace: what the provider caches is *)
(* the answer of every query of one load.  And Refresh Schema and a        *)
(* reconnect reach both caches: nothing shown, or ready to be shown, was   *)
(* read before the last of them.                                           *)
(***************************************************************************)
WholeAndFresh == CachedIsComplete /\ FreshSinceRefresh

(***************************************************************************)
(* The two caches never disagree, whatever fails between them: what the    *)
(* panel shows of a table is what the provider has, and a table the panel  *)
(* lacks is one the provider has to read (so line 61 never finds one).     *)
(***************************************************************************)
PanelShowsProvider == metadata = cache

HasDotOfItsOwn(t) == t.schema # <<>> /\ (Len(t.schema) # 1 \/ Len(t.name) # 1)

(***************************************************************************)
(* What is shown below a table was read of that table, unless it has a     *)
(* schema, and a dot in that or in its name: then another may have its key.*)
(***************************************************************************)
ShownIsItsOwn ==
  \A t \in tables :
    (cache_key(t) \in DOMAIN metadata /\ ~HasDotOfItsOwn(t))
      => metadata[cache_key(t)].of = t
=============================================================================
