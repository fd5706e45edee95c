----------------------- MODULE SchemaExplorer_proofs -----------------------
(***************************************************************************)
(* The caches of the schema explorer, for any tables and any number of     *)
(* refreshes and connects.                                                 *)
(***************************************************************************)
EXTENDS SchemaExplorer, SequenceTheorems, TLAPS

(***************************************************************************)
(* What the caches hold is always whole and of this epoch, because a load  *)
(* is never left open over a refresh or a connect: outside of it nothing   *)
(* is drafted, and the tables that have metadata are still listed.         *)
(***************************************************************************)
Shape == /\ tables \subseteq Tables
         /\ left \subseteq tables
         /\ loaded \in BOOLEAN
         /\ error \in BOOLEAN
         /\ at \in Places
         /\ epoch \in 0..MaxEpochs

Loading == /\ draft \in Seq({epoch})
           /\ Len(draft) < 3
           /\ at = "read" => table \in tables
           /\ at # "read" => table = NoTable /\ draft = <<>>
           /\ at \in {"draw", "read"} => loaded
           /\ at \in {"away", "list"} => left = {}

Entries == \A key \in DOMAIN cache :
             /\ cache[key].of \in tables
             /\ cache[key].parts \in Seq({epoch})
             /\ Len(cache[key].parts) = 3
             /\ cache_key(cache[key].of) = key

Caches == /\ metadata = cache
          /\ ~loaded => DOMAIN cache = {}
          /\ Entries

ExplorerInv == Shape /\ Loading /\ Caches

-----------------------------------------------------------------------------
LEMMA PartsAreThree == Len(Parts) = 3
BY DEF Parts

LEMMA BoundIsNat == MaxEpochs \in Nat
BY SchemaAssumption

LEMMA NothingIsEmpty == DOMAIN Nothing = {}
BY DEF Nothing

LEMMA InitEstablishes == Init => ExplorerInv
<1> SUFFICES ASSUME Init PROVE ExplorerInv
    OBVIOUS
<1>1. Shape
  <2>1. loaded \in BOOLEAN /\ error \in BOOLEAN
    BY DEF Init
  <2>2. epoch \in 0..MaxEpochs
    BY BoundIsNat DEF Init
  <2>3. tables \subseteq Tables /\ left \subseteq tables /\ at \in Places
    BY DEF Init, Places
  <2> QED BY <2>1, <2>2, <2>3 DEF Shape
<1>2. Loading
  BY DEF Init, Loading
<1>3. Caches
  BY NothingIsEmpty DEF Init, Caches, Entries
<1> QED BY <1>1, <1>2, <1>3 DEF ExplorerInv

\* Both caches emptied, in the next epoch, with no load open.
LEMMA EmptiedKeepsInv ==
  ASSUME ExplorerInv, at = "away", epoch < MaxEpochs, epoch' = epoch + 1,
         cache' = Nothing, Reset, at' \in {"away", "list"}, UNCHANGED <<left, table, draft>>
  PROVE  ExplorerInv'
<1>1. Shape'
  <2>1. (loaded \in BOOLEAN /\ error \in BOOLEAN)'
    BY DEF Reset
  <2>2. (epoch \in 0..MaxEpochs)'
    BY BoundIsNat DEF ExplorerInv, Shape
  <2>3. (tables \subseteq Tables /\ left \subseteq tables /\ at \in Places)'
    BY DEF ExplorerInv, Loading, Reset, Places
  <2> QED BY <2>1, <2>2, <2>3 DEF Shape
<1>2. Loading'
  BY DEF ExplorerInv, Shape, Loading, Reset
<1>3. Caches'
  BY NothingIsEmpty DEF Caches, Entries, Reset
<1> QED BY <1>1, <1>2, <1>3 DEF ExplorerInv

\* What is cached, and its epoch, stays, and so does what is listed.
LEMMA CachesKept ==
  ASSUME Caches, UNCHANGED <<cache, metadata, loaded, tables, epoch>>
  PROVE  Caches'
BY DEF Caches, Entries, cache_key

LEMMA LastPartKeepsCaches ==
  ASSUME ExplorerInv, ReadLastPart
  PROVE  Caches'
<1> DEFINE parts == Append(draft, epoch)
<1>1. cache' = Cached(cache, table, parts) /\ metadata' = cache'
  BY DEF ReadLastPart, ExplorerInv, Caches
<1>2. table \in tables /\ loaded /\ UNCHANGED <<loaded, tables, epoch>>
  BY DEF ReadLastPart, ExplorerInv, Loading
<1>3. parts \in Seq({epoch}) /\ Len(parts) = 3
  <2>1. draft \in Seq({epoch}) /\ Len(draft) = 2
    BY PartsAreThree DEF ReadLastPart, ExplorerInv, Loading
  <2>2. parts \in Seq({epoch}) /\ Len(parts) = Len(draft) + 1
    BY <2>1, AppendProperties
  <2> QED BY <2>1, <2>2
<1>4. ASSUME NEW key \in DOMAIN cache'
      PROVE  /\ cache'[key].of \in tables
             /\ cache'[key].parts \in Seq({epoch})
             /\ Len(cache'[key].parts) = 3
             /\ cache_key(cache'[key].of) = key
  <2> HIDE DEF parts
  <2>0. /\ DOMAIN cache' = DOMAIN cache \cup {cache_key(table)}
        /\ cache'[key] = IF key = cache_key(table)
                         THEN [of |-> table, parts |-> parts] ELSE cache[key]
    <3>1. /\ DOMAIN Cached(cache, table, parts) = DOMAIN cache \cup {cache_key(table)}
          /\ \A k \in DOMAIN Cached(cache, table, parts) :
               Cached(cache, table, parts)[k] = IF k = cache_key(table)
                                  THEN [of |-> table, parts |-> parts] ELSE cache[k]
      BY DEF Cached
    <3> QED BY <1>1, <1>4, <3>1
  <2>1. CASE key = cache_key(table)
    <3>1. cache'[key] = [of |-> table, parts |-> parts]
      BY <2>0, <2>1
    <3> QED BY <1>2, <1>3, <2>1, <3>1
  <2>2. CASE key # cache_key(table)
    <3>1. key \in DOMAIN cache /\ cache'[key] = cache[key]
      BY <1>4, <2>0, <2>2
    <3> QED BY <3>1 DEF ExplorerInv, Caches, Entries
  <2> QED BY <2>1, <2>2
<1> QED BY <1>1, <1>2, <1>4 DEF Caches, Entries, cache_key

LEMMA NextKeepsInv == ExplorerInv /\ [Next]_vars => ExplorerInv'
<1> SUFFICES ASSUME ExplorerInv, [Next]_vars PROVE ExplorerInv'
    OBVIOUS
<1> USE DEF ExplorerInv
<1>1. CASE Connect
  BY <1>1, EmptiedKeepsInv DEF Connect, ResetOnConnect, Invalidate, reading
<1>2. CASE RenderRefreshed
  BY <1>2, EmptiedKeepsInv DEF RenderRefreshed, Invalidate, reading
<1>3. CASE Render
  <2>1. Caches'
    BY <1>3, CachesKept DEF Render, panel
  <2>2. Shape' /\ Loading'
    BY <1>3 DEF Render, panel, reading, Shape, Loading, Places
  <2> QED BY <2>1, <2>2
<1>4. CASE ListKnown
  <2>1. Caches'
    BY <1>4, CachesKept DEF ListKnown, panel
  <2>2. Shape' /\ Loading'
    BY <1>4 DEF ListKnown, LoopOver, panel, reading, Shape, Loading, Places
  <2> QED BY <2>1, <2>2
<1>5. CASE ListTablesFails
  <2>1. Caches'
    BY <1>5, CachesKept DEF ListTablesFails
  <2>2. Shape' /\ Loading'
    BY <1>5 DEF ListTablesFails, LoopOver, reading, Shape, Loading, Places
  <2> QED BY <2>1, <2>2
<1>6. ASSUME NEW found \in SUBSET Tables, ListTables(found)
      PROVE  ExplorerInv'
  <2>1. Caches'
    BY <1>6 DEF ListTables, LoopOver, Caches, Entries
  <2>2. Shape' /\ Loading'
    BY <1>6 DEF ListTables, LoopOver, reading, Shape, Loading, Places
  <2> QED BY <2>1, <2>2
<1>7. ASSUME NEW t \in Tables, DrawKnown(t)
      PROVE  ExplorerInv'
  <2>1. Caches'
    BY <1>7, CachesKept DEF DrawKnown, panel
  <2>2. Shape' /\ Loading'
    BY <1>7 DEF DrawKnown, panel, reading, Shape, Loading, Places
  <2> QED BY <2>1, <2>2
<1>8. ASSUME NEW t \in Tables, ReadTable(t)
      PROVE  ExplorerInv'
  <2>1. Caches'
    BY <1>8, CachesKept DEF ReadTable, panel
  <2>2. Shape' /\ Loading'
    BY <1>8 DEF ReadTable, panel, Shape, Loading, Places
  <2> QED BY <2>1, <2>2
<1>9. CASE ReadPart
  <2>1. Caches'
    BY <1>9, CachesKept DEF ReadPart, panel, CacheWhileReading
  <2>2. Shape' /\ Loading'
    BY <1>9, PartsAreThree DEF ReadPart, panel, Shape, Loading
  <2> QED BY <2>1, <2>2
<1>10. CASE ReadLastPart
  <2>1. Caches'
    BY <1>10, LastPartKeepsCaches
  <2>2. Shape' /\ Loading'
    BY <1>10 DEF ReadLastPart, Shape, Loading, Places
  <2> QED BY <2>1, <2>2
<1>11. CASE ReadFails
  <2>1. Caches'
    BY <1>11, CachesKept DEF ReadFails
  <2>2. Shape' /\ Loading'
    BY <1>11 DEF ReadFails, Shape, Loading, Places
  <2> QED BY <2>1, <2>2
<1>12. CASE RenderEnds
  <2>1. Caches'
    BY <1>12, CachesKept DEF RenderEnds, panel
  <2>2. Shape' /\ Loading'
    BY <1>12 DEF RenderEnds, panel, reading, Shape, Loading, Places
  <2> QED BY <2>1, <2>2
<1>13. CASE UNCHANGED vars
  <2>1. Caches'
    BY <1>13, CachesKept DEF vars, panel
  <2>2. Shape' /\ Loading'
    BY <1>13 DEF vars, panel, reading, Shape, Loading
  <2> QED BY <2>1, <2>2
<1> QED
  BY <1>1, <1>2, <1>3, <1>4, <1>5, <1>6, <1>7, <1>8, <1>9, <1>10, <1>11, <1>12, <1>13
     DEF Next, Read

LEMMA ExplorerInvariant == Spec => []ExplorerInv
<1>1. Init => ExplorerInv
  BY InitEstablishes
<1>2. ExplorerInv /\ [Next]_vars => ExplorerInv'
  BY NextKeepsInv
<1> QED BY <1>1, <1>2, PTL DEF Spec

-----------------------------------------------------------------------------
LEMMA TablesAreTyped ==
  ASSUME NEW t \in Tables
  PROVE  /\ t.schema \in Seq(STRING) /\ t.name \in Seq(STRING)
         /\ t = [schema |-> t.schema, name |-> t.name]
         /\ Len(t.schema) \in Nat /\ Len(t.name) \in Nat
         /\ Len(t.name) # 0
         /\ t.schema # <<>> => Len(t.schema) # 0
<1>1. /\ t.schema \in Seq(STRING) /\ t.name \in Seq(STRING) /\ t.name # <<>>
      /\ t = [schema |-> t.schema, name |-> t.name]
  BY SchemaAssumption
<1> QED BY <1>1, EmptySeq, LenProperties

LEMMA OneAndOne ==
  ASSUME NEW S, NEW p \in Seq(S), NEW q \in Seq(S), Len(p) = 1, Len(q) = 1
  PROVE  Len(p \o q) = 2 /\ (p \o q)[1] = p[1] /\ (p \o q)[2] = q[1]
<1>1. \A i \in 1..Len(p) + Len(q) :
        (p \o q)[i] = IF i <= Len(p) THEN p[i] ELSE q[i - Len(p)]
  BY ConcatProperties
<1>2. Len(p \o q) = Len(p) + Len(q)
  BY ConcatProperties
<1>3. 1 \in 1..Len(p) + Len(q) /\ 2 \in 1..Len(p) + Len(q)
  OBVIOUS
<1>4. (p \o q)[1] = p[1]
  BY <1>1, <1>3
<1>5. (p \o q)[2] = q[1]
  BY <1>1, <1>3
<1> QED BY <1>2, <1>4, <1>5

LEMMA KeyWithoutDots ==
  ASSUME NEW t \in Tables, Len(t.schema) = 1, Len(t.name) = 1
  PROVE  /\ Len(cache_key(t)) = 2
         /\ cache_key(t)[1] = t.schema[1] /\ cache_key(t)[2] = t.name[1]
<1>1. t.schema \in Seq(STRING) /\ t.name \in Seq(STRING)
  BY TablesAreTyped
<1>2. \A p, q \in Seq(STRING) : Len(p) = 1 /\ Len(q) = 1 =>
        Len(p \o q) = 2 /\ (p \o q)[1] = p[1] /\ (p \o q)[2] = q[1]
  BY OneAndOne
<1>3. /\ Len(t.schema \o t.name) = 2
      /\ (t.schema \o t.name)[1] = t.schema[1] /\ (t.schema \o t.name)[2] = t.name[1]
  BY <1>1, <1>2, Zenon
<1> QED BY <1>3, Zenon DEF cache_key

\* Two tables with one key are one table, if one of them has no dot of its own.
LEMMA KeysApart ==
  ASSUME NEW t \in Tables, NEW u \in Tables, cache_key(t) = cache_key(u),
         ~HasDotOfItsOwn(t)
  PROVE  t = u
<1>1. CASE t.schema = <<>>
  <2>1. u.schema = <<>>
    BY <1>1, SchemaAssumption
  <2>2. cache_key(t) = t.name /\ cache_key(u) = u.name
    BY <1>1, <2>1, TablesAreTyped, ConcatEmptySeq DEF cache_key
  <2> QED BY <1>1, <2>1, <2>2, TablesAreTyped
<1>2. CASE t.schema # <<>>
  <2>1. Len(t.schema) = 1 /\ Len(t.name) = 1 /\ u.schema # <<>>
    BY <1>2, SchemaAssumption DEF HasDotOfItsOwn
  <2>2. /\ Len(cache_key(t)) = 2
        /\ cache_key(t)[1] = t.schema[1] /\ cache_key(t)[2] = t.name[1]
    BY <2>1, KeyWithoutDots
  <2>3. Len(u.schema) = 1 /\ Len(u.name) = 1
    <3>1. Len(cache_key(u)) = Len(u.schema) + Len(u.name)
      BY TablesAreTyped, ConcatProperties DEF cache_key
    <3>2. Len(u.schema) + Len(u.name) = 2
      BY <2>2, <3>1, Zenon
    <3>3. \A i, j \in Nat : i # 0 /\ j # 0 /\ i + j = 2 => i = 1 /\ j = 1
      OBVIOUS
    <3>4. Len(u.schema) \in Nat \ {0} /\ Len(u.name) \in Nat \ {0}
      BY <2>1, TablesAreTyped
    <3> QED BY <3>2, <3>3, <3>4, Zenon
  <2>4. cache_key(u)[1] = u.schema[1] /\ cache_key(u)[2] = u.name[1]
    BY <2>3, KeyWithoutDots
  <2>5. t.schema = u.schema /\ t.name = u.name
    BY <2>1, <2>2, <2>3, <2>4, TablesAreTyped, SeqEqual
  <2> QED BY <2>5, TablesAreTyped
<1> QED BY <1>1, <1>2

LEMMA InvImpliesType == ExplorerInv => TypeOK
<1> SUFFICES ASSUME ExplorerInv PROVE TypeOK
    OBVIOUS
<1>1. loaded \in BOOLEAN /\ error \in BOOLEAN
  BY DEF ExplorerInv, Shape
<1>2. epoch \in 0..MaxEpochs /\ draft \in Seq(0..MaxEpochs)
  BY SeqMonotonic DEF ExplorerInv, Shape, Loading
<1>3. ASSUME NEW key \in DOMAIN cache
      PROVE  cache[key].of \in tables /\ cache[key].parts \in Seq(0..MaxEpochs)
  <2>1. cache[key].of \in tables /\ cache[key].parts \in Seq({epoch})
    BY DEF ExplorerInv, Caches, Entries
  <2> QED BY <1>2, <2>1, SeqMonotonic
<1>4. tables \subseteq Tables /\ left \subseteq tables /\ at \in Places
      /\ table \in Tables \cup {NoTable}
  BY DEF ExplorerInv, Shape, Loading
<1>5. metadata = cache
  BY DEF ExplorerInv, Caches
<1> QED BY <1>1, <1>2, <1>3, <1>4, <1>5 DEF TypeOK

(***************************************************************************)
(* TypeOK: whatever is cached or being read is of a table that is listed.  *)
(***************************************************************************)
THEOREM ExplorerTyped == Spec => []TypeOK
BY ExplorerInvariant, InvImpliesType, PTL

(***************************************************************************)
(* WholeAndFresh: load_table_metadata caches a table only when every one   *)
(* of its queries has been answered; Refresh Schema and connect empty both *)
(* caches, and no load that began before them ends after them.             *)
(***************************************************************************)
THEOREM CachedAreWholeAndFresh == Spec => []WholeAndFresh
<1>1. ExplorerInv => CachedIsComplete
  BY PartsAreThree DEF ExplorerInv, Caches, Entries, CachedIsComplete
<1>2. ExplorerInv => FreshSinceRefresh
  <2> SUFFICES ASSUME ExplorerInv, NEW key \in DOMAIN cache,
                      NEW i \in DOMAIN cache[key].parts
               PROVE  cache[key].parts[i] = epoch
    BY DEF ExplorerInv, Caches, FreshSinceRefresh
  <2>1. cache[key].parts \in Seq({epoch})
    BY DEF ExplorerInv, Caches, Entries
  <2> QED BY <2>1
<1>3. ExplorerInv => WholeAndFresh
  BY <1>1, <1>2 DEF WholeAndFresh
<1> QED BY <1>3, ExplorerInvariant, PTL

(***************************************************************************)
(* PanelShowsProvider: the cache of the panel and the one of its provider  *)
(* are emptied together and filled together, by every path.                *)
(***************************************************************************)
THEOREM CachesAgree == Spec => []PanelShowsProvider
<1>1. ExplorerInv => PanelShowsProvider
  BY DEF ExplorerInv, Caches, PanelShowsProvider
<1> QED BY <1>1, ExplorerInvariant, PTL

(***************************************************************************)
(* ShownIsItsOwn: the keys of the caches tell tables apart as long as the  *)
(* one looked for has no dot of its own, whatever the other is called.     *)
(***************************************************************************)
THEOREM ShownWhereItBelongs == Spec => []ShownIsItsOwn
<1>1. ExplorerInv => ShownIsItsOwn
  <2> SUFFICES ASSUME ExplorerInv, NEW t \in tables, cache_key(t) \in DOMAIN metadata,
                      ~HasDotOfItsOwn(t)
               PROVE  metadata[cache_key(t)].of = t
    BY DEF ShownIsItsOwn
  <2>1. /\ metadata[cache_key(t)].of \in Tables
        /\ cache_key(metadata[cache_key(t)].of) = cache_key(t)
    BY DEF ExplorerInv, Shape, Caches, Entries
  <2>2. t \in Tables
    BY DEF ExplorerInv, Shape
  <2> QED BY <2>1, <2>2, KeysApart
<1> QED BY <1>1, ExplorerInvariant, PTL
=============================================================================
