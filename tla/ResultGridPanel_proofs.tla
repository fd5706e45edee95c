----------------------- MODULE ResultGridPanel_proofs -----------------------
(***************************************************************************)
(* The page cache of the result grid, for pages, caches, screens and       *)
(* tables of any size.                                                     *)
(***************************************************************************)
EXTENDS ResultGridPanel, FiniteSetTheorems, WellFoundedInduction, TLAPS

(***************************************************************************)
(* Touches are given out in increasing order, so the page just fetched is  *)
(* younger than every other.                                               *)
(***************************************************************************)
Touched == /\ touches \in Nat
           /\ \A p \in DOMAIN pages : /\ pages[p].touch \in Nat
                                      /\ pages[p].touch <= touches
                                      /\ DOMAIN pages[p] = {"of", "sort", "rows", "touch"}

Bounded == IsFiniteSet(DOMAIN pages) /\ Cardinality(DOMAIN pages) <= MaxCached

GridInv == Touched /\ Bounded /\ PagesOfDisplay /\ ReturnedRowIsCached /\ OrderIsArrowOrNone

-----------------------------------------------------------------------------
LEMMA SomeIsLeast ==
  ASSUME NEW T \in SUBSET Nat, T # {}
  PROVE  \E m \in T : \A n \in T : m <= n
<1> DEFINE R == OpToRel(<, Nat)
<1>1. IsWellFoundedOn(R, Nat)
  BY NatLessThanWellFounded
<1>2. \E m \in T : \A n \in T : <<n, m>> \notin R
  <2> HIDE DEF R
  <2> QED BY <1>1, WFMin
<1>3. \A m, n \in T : <<n, m>> \notin R => m <= n
  BY DEF OpToRel
<1> QED BY <1>2, <1>3

LEMMA NoPagesIsEmpty == DOMAIN NoPages = {} /\ IsFiniteSet({}) /\ Cardinality({}) = 0
BY FS_EmptySet DEF NoPages

\* The page that goes is cached, and there is no older one.
LEMMA OldestIsLeast ==
  ASSUME NEW cache, DOMAIN cache # {}, \A p \in DOMAIN cache : cache[p].touch \in Nat
  PROVE  /\ OldestOf(cache) \in DOMAIN cache
         /\ \A q \in DOMAIN cache : cache[OldestOf(cache)].touch <= cache[q].touch
<1> DEFINE T == {cache[p].touch : p \in DOMAIN cache}
<1>1. \E m \in T : \A n \in T : m <= n
  <2>1. T \in SUBSET Nat /\ T # {}
    OBVIOUS
  <2> HIDE DEF T
  <2> QED BY <2>1, SomeIsLeast
<1>2. \E p \in DOMAIN cache : \A q \in DOMAIN cache : cache[p].touch <= cache[q].touch
  BY <1>1
<1> QED BY <1>2 DEF OldestOf

\* So it is not the youngest.
LEMMA OldestIsOld ==
  ASSUME NEW cache, NEW young \in DOMAIN cache, DOMAIN cache # {young},
         \A p \in DOMAIN cache : cache[p].touch \in Nat,
         \A p \in DOMAIN cache \ {young} : cache[p].touch < cache[young].touch
  PROVE  OldestOf(cache) \in DOMAIN cache \ {young}
<1>3. /\ OldestOf(cache) \in DOMAIN cache
      /\ \A q \in DOMAIN cache : cache[OldestOf(cache)].touch <= cache[q].touch
  BY OldestIsLeast
<1>4. PICK old \in DOMAIN cache \ {young} : TRUE
  OBVIOUS
<1>5. cache[old].touch < cache[young].touch /\ cache[OldestOf(cache)].touch <= cache[old].touch
  BY <1>3, <1>4
<1>6. OldestOf(cache) # young
  <2> SUFFICES ASSUME OldestOf(cache) = young PROVE FALSE
    OBVIOUS
  <2>1. cache[young].touch <= cache[old].touch
    BY <1>5
  <2>2. cache[young].touch \in Nat /\ cache[old].touch \in Nat
    BY <1>4
  <2> QED BY <1>5, <2>1, <2>2
<1> QED BY <1>3, <1>6

LEMMA InitEstablishesGrid == Init => GridInv
BY NoPagesIsEmpty, GridAssumption
   DEF Init, GridInv, Touched, Bounded, PagesOfDisplay, ReturnedRowIsCached, OrderIsArrowOrNone

LEMMA EmptiedKeepsGrid ==
  ASSUME GridInv, pages' = NoPages, shown' = NoPage, touches' \in {0, touches},
         sort' \in {arrow', NoSort}
  PROVE  GridInv'
BY NoPagesIsEmpty, GridAssumption
   DEF GridInv, Touched, Bounded, PagesOfDisplay, ReturnedRowIsCached, OrderIsArrowOrNone, NoPage

LEMMA StillKeepsGrid ==
  ASSUME GridInv, UNCHANGED <<pages, touches, result, sort, arrow>>, shown' \in {shown, NoPage}
  PROVE  GridInv'
BY DEF GridInv, Touched, Bounded, PagesOfDisplay, ReturnedRowIsCached, OrderIsArrowOrNone, NoPage

LEMMA HitKeepsGrid ==
  ASSUME GridInv, DrawFromCache
  PROVE  GridInv'
<1>1. /\ Page \in DOMAIN pages
      /\ pages' = [pages EXCEPT ![Page].touch = touches + 1]
      /\ touches' = touches + 1
      /\ shown' \in {Page, NoPage}
      /\ UNCHANGED <<result, sort, arrow>>
  BY DEF DrawFromCache, TouchedOnHit, ShownOf, query
<1>2. /\ DOMAIN pages' = DOMAIN pages
      /\ \A p \in DOMAIN pages : p # Page => pages'[p] = pages[p]
      /\ pages'[Page] = [pages[Page] EXCEPT !.touch = touches + 1]
  BY <1>1
<1>3. /\ pages'[Page].touch = touches + 1
      /\ pages'[Page].of = pages[Page].of /\ pages'[Page].sort = pages[Page].sort
      /\ DOMAIN pages'[Page] = DOMAIN pages[Page]
  BY <1>1, <1>2 DEF GridInv, Touched
<1> HIDE DEF Page
<1>4. Touched'
  BY <1>1, <1>2, <1>3 DEF GridInv, Touched
<1>5. Bounded' /\ OrderIsArrowOrNone'
  BY <1>1, <1>2 DEF GridInv, Bounded, OrderIsArrowOrNone
<1>6. PagesOfDisplay'
  BY <1>1, <1>2, <1>3 DEF GridInv, PagesOfDisplay
<1>7. ReturnedRowIsCached'
  BY <1>1, <1>2 DEF ReturnedRowIsCached, NoPage
<1> QED BY <1>4, <1>5, <1>6, <1>7 DEF GridInv

(***************************************************************************)
(* A fetch: the cache with the new page, then what trim_cache leaves.      *)
(***************************************************************************)
LEMMA WithFetchedShape ==
  ASSUME GridInv, Page \notin DOMAIN pages, NEW rows
  PROVE  LET cache == WithFetched(rows) IN
         /\ DOMAIN cache = DOMAIN pages \cup {Page}
         /\ cache[Page] = Fetched(rows)
         /\ \A p \in DOMAIN pages : cache[p] = pages[p] /\ p # Page
         /\ \A p \in DOMAIN cache : /\ cache[p].touch \in Nat
                                    /\ cache[p].touch <= touches + 1
                                    /\ DOMAIN cache[p] = {"of", "sort", "rows", "touch"}
                                    /\ cache[p].of = result /\ cache[p].sort = sort
         /\ \A p \in DOMAIN cache \ {Page} : cache[p].touch < cache[Page].touch
         /\ IsFiniteSet(DOMAIN cache) /\ Cardinality(DOMAIN cache) <= MaxCached + 1
<1> DEFINE cache == WithFetched(rows)
<1>1. /\ DOMAIN cache = DOMAIN pages \cup {Page}
      /\ cache[Page] = Fetched(rows)
      /\ \A p \in DOMAIN pages : cache[p] = pages[p] /\ p # Page
  BY DEF WithFetched
<1>2. /\ Fetched(rows).touch = touches + 1
      /\ Fetched(rows).of = result /\ Fetched(rows).sort = sort
      /\ DOMAIN Fetched(rows) = {"of", "sort", "rows", "touch"}
  BY DEF Fetched
<1> HIDE DEF cache, Page
<1>3. touches \in Nat
  BY DEF GridInv, Touched
<1>4. \A p \in DOMAIN cache : /\ cache[p].touch \in Nat
                              /\ cache[p].touch <= touches + 1
                              /\ DOMAIN cache[p] = {"of", "sort", "rows", "touch"}
                              /\ cache[p].of = result /\ cache[p].sort = sort
  BY <1>1, <1>2, <1>3 DEF GridInv, Touched, PagesOfDisplay
<1>5. \A p \in DOMAIN cache \ {Page} : cache[p].touch < cache[Page].touch
  BY <1>1, <1>2, <1>3 DEF GridInv, Touched
<1>6. IsFiniteSet(DOMAIN cache) /\ Cardinality(DOMAIN cache) <= MaxCached + 1
  <2>1. IsFiniteSet(DOMAIN pages) /\ Cardinality(DOMAIN pages) <= MaxCached
    BY DEF GridInv, Bounded
  <2>2. /\ IsFiniteSet(DOMAIN pages \cup {Page})
        /\ Cardinality(DOMAIN pages \cup {Page}) = Cardinality(DOMAIN pages) + 1
    BY <1>1, <2>1, FS_AddElement
  <2>3. Cardinality(DOMAIN pages) \in Nat
    BY <2>1, FS_CardinalityType
  <2> QED BY <1>1, <2>1, <2>2, <2>3, GridAssumption
<1> QED BY <1>1, <1>4, <1>5, <1>6 DEF cache

LEMMA FetchKeepsGrid ==
  ASSUME GridInv, DrawFetched
  PROVE  GridInv'
<1>1. PICK rows : /\ pages' = Trimmed(WithFetched(rows))
                  /\ shown' = ShownOf(WithFetched(rows))
  BY DEF DrawFetched
<1>2. /\ Page \notin DOMAIN pages /\ touches' = touches + 1
      /\ UNCHANGED <<result, sort, arrow>>
  BY DEF DrawFetched, query
<1> DEFINE cache == WithFetched(rows)
<1>3. /\ Page \in DOMAIN cache
      /\ \A p \in DOMAIN cache : /\ cache[p].touch \in Nat
                                 /\ cache[p].touch <= touches + 1
                                 /\ DOMAIN cache[p] = {"of", "sort", "rows", "touch"}
                                 /\ cache[p].of = result /\ cache[p].sort = sort
      /\ \A p \in DOMAIN cache \ {Page} : cache[p].touch < cache[Page].touch
      /\ IsFiniteSet(DOMAIN cache) /\ Cardinality(DOMAIN cache) <= MaxCached + 1
  <2>1. DOMAIN cache = DOMAIN pages \cup {Page}
    BY <1>2, WithFetchedShape
  <2> QED BY <1>2, <2>1, WithFetchedShape
<1>4. touches \in Nat
  BY DEF GridInv, Touched
<1>5. /\ DOMAIN pages' \subseteq DOMAIN cache /\ Page \in DOMAIN pages'
      /\ \A p \in DOMAIN pages' : pages'[p] = cache[p]
      /\ IsFiniteSet(DOMAIN pages') /\ Cardinality(DOMAIN pages') <= MaxCached
  <2> HIDE DEF cache, Page
  <2>0. Cardinality(DOMAIN cache) \in Nat
    BY <1>3, FS_CardinalityType
  <2>1. CASE TooMany(cache)
    <3>1. Cardinality(DOMAIN cache) > MaxCached
      BY <2>1 DEF TooMany
    <3>2. DOMAIN cache # {Page}
      <4>1. Cardinality({Page}) = 1
        BY FS_Singleton
      <4>2. ~(1 > MaxCached)
        BY GridAssumption
      <4> QED BY <3>1, <4>1, <4>2, Zenon
    <3>3. OldestOf(cache) \in DOMAIN cache \ {Page}
      BY <1>3, <3>2, OldestIsOld
    <3>4. pages' = Restrict(cache, DOMAIN cache \ {OldestOf(cache)})
      BY <1>1, <2>1 DEF Trimmed, cache
    <3>5. /\ DOMAIN pages' = DOMAIN cache \ {OldestOf(cache)}
          /\ \A p \in DOMAIN pages' : pages'[p] = cache[p]
      BY <3>4 DEF Restrict
    <3>6. /\ IsFiniteSet(DOMAIN pages')
          /\ Cardinality(DOMAIN pages') = Cardinality(DOMAIN cache) - 1
      BY <1>3, <3>3, <3>5, FS_RemoveElement
    <3>7. Cardinality(DOMAIN pages') <= MaxCached
      BY <1>3, <2>0, <3>6, GridAssumption
    <3> QED BY <1>3, <3>3, <3>5, <3>6, <3>7
  <2>2. CASE ~TooMany(cache)
    <3>1. pages' = cache
      BY <1>1, <2>2 DEF Trimmed, cache
    <3>2. Cardinality(DOMAIN cache) <= MaxCached
      BY <2>0, <2>2, GridAssumption DEF TooMany
    <3> QED BY <1>3, <3>1, <3>2
  <2> QED BY <2>1, <2>2
<1>6. shown' \in {Page, NoPage}
  BY <1>1 DEF ShownOf
<1> HIDE DEF cache, Page
<1>7. Touched'
  BY <1>2, <1>3, <1>4, <1>5 DEF Touched
<1>8. Bounded' /\ OrderIsArrowOrNone'
  BY <1>2, <1>5 DEF GridInv, Bounded, OrderIsArrowOrNone
<1>9. PagesOfDisplay'
  BY <1>2, <1>3, <1>5 DEF PagesOfDisplay
<1>10. ReturnedRowIsCached'
  BY <1>5, <1>6 DEF ReturnedRowIsCached, NoPage
<1> QED BY <1>7, <1>8, <1>9, <1>10 DEF GridInv

LEMMA NextKeepsGrid == GridInv /\ [Next]_vars => GridInv'
<1> SUFFICES ASSUME GridInv, [Next]_vars PROVE GridInv'
    OBVIOUS
<1>0. touches \in Nat
  BY DEF GridInv, Touched
<1>1. CASE Clear
  BY <1>1, EmptiedKeepsGrid DEF Clear, Reset, ResetPages
<1>2. ASSUME NEW r \in Results, SetResult(r[1], r[2])
      PROVE  GridInv'
  BY <1>2, EmptiedKeepsGrid DEF SetResult, SortAfterResult, ResetPages
<1>3. ASSUME NEW spec \in SortSpecs, SortBy(spec)
      PROVE  GridInv'
  BY <1>3, EmptiedKeepsGrid DEF SortBy, PagesAfterSort
<1>4. CASE Change
  BY <1>4, StillKeepsGrid DEF Change, query, frame
<1>5. ASSUME NEW first \in Rows, NEW n \in 1..MaxVisible, BeginFrame(first, n)
      PROVE  GridInv'
  BY <1>5, StillKeepsGrid DEF BeginFrame, query
<1>6. CASE DrawFromCache
  BY <1>6, HitKeepsGrid
<1>7. CASE DrawFetched
  BY <1>7, FetchKeepsGrid
<1>8. CASE DrawFailed
  BY <1>8, StillKeepsGrid DEF DrawFailed, query
<1>9. CASE UNCHANGED vars
  BY <1>9, StillKeepsGrid DEF vars, query, frame
<1> QED BY <1>1, <1>2, <1>3, <1>4, <1>5, <1>6, <1>7, <1>8, <1>9 DEF Next, Draw

LEMMA GridInvariant == Spec => []GridInv
<1>1. Init => GridInv
  BY InitEstablishesGrid
<1>2. GridInv /\ [Next]_vars => GridInv'
  BY NextKeepsGrid
<1> QED BY <1>1, <1>2, PTL DEF Spec

-----------------------------------------------------------------------------
(***************************************************************************)
(* PagesOfDisplay: set_result and a new order empty the cache, so no page  *)
(* of another query or another order is ever drawn.                        *)
(***************************************************************************)
THEOREM PagesAreOfDisplay == Spec => []PagesOfDisplay
<1>1. GridInv => PagesOfDisplay
  BY DEF GridInv
<1> QED BY <1>1, GridInvariant, PTL

(***************************************************************************)
(* ReturnedRowIsCached: for any cache of at least two pages, trim_cache    *)
(* never takes the page that row_at has just fetched.                      *)
(***************************************************************************)
THEOREM FetchedPageStays == Spec => []ReturnedRowIsCached
<1>1. GridInv => ReturnedRowIsCached
  BY DEF GridInv
<1> QED BY <1>1, GridInvariant, PTL

(***************************************************************************)
(* OrderIsArrowOrNone: rows come in the order that the arrow shows, or in  *)
(* the query's own.                                                        *)
(***************************************************************************)
THEOREM OrderFollowsArrow == Spec => []OrderIsArrowOrNone
<1>1. GridInv => OrderIsArrowOrNone
  BY DEF GridInv
<1> QED BY <1>1, GridInvariant, PTL

(***************************************************************************)
(* trim_cache removes one page at a time, and that is enough: the cache    *)
(* never holds more than max_cached_pages.                                 *)
(***************************************************************************)
THEOREM CacheIsBounded == Spec => [](Cardinality(DOMAIN pages) <= MaxCached)
<1>1. GridInv => Cardinality(DOMAIN pages) <= MaxCached
  BY DEF GridInv, Bounded
<1> QED BY <1>1, GridInvariant, PTL

-----------------------------------------------------------------------------
(***************************************************************************)
(* What the frames keep.  The rows of a frame that are still to be drawn   *)
(* are its last ones; the pages of a screen fit the cache; and as long as  *)
(* every row asked for has been drawn, the pages of the drawn rows are     *)
(* cached and younger than any other.  This is what makes trim_cache take  *)
(* a page that is not on the screen.                                       *)
(***************************************************************************)
PagesOnScreen == {PageOf(visible[i]) : i \in DOMAIN visible}
Drawn == 1..(Len(visible) - Len(todo))
DrawnPages == {PageOf(visible[i]) : i \in Drawn}

\* todo is what is left of the frame.
TodoIsTheRest ==
  /\ visible \in Seq(Nat) /\ todo \in Seq(Nat)
  /\ Len(todo) <= Len(visible)
  /\ \A i \in 1..Len(todo) : todo[i] = visible[Len(visible) - Len(todo) + i]

ScreenFits ==
  IsFiniteSet(PagesOnScreen) /\ Cardinality(PagesOnScreen) <= MaxCached

DrawnAreYoungest ==
  whole => /\ DrawnPages \subseteq DOMAIN pages
           /\ \A p \in DrawnPages, q \in DOMAIN pages \ DrawnPages :
                pages[q].touch < pages[p].touch

\* A frame that repeats a frame drawn whole finds all its pages.
RedrawIsCached == redraw => PagesOnScreen \subseteq DOMAIN pages /\ fetched = {}

FrameInv == TodoIsTheRest /\ ScreenFits /\ DrawnAreYoungest /\ RedrawIsCached

LEMMA Scaled ==
  ASSUME NEW k \in Nat, NEW a \in Nat, NEW b \in Nat, a <= b
  PROVE  k * a \in Nat /\ k * a <= k * b
OBVIOUS

LEMMA Divides ==
  ASSUME NEW size \in Nat \ {0}, NEW row \in Nat
  PROVE  /\ row \div size \in Nat
         /\ row \div size <= row
         /\ size * (row \div size) <= row
         /\ row < size * (row \div size + 1)
OBVIOUS

LEMMA Remains ==
  ASSUME NEW size \in Nat \ {0}, NEW row \in Nat
  PROVE  /\ row % size = row - size * (row \div size)
         /\ row % size \in 0..(size - 1)
OBVIOUS

LEMMA PageSpan ==
  ASSUME NEW size \in Nat \ {0}, NEW from \in Nat, NEW row \in Nat, NEW k \in Nat,
         from <= row, row <= from + size * k
  PROVE  from \div size <= row \div size /\ row \div size <= from \div size + k
<1> DEFINE p == from \div size
           q == row \div size
<1>1. /\ p \in Nat /\ size * p <= from /\ from < size * (p + 1)
      /\ q \in Nat /\ size * q <= row /\ row < size * (q + 1)
  BY Divides
<1> HIDE DEF p, q
<1>2. p <= q
  <2> SUFFICES ASSUME q + 1 <= p PROVE FALSE
    BY <1>1
  <2>1. size * (q + 1) <= size * p
    BY <1>1, Scaled
  <2>2. size * (q + 1) \in Nat /\ size * p \in Nat
    BY <1>1, Scaled
  <2> QED BY <1>1, <2>1, <2>2
<1>3. q <= p + k
  <2> SUFFICES ASSUME p + k + 1 <= q PROVE FALSE
    BY <1>1
  <2>1. size * (p + k + 1) <= size * q
    BY <1>1, Scaled
  <2>2. size * (p + k + 1) = size * (p + 1) + size * k
    BY <1>1
  <2>3. size * (p + 1) \in Nat /\ size * q \in Nat /\ size * k \in Nat
    BY <1>1, Scaled
  <2> QED BY <1>1, <2>1, <2>2, <2>3
<1> QED BY <1>2, <1>3 DEF p, q

LEMMA FrameTouchesNothing ==
  ASSUME FrameInv,
         \/ UNCHANGED <<pages, todo, visible, whole, redraw, fetched>>
         \/ todo = <<>> /\ todo' = <<>> /\ ~whole' /\ ~redraw' /\ visible' \in {visible, <<>>}
  PROVE  FrameInv'
<1>1. CASE UNCHANGED <<pages, todo, visible, whole, redraw, fetched>>
  <2>1. PagesOnScreen' = PagesOnScreen /\ DrawnPages' = DrawnPages
    BY <1>1 DEF PagesOnScreen, Drawn, DrawnPages
  <2>2. TodoIsTheRest'
    BY <1>1 DEF FrameInv, TodoIsTheRest
  <2>3. ScreenFits' /\ RedrawIsCached'
    BY <1>1, <2>1 DEF FrameInv, ScreenFits, RedrawIsCached
  <2>4. DrawnAreYoungest'
    BY <1>1, <2>1 DEF FrameInv, DrawnAreYoungest
  <2> QED BY <2>2, <2>3, <2>4 DEF FrameInv
<1>2. ASSUME todo = <<>>, todo' = <<>>, ~whole', ~redraw', visible' \in {visible, <<>>}
      PROVE  FrameInv'
  <2>1. TodoIsTheRest'
    <3>1. visible' \in Seq(Nat)
      <4>1. visible \in Seq(Nat) /\ <<>> \in Seq(Nat)
        BY DEF FrameInv, TodoIsTheRest
      <4> QED BY <1>2, <4>1, Zenon
    <3>2. todo' \in Seq(Nat) /\ Len(todo') = 0 /\ Len(visible') \in Nat
      BY <1>2, <3>1
    <3> QED BY <3>1, <3>2 DEF TodoIsTheRest
  <2>2. ScreenFits'
    <3>1. CASE visible' = visible
      BY <3>1 DEF FrameInv, ScreenFits, PagesOnScreen
    <3>2. CASE visible' = <<>>
      <4>1. PagesOnScreen' = {}
        BY <3>2 DEF PagesOnScreen
      <4> QED BY <4>1, NoPagesIsEmpty, GridAssumption DEF ScreenFits
    <3> QED BY <1>2, <3>1, <3>2
  <2> QED BY <1>2, <2>1, <2>2 DEF FrameInv, DrawnAreYoungest, RedrawIsCached
<1> QED BY <1>1, <1>2

LEMMA InitEstablishesFrame == Init => FrameInv
<1> SUFFICES ASSUME Init PROVE FrameInv
  OBVIOUS
<1>1. PagesOnScreen = {}
  BY DEF Init, PagesOnScreen
<1> QED BY <1>1, NoPagesIsEmpty, GridAssumption
     DEF Init, FrameInv, TodoIsTheRest, ScreenFits, DrawnAreYoungest, RedrawIsCached

LEMMA ScreenShape ==
  ASSUME NEW first \in Nat, NEW n \in Nat
  PROVE  /\ Screen(first, n) \in Seq(Nat)
         /\ Len(Screen(first, n)) = n + 1
         /\ Screen(first, n)[1] = 0
         /\ \A i \in 2..(n + 1) : Screen(first, n)[i] = first + i - 2
<1> DEFINE rest == [i \in 1..n |-> first + i - 1]
<1>1. rest \in Seq(Nat) /\ Len(rest) = n
  OBVIOUS
<1>2. \A i \in 1..n : rest[i] = first + i - 1
  OBVIOUS
<1>3. Screen(first, n) = <<0>> \o rest
  BY DEF Screen
<1> HIDE DEF rest
<1>4. /\ <<0>> \o rest \in Seq(Nat)
      /\ Len(<<0>> \o rest) = n + 1
      /\ (<<0>> \o rest)[1] = 0
  BY <1>1
<1>5. ASSUME NEW i \in 2..(n + 1)
      PROVE  (<<0>> \o rest)[i] = first + i - 2
  <2> DEFINE j == i - 1
  <2>1. (<<0>> \o rest)[i] = rest[j]
    BY <1>1
  <2>2. j \in 1..n /\ first + j - 1 = first + i - 2
    OBVIOUS
  <2> HIDE DEF j
  <2>3. rest[j] = first + j - 1
    BY <1>2, <2>2
  <2> QED BY <2>1, <2>2, <2>3
<1> QED BY <1>3, <1>4, <1>5

LEMMA ScreensFit ==
  ASSUME NEW first \in Nat, NEW n \in 1..MaxVisible, visible' = Screen(first, n)
  PROVE  ScreenFits'
<1> DEFINE p == PageOf(first)
           Span == p..(p + MaxCached - 2)
<1>0. n \in Nat
  BY GridAssumption
<1>1. PageOf(0) = 0 /\ p \in Nat
  BY GridAssumption, Divides DEF PageOf
<1>2. ASSUME NEW row \in first..(first + n - 1)
      PROVE  PageOf(row) \in Span
  <2>1. row \in Nat /\ MaxCached - 2 \in Nat
    BY GridAssumption
  <2>2. row <= first + PageSize * (MaxCached - 2)
    <3>1. PageSize * (MaxCached - 2) \in Nat
      BY <2>1, GridAssumption, Scaled
    <3> HIDE DEF Span, p
    <3> QED BY <3>1, GridAssumption
  <2>3. p <= PageOf(row) /\ PageOf(row) <= p + (MaxCached - 2)
    <3> DEFINE k == MaxCached - 2
    <3>1. k \in Nat /\ row <= first + PageSize * k /\ first <= row
      BY <2>1, <2>2
    <3> HIDE DEF k
    <3>2. first \div PageSize <= row \div PageSize /\ row \div PageSize <= first \div PageSize + k
      BY <2>1, <3>1, GridAssumption, PageSpan
    <3> QED BY <3>2 DEF PageOf, k
  <2>4. PageOf(row) \in Nat
    BY <2>1, GridAssumption, Divides DEF PageOf
  <2> HIDE DEF p
  <2> QED BY <1>1, <2>1, <2>3, <2>4, GridAssumption
<1>3. PagesOnScreen' \subseteq Span \cup {0}
  <2> SUFFICES ASSUME NEW i \in DOMAIN Screen(first, n)
               PROVE  PageOf(Screen(first, n)[i]) \in Span \cup {0}
    BY DEF PagesOnScreen
  <2>1. i \in 1..(n + 1)
    <3>1. Screen(first, n) \in Seq(Nat) /\ Len(Screen(first, n)) = n + 1
      BY <1>0, ScreenShape
    <3>2. DOMAIN Screen(first, n) = 1..Len(Screen(first, n))
      BY <3>1
    <3> QED BY <3>1, <3>2
  <2>2. CASE i = 1
    BY <1>0, <1>1, <2>2, ScreenShape
  <2>3. CASE i # 1
    <3>1. Screen(first, n)[i] = first + i - 2 /\ first + i - 2 \in first..(first + n - 1)
      BY <1>0, <2>1, <2>3, ScreenShape
    <3> QED BY <1>2, <3>1
  <2> QED BY <2>2, <2>3
<1> HIDE DEF p
<1>4. IsFiniteSet(Span) /\ Cardinality(Span) = MaxCached - 1
  <2> DEFINE e == p + MaxCached - 2
  <2>1. p \in Int /\ e \in Int /\ ~(p > e) /\ e - p + 1 = MaxCached - 1
    BY <1>1, GridAssumption
  <2> HIDE DEF e
  <2>2. IsFiniteSet(p..e) /\ Cardinality(p..e) = e - p + 1
    BY <2>1, FS_Interval
  <2> QED BY <2>1, <2>2 DEF e
<1> HIDE DEF Span
<1>5. IsFiniteSet(Span \cup {0}) /\ Cardinality(Span \cup {0}) <= MaxCached
  <2>1. /\ IsFiniteSet(Span \cup {0})
        /\ Cardinality(Span \cup {0}) \in {Cardinality(Span), Cardinality(Span) + 1}
    BY <1>4, FS_AddElement
  <2> QED BY <1>4, <2>1, GridAssumption
<1>6. /\ IsFiniteSet(PagesOnScreen')
      /\ Cardinality(PagesOnScreen') <= Cardinality(Span \cup {0})
  BY <1>3, <1>5, FS_Subset
<1>7. Cardinality(PagesOnScreen') \in Nat /\ Cardinality(Span \cup {0}) \in Nat
  BY <1>5, <1>6, FS_CardinalityType
<1> QED BY <1>5, <1>6, <1>7, GridAssumption DEF ScreenFits

(***************************************************************************)
(* One row of the frame is drawn.                                          *)
(***************************************************************************)
LEMMA RowIsDrawn ==
  ASSUME FrameInv, ~BetweenFrames, todo' = Tail(todo), visible' = visible
  PROVE  /\ TodoIsTheRest' /\ ScreenFits'
         /\ Row \in Nat
         /\ Page \in PagesOnScreen
         /\ PagesOnScreen' = PagesOnScreen
         /\ DrawnPages' = DrawnPages \cup {Page}
         /\ DrawnPages' \subseteq PagesOnScreen
<1> DEFINE k == Len(visible) - Len(todo)
<1>1. /\ visible \in Seq(Nat) /\ todo \in Seq(Nat) /\ todo # <<>>
      /\ Len(todo) <= Len(visible)
      /\ \A i \in 1..Len(todo) : todo[i] = visible[k + i]
  BY DEF FrameInv, TodoIsTheRest, BetweenFrames
<1>2. Len(todo) \in Nat \ {0} /\ Len(visible) \in Nat /\ DOMAIN visible = 1..Len(visible)
  BY <1>1
<1>3. /\ todo' \in Seq(Nat) /\ Len(todo') = Len(todo) - 1
      /\ \A i \in 1..Len(todo') : todo'[i] = todo[i + 1]
  BY <1>1
<1>4. Row = todo[1] /\ Row \in Nat
  BY <1>1 DEF Row
<1>5. Row = visible[k + 1] /\ k + 1 \in DOMAIN visible /\ k \in Nat
  BY <1>1, <1>2, <1>4
<1>6. TodoIsTheRest'
  <2>1. ASSUME NEW i \in 1..Len(todo')
        PROVE  todo'[i] = visible'[Len(visible') - Len(todo') + i]
    <3> DEFINE j == i + 1
    <3>1. todo'[i] = todo[j]
      BY <1>3
    <3>2. j \in 1..Len(todo) /\ k + j = Len(visible') - Len(todo') + i
      BY <1>2, <1>3
    <3> HIDE DEF j, k
    <3> QED BY <1>1, <3>1, <3>2
  <2>2. visible' \in Seq(Nat) /\ Len(todo') <= Len(visible')
    BY <1>1, <1>2, <1>3
  <2> QED BY <1>3, <2>1, <2>2 DEF TodoIsTheRest
<1>7. PagesOnScreen' = PagesOnScreen
  BY DEF PagesOnScreen
<1>8. ScreenFits'
  BY <1>7 DEF FrameInv, ScreenFits
<1>9. Page \in PagesOnScreen
  BY <1>5 DEF PagesOnScreen, Page
<1>10. DrawnPages' = DrawnPages \cup {Page}
  <2>1. Len(visible') - Len(todo') = k + 1
    BY <1>2, <1>3
  <2>2. Drawn' = Drawn \cup {k + 1}
    BY <1>5, <2>1 DEF Drawn
  <2>3. PageOf(visible[k + 1]) = Page
    BY <1>5 DEF Page
  <2> HIDE DEF k
  <2> QED BY <2>2, <2>3 DEF DrawnPages
<1>11. DrawnPages' \subseteq PagesOnScreen
  <2>1. Drawn \subseteq DOMAIN visible
    BY <1>2 DEF Drawn
  <2>2. DrawnPages \subseteq PagesOnScreen
    BY <2>1 DEF DrawnPages, PagesOnScreen
  <2> QED BY <1>9, <1>10, <2>2
<1> QED BY <1>4, <1>6, <1>7, <1>8, <1>9, <1>10, <1>11

LEMMA BeginKeepsFrame ==
  ASSUME GridInv, FrameInv, NEW first \in Rows, NEW n \in 1..MaxVisible, BeginFrame(first, n)
  PROVE  FrameInv'
<1>1. /\ todo = <<>> /\ visible' = Screen(first, n) /\ todo' = Screen(first, n)
      /\ redraw' = (whole /\ visible = Screen(first, n))
      /\ fetched' = {} /\ pages' = pages
  BY DEF BeginFrame, BetweenFrames
<1>2. first \in Nat /\ n \in Nat
  BY GridAssumption DEF Rows
<1>3. Screen(first, n) \in Seq(Nat) /\ Len(Screen(first, n)) \in Nat
  BY <1>2, ScreenShape
<1>4. TodoIsTheRest'
  BY <1>1, <1>3 DEF TodoIsTheRest
<1>5. ScreenFits'
  BY <1>1, <1>2, ScreensFit
<1>6. DrawnAreYoungest'
  <2>1. Drawn' = {}
    BY <1>1, <1>3 DEF Drawn
  <2>2. DrawnPages' = {}
    BY <2>1 DEF DrawnPages
  <2> QED BY <2>2 DEF DrawnAreYoungest
<1>7. RedrawIsCached'
  <2> SUFFICES ASSUME redraw' PROVE PagesOnScreen' \subseteq DOMAIN pages
    BY <1>1 DEF RedrawIsCached
  <2>1. whole /\ visible' = visible
    BY <1>1
  <2>2. visible \in Seq(Nat) /\ Len(visible) - Len(todo) = Len(visible)
    BY <1>1 DEF FrameInv, TodoIsTheRest
  <2>3. PagesOnScreen' = DrawnPages
    BY <2>1, <2>2 DEF PagesOnScreen, DrawnPages, Drawn
  <2> QED BY <2>1, <2>3 DEF FrameInv, DrawnAreYoungest
<1> QED BY <1>4, <1>5, <1>6, <1>7 DEF FrameInv

LEMMA HitKeepsFrame ==
  ASSUME GridInv, FrameInv, DrawFromCache
  PROVE  FrameInv'
<1>1. /\ ~BetweenFrames /\ todo' = Tail(todo)
      /\ Page \in DOMAIN pages
      /\ pages' = [pages EXCEPT ![Page].touch = touches + 1]
      /\ UNCHANGED <<visible, whole, redraw, fetched>>
  BY DEF DrawFromCache, TouchedOnHit
<1>2. /\ TodoIsTheRest' /\ ScreenFits'
      /\ PagesOnScreen' = PagesOnScreen
      /\ DrawnPages' = DrawnPages \cup {Page}
  BY <1>1, RowIsDrawn
<1>3. /\ DOMAIN pages' = DOMAIN pages
      /\ \A p \in DOMAIN pages : p # Page => pages'[p] = pages[p]
      /\ pages'[Page] = [pages[Page] EXCEPT !.touch = touches + 1]
  BY <1>1
<1>4. pages'[Page].touch = touches + 1
  BY <1>1, <1>3 DEF GridInv, Touched
<1> HIDE DEF Page
<1>5. DrawnAreYoungest'
  <2> SUFFICES ASSUME whole
               PROVE  /\ DrawnPages' \subseteq DOMAIN pages'
                      /\ \A p \in DrawnPages', q \in DOMAIN pages' \ DrawnPages' :
                           pages'[q].touch < pages'[p].touch
    BY <1>1 DEF DrawnAreYoungest
  <2>1. DrawnPages' \subseteq DOMAIN pages'
    BY <1>1, <1>2, <1>3 DEF FrameInv, DrawnAreYoungest
  <2>2. ASSUME NEW p \in DrawnPages', NEW q \in DOMAIN pages' \ DrawnPages'
        PROVE  pages'[q].touch < pages'[p].touch
    <3>1. /\ q \in DOMAIN pages \ DrawnPages /\ pages'[q] = pages[q]
          /\ pages[q].touch \in Nat /\ pages[q].touch <= touches /\ touches \in Nat
      BY <1>2, <1>3 DEF GridInv, Touched
    <3>2. CASE p = Page
      BY <1>4, <3>1, <3>2
    <3>3. CASE p # Page
      <4>1. p \in DrawnPages
        BY <1>2, <3>3
      <4>2. p \in DOMAIN pages /\ pages'[p] = pages[p]
        BY <1>3, <3>3, <4>1 DEF FrameInv, DrawnAreYoungest
      <4>3. pages[q].touch < pages[p].touch
        BY <3>1, <4>1 DEF FrameInv, DrawnAreYoungest
      <4> QED BY <3>1, <4>2, <4>3
    <3> QED BY <3>2, <3>3
  <2> QED BY <2>1, <2>2
<1>6. RedrawIsCached'
  BY <1>1, <1>2, <1>3 DEF FrameInv, RedrawIsCached
<1> QED BY <1>2, <1>5, <1>6 DEF FrameInv

LEMMA FailureKeepsFrame ==
  ASSUME FrameInv, DrawFailed
  PROVE  FrameInv'
<1>1. /\ ~BetweenFrames /\ todo' = Tail(todo) /\ visible' = visible
      /\ Page \notin DOMAIN pages /\ ~whole' /\ redraw' = redraw
  BY DEF DrawFailed
<1>2. TodoIsTheRest' /\ ScreenFits' /\ Page \in PagesOnScreen
  BY <1>1, RowIsDrawn
<1>3. ~redraw
  BY <1>1, <1>2 DEF FrameInv, RedrawIsCached
<1> QED BY <1>1, <1>2, <1>3 DEF FrameInv, DrawnAreYoungest, RedrawIsCached

(***************************************************************************)
(* When the cache is over its limit, it holds more pages than the screen   *)
(* has: one that is not drawn, and that one is older than all that are.    *)
(***************************************************************************)
LEMMA FetchKeepsFrame ==
  ASSUME GridInv, FrameInv, DrawFetched
  PROVE  FrameInv'
<1>1. PICK rows : pages' = Trimmed(WithFetched(rows))
  BY DEF DrawFetched
<1>2. /\ ~BetweenFrames /\ todo' = Tail(todo)
      /\ Page \notin DOMAIN pages
      /\ UNCHANGED <<visible, whole, redraw>>
  BY DEF DrawFetched
<1>3. /\ TodoIsTheRest' /\ ScreenFits'
      /\ Page \in PagesOnScreen
      /\ DrawnPages' = DrawnPages \cup {Page}
      /\ DrawnPages' \subseteq PagesOnScreen
  BY <1>2, RowIsDrawn
<1>4. RedrawIsCached'
  BY <1>2, <1>3 DEF FrameInv, RedrawIsCached
<1> SUFFICES ASSUME whole
             PROVE  /\ DrawnPages' \subseteq DOMAIN pages'
                    /\ \A p \in DrawnPages', q \in DOMAIN pages' \ DrawnPages' :
                         pages'[q].touch < pages'[p].touch
  BY <1>2, <1>3, <1>4 DEF FrameInv, DrawnAreYoungest
<1> DEFINE cache == WithFetched(rows)
<1>5. /\ DOMAIN cache = DOMAIN pages \cup {Page}
      /\ \A p \in DOMAIN pages : cache[p] = pages[p] /\ p # Page
      /\ \A p \in DOMAIN cache : cache[p].touch \in Nat
      /\ \A p \in DOMAIN cache \ {Page} : cache[p].touch < cache[Page].touch
      /\ IsFiniteSet(DOMAIN cache)
  BY <1>2, WithFetchedShape
<1>6. pages' = IF TooMany(cache) THEN Restrict(cache, DOMAIN cache \ {OldestOf(cache)}) ELSE cache
  BY <1>1 DEF Trimmed
<1> HIDE DEF cache, Page
<1>7. DrawnPages' \subseteq DOMAIN cache
  BY <1>3, <1>5 DEF FrameInv, DrawnAreYoungest
<1>8. ASSUME NEW p \in DrawnPages', NEW q \in DOMAIN cache \ DrawnPages'
      PROVE  cache[q].touch < cache[p].touch
  <2>1. CASE p = Page
    BY <1>3, <1>5, <2>1
  <2>2. CASE p # Page
    <3>1. p \in DrawnPages /\ q \in DOMAIN pages \ DrawnPages
      BY <1>3, <1>5, <2>2
    <3>2. p \in DOMAIN pages /\ pages[q].touch < pages[p].touch
      BY <3>1 DEF FrameInv, DrawnAreYoungest
    <3> QED BY <1>5, <3>1, <3>2
  <2> QED BY <2>1, <2>2
<1>9. /\ DrawnPages' \subseteq DOMAIN pages'
      /\ DOMAIN pages' \subseteq DOMAIN cache
      /\ \A p \in DOMAIN pages' : pages'[p] = cache[p]
  <2>1. CASE ~TooMany(cache)
    BY <1>6, <1>7, <2>1
  <2>2. CASE TooMany(cache)
    <3>1. /\ DOMAIN pages' = DOMAIN cache \ {OldestOf(cache)}
          /\ \A p \in DOMAIN pages' : pages'[p] = cache[p]
      BY <1>6, <2>2 DEF Restrict
    <3>2. /\ IsFiniteSet(PagesOnScreen) /\ Cardinality(PagesOnScreen) <= MaxCached
          /\ IsFiniteSet(DrawnPages')
          /\ Cardinality(DrawnPages') <= Cardinality(PagesOnScreen)
      BY <1>3, FS_Subset DEF FrameInv, ScreenFits
    <3>3. /\ Cardinality(PagesOnScreen) \in Nat /\ Cardinality(DrawnPages') \in Nat
          /\ Cardinality(DOMAIN cache) \in Nat
      BY <1>5, <3>2, FS_CardinalityType
    <3>4. DOMAIN cache # DrawnPages'
      <4>1. Cardinality(DOMAIN cache) > MaxCached
        BY <2>2 DEF TooMany
      <4>2. Cardinality(DrawnPages') # Cardinality(DOMAIN cache)
        BY <3>2, <3>3, <4>1, GridAssumption
      <4> QED BY <4>2, Zenon
    <3>5. PICK q \in DOMAIN cache \ DrawnPages' : TRUE
      BY <1>7, <3>4
    <3>6. /\ OldestOf(cache) \in DOMAIN cache
          /\ cache[OldestOf(cache)].touch <= cache[q].touch
      BY <1>5, <3>5, OldestIsLeast
    <3>7. OldestOf(cache) \notin DrawnPages'
      <4> SUFFICES ASSUME OldestOf(cache) \in DrawnPages' PROVE FALSE
        OBVIOUS
      <4>1. cache[q].touch < cache[OldestOf(cache)].touch
        BY <1>8, <3>5
      <4>2. cache[q].touch \in Nat /\ cache[OldestOf(cache)].touch \in Nat
        BY <1>5, <3>5, <3>6
      <4> QED BY <3>6, <4>1, <4>2
    <3> QED BY <1>7, <3>1, <3>7
  <2> QED BY <2>1, <2>2
<1> QED BY <1>7, <1>8, <1>9

LEMMA NextKeepsFrame == GridInv /\ FrameInv /\ [Next]_vars => FrameInv'
<1> SUFFICES ASSUME GridInv, FrameInv, [Next]_vars PROVE FrameInv'
    OBVIOUS
<1>1. CASE Clear
  BY <1>1, FrameTouchesNothing DEF Clear, Reset, ResetPages, BetweenFrames
<1>2. ASSUME NEW r \in Results, SetResult(r[1], r[2])
      PROVE  FrameInv'
  BY <1>2, FrameTouchesNothing DEF SetResult, ResetPages, BetweenFrames
<1>3. ASSUME NEW spec \in SortSpecs, SortBy(spec)
      PROVE  FrameInv'
  BY <1>3, FrameTouchesNothing DEF SortBy, BetweenFrames
<1>4. CASE Change
  BY <1>4, FrameTouchesNothing DEF Change, frame
<1>5. ASSUME NEW first \in Rows, NEW n \in 1..MaxVisible, BeginFrame(first, n)
      PROVE  FrameInv'
  BY <1>5, BeginKeepsFrame
<1>6. CASE DrawFromCache
  BY <1>6, HitKeepsFrame
<1>7. CASE DrawFetched
  BY <1>7, FetchKeepsFrame
<1>8. CASE DrawFailed
  BY <1>8, FailureKeepsFrame
<1>9. CASE UNCHANGED vars
  BY <1>9, FrameTouchesNothing DEF vars, frame
<1> QED BY <1>1, <1>2, <1>3, <1>4, <1>5, <1>6, <1>7, <1>8, <1>9 DEF Next, Draw

LEMMA FrameInvariant == Spec => []FrameInv
<1>1. Init => FrameInv
  BY InitEstablishesFrame
<1>2. GridInv /\ FrameInv /\ [Next]_vars => FrameInv'
  BY NextKeepsFrame
<1> QED BY <1>1, <1>2, GridInvariant, PTL DEF Spec

(***************************************************************************)
(* RedrawFetchesNothing: on any screen that fits the cache, whatever was   *)
(* scrolled past before, drawing a frame again runs no query.              *)
(***************************************************************************)
THEOREM RedrawsAreFree == Spec => []RedrawFetchesNothing
<1>1. FrameInv => RedrawFetchesNothing
  BY DEF FrameInv, RedrawIsCached, RedrawFetchesNothing
<1> QED BY <1>1, FrameInvariant, PTL

-----------------------------------------------------------------------------
(***************************************************************************)
(* Types.  A page is a sequence of positions whatever fetch_page does with *)
(* ties; and a row is drawn only while there is a result and, in the       *)
(* model, a touch left for it.                                             *)
(***************************************************************************)
HasResult == /\ cursor # "none" => result > 0
             /\ ~BetweenFrames => cursor # "none"

TouchesLeft == touches + Len(todo) <= MaxTouches

\* TypeOK in three parts: the result, the cache, the frame.
ResultTypes == /\ cursor \in CursorKinds \cup {"none"}
               /\ result \in 0..MaxResults
               /\ {table, counted} \subseteq Tables \cup {<<>>}
               /\ {sort, arrow} \subseteq Orders
               /\ changed \in BOOLEAN /\ page_error \in BOOLEAN
CacheTypes == /\ DOMAIN pages \subseteq 0..MaxRows
              /\ \A p \in DOMAIN pages : pages[p] \in CachedPage
              /\ touches \in 0..MaxTouches
FrameTypes == /\ todo \in Seq(Rows) /\ visible \in Seq(Rows)
              /\ shown \in 0..MaxRows
              /\ {whole, redraw} \subseteq BOOLEAN
              /\ fetched \subseteq 0..MaxRows

TypeInv == ResultTypes /\ CacheTypes /\ FrameTypes /\ HasResult /\ TouchesLeft

LEMMA PageSizeOf ==
  ASSUME NEW rows \in Seq(Nat), NEW offset \in Nat, NEW limit \in Nat, offset < Len(rows)
  PROVE  /\ PageEnd(rows, offset, limit) \in {offset + limit, Len(rows)}
         /\ PageEnd(rows, offset, limit) <= offset + limit
         /\ PageEnd(rows, offset, limit) - offset \in 0..limit
<1> DEFINE S == {offset + limit, Len(rows)}
           m == PageEnd(rows, offset, limit)
<1>1. \E x \in S : \A y \in S : x <= y
  <2>1. CASE offset + limit <= Len(rows)
    BY <2>1
  <2>2. CASE Len(rows) <= offset + limit
    BY <2>2
  <2> QED BY <2>1, <2>2
<1>2. m = CHOOSE x \in S : \A y \in S : x <= y
  BY DEF PageEnd, Min
<1>3. m \in S /\ \A y \in S : m <= y
  <2> HIDE DEF S, m
  <2> QED BY <1>1, <1>2
<1> QED BY <1>3

LEMMA PagesHoldPositions ==
  ASSUME NEW kind, NEW rows \in Seq(Nat), NEW order, NEW offset \in Nat, NEW limit \in Nat,
         NEW page \in fetch_page(kind, rows, order, offset, limit)
  PROVE  page \in Seq(DOMAIN rows) /\ Len(page) <= limit
<1> DEFINE size == IF offset < Len(rows) THEN PageEnd(rows, offset, limit) - offset ELSE 0
           Fits(i) == {x \in DOMAIN rows : offset + i \in Places(kind, rows, order, x)}
           All == UNION {Fits(i) : i \in 1..size}
<1>1. page \in [1..size -> All]
  BY DEF fetch_page
<1>2. All \subseteq DOMAIN rows
  OBVIOUS
<1>3. size \in 0..limit
  BY PageSizeOf
<1> HIDE DEF size, All
<1>4. page \in [1..size -> DOMAIN rows] /\ size \in Nat
  BY <1>1, <1>2, <1>3
<1>5. page \in Seq(DOMAIN rows) /\ Len(page) = size
  BY <1>4
<1> QED BY <1>3, <1>5

LEMMA ScreenOfRows ==
  ASSUME NEW first \in Nat, NEW n \in Nat \ {0}, first + n <= MaxRows
  PROVE  Screen(first, n) \in Seq(Rows)
<1> DEFINE rest == [i \in 1..n |-> first + i - 1]
<1>1. 0 \in Rows /\ \A i \in 1..n : first + i - 1 \in Rows
  BY GridAssumption DEF Rows
<1>2. rest \in Seq(Rows)
  BY <1>1
<1>3. <<0>> \in Seq(Rows)
  BY <1>1
<1> HIDE DEF rest
<1>4. <<0>> \o rest \in Seq(Rows)
  BY <1>2, <1>3
<1> QED BY <1>4 DEF Screen, rest

LEMMA TablesAreShort ==
  ASSUME NEW rows \in Tables \cup {<<>>}
  PROVE  rows \in Seq(Nat) /\ Len(rows) <= MaxRows
<1>1. CASE rows \in Tables
  BY <1>1, GridAssumption
<1>2. CASE rows = <<>>
  <2>1. rows \in Seq(Nat) /\ Len(rows) = 0
    BY <1>2
  <2> QED BY <2>1, GridAssumption
<1> QED BY <1>1, <1>2

LEMMA InitIsTyped == Init => TypeInv
<1> SUFFICES ASSUME Init PROVE TypeInv
  OBVIOUS
<1>1. ResultTypes
  <2>1. cursor \in CursorKinds \cup {"none"} /\ result \in 0..MaxResults
    BY GridAssumption DEF Init
  <2>2. {table, counted} \subseteq Tables \cup {<<>>} /\ {sort, arrow} \subseteq Orders
    BY Zenon DEF Init, Orders
  <2>3. changed \in BOOLEAN /\ page_error \in BOOLEAN
    BY DEF Init
  <2> QED BY <2>1, <2>2, <2>3 DEF ResultTypes
<1>2. CacheTypes
  BY NoPagesIsEmpty, GridAssumption DEF Init, CacheTypes
<1>3. FrameTypes
  <2>1. todo \in Seq(Rows) /\ visible \in Seq(Rows) /\ fetched \subseteq 0..MaxRows
    BY DEF Init
  <2>2. shown \in 0..MaxRows
    BY GridAssumption DEF Init, NoPage
  <2>3. {whole, redraw} \subseteq BOOLEAN
    BY Zenon DEF Init
  <2> QED BY <2>1, <2>2, <2>3 DEF FrameTypes
<1> QED BY <1>1, <1>2, <1>3, GridAssumption DEF Init, TypeInv, HasResult, TouchesLeft, BetweenFrames

\* Clear, set_result and a new order: no pages, and no frame.
LEMMA EmptiedIsTyped ==
  ASSUME TypeInv, pages' = NoPages, shown' = NoPage, fetched' = {},
         todo = <<>>, todo' = <<>>, visible' \in {visible, <<>>},
         ~whole', ~redraw', whole' \in BOOLEAN, redraw' \in BOOLEAN, touches' \in {0, touches}
  PROVE  CacheTypes' /\ FrameTypes' /\ TouchesLeft' /\ BetweenFrames'
<1>1. CacheTypes'
  BY NoPagesIsEmpty, GridAssumption DEF TypeInv, CacheTypes
<1>2. visible' \in Seq(Rows) /\ todo' \in Seq(Rows)
  <2>1. visible \in Seq(Rows) /\ <<>> \in Seq(Rows)
    BY DEF TypeInv, FrameTypes
  <2> QED BY <2>1, Zenon
<1>3. {whole', redraw'} \subseteq BOOLEAN
  OBVIOUS
<1>4. NoPage \in 0..MaxRows
  BY GridAssumption DEF NoPage
<1>5. TouchesLeft'
  <2>1. Len(todo') = 0
    OBVIOUS
  <2>2. touches' \in 0..MaxTouches
    BY <1>1 DEF CacheTypes
  <2>3. touches' + Len(todo') <= MaxTouches
    <3>1. \A used \in 0..MaxTouches : used + 0 <= MaxTouches
      BY GridAssumption
    <3> QED BY <2>1, <2>2, <3>1, Zenon
  <2> QED BY <2>3 DEF TouchesLeft
<1> QED BY <1>1, <1>2, <1>3, <1>4, <1>5 DEF FrameTypes, BetweenFrames

LEMMA StillIsTyped ==
  ASSUME TypeInv, [Change]_vars PROVE TypeInv'
<1>1. ResultTypes'
  <2>1. CASE Change
    BY <2>1, GridAssumption DEF Change, query, TypeInv, ResultTypes
  <2>2. CASE UNCHANGED vars
    BY <2>2 DEF vars, query, TypeInv, ResultTypes
  <2> QED BY <2>1, <2>2
<1>2. UNCHANGED <<cursor, result, pages, touches, todo, shown, visible, whole, redraw, fetched>>
  BY DEF Change, vars, query, frame
<1>3. CacheTypes' /\ TouchesLeft'
  BY <1>2 DEF TypeInv, CacheTypes, TouchesLeft
<1>4. FrameTypes'
  BY <1>2 DEF TypeInv, FrameTypes
<1>5. HasResult'
  BY <1>2 DEF TypeInv, HasResult, BetweenFrames
<1> QED BY <1>1, <1>3, <1>4, <1>5 DEF TypeInv

LEMMA BeginIsTyped ==
  ASSUME TypeInv, NEW first \in Rows, NEW n \in 1..MaxVisible, BeginFrame(first, n)
  PROVE  TypeInv'
<1>1. /\ todo = <<>> /\ cursor # "none"
      /\ first + n <= Len(counted) /\ touches + n < MaxTouches
      /\ visible' = Screen(first, n) /\ todo' = Screen(first, n)
      /\ redraw' \in BOOLEAN /\ whole' = TRUE /\ shown' = NoPage /\ fetched' = {}
      /\ UNCHANGED <<cursor, result, counted, table, changed, pages, sort, arrow, page_error, touches>>
  BY DEF BeginFrame, BetweenFrames, query
<1>2. first \in Nat /\ n \in Nat \ {0}
  BY GridAssumption DEF Rows
<1>3. Len(counted) \in Nat /\ Len(counted) <= MaxRows
  <2>1. counted \in Tables \cup {<<>>}
    BY DEF TypeInv, ResultTypes
  <2>2. counted \in Seq(Nat) /\ Len(counted) <= MaxRows
    BY <2>1, TablesAreShort
  <2> QED BY <2>2
<1>4. /\ Screen(first, n) \in Seq(Rows)
      /\ Len(Screen(first, n)) = n + 1
  <2>1. first + n <= MaxRows
    BY <1>1, <1>2, <1>3, GridAssumption
  <2> QED BY <1>2, <2>1, ScreenOfRows, ScreenShape
<1>5. ResultTypes' /\ CacheTypes'
  BY <1>1 DEF TypeInv, ResultTypes, CacheTypes
<1>6. FrameTypes'
  <2>1. NoPage \in 0..MaxRows
    BY GridAssumption DEF NoPage
  <2>2. {whole', redraw'} \subseteq BOOLEAN
    BY <1>1, Zenon
  <2> QED BY <1>1, <1>4, <2>1, <2>2 DEF FrameTypes
<1>7. HasResult'
  BY <1>1 DEF TypeInv, HasResult
<1>8. TouchesLeft'
  BY <1>1, <1>2, <1>4, GridAssumption DEF TypeInv, CacheTypes, TouchesLeft
<1> QED BY <1>5, <1>6, <1>7, <1>8 DEF TypeInv

\* What every draw leaves alone, or takes from the frame.
LEMMA DrawIsTyped ==
  ASSUME TypeInv, ~BetweenFrames, todo' = Tail(todo), touches' \in {touches, touches + 1},
         shown' \in {Page, NoPage}, fetched' \in {fetched, fetched \cup {Page}},
         whole' \in BOOLEAN, page_error' \in BOOLEAN,
         UNCHANGED <<query, table, changed, sort, arrow, visible, redraw>>
  PROVE  /\ ResultTypes' /\ FrameTypes' /\ HasResult' /\ TouchesLeft'
         /\ touches' \in 0..MaxTouches /\ touches + 1 \in 1..MaxTouches
         /\ Row \in Nat /\ Page \in 0..MaxRows
         /\ cursor # "none" /\ result \in 1..MaxResults
<1>1. /\ todo \in Seq(Rows) /\ todo # <<>> /\ touches \in 0..MaxTouches
      /\ touches + Len(todo) <= MaxTouches /\ MaxTouches \in Nat
  BY GridAssumption DEF TypeInv, FrameTypes, CacheTypes, TouchesLeft, BetweenFrames
<1>2. /\ Row \in Rows /\ todo' \in Seq(Rows)
      /\ Len(todo') = Len(todo) - 1 /\ Len(todo) \in Nat \ {0}
  BY <1>1 DEF Row
<1>3. Row \in Nat /\ Row < MaxRows
  BY <1>2, GridAssumption DEF Rows
<1>4. Page \in 0..MaxRows
  <2>1. Row \div PageSize \in Nat /\ Row \div PageSize <= Row
    BY <1>3, GridAssumption, Divides
  <2> QED BY <1>3, <2>1, GridAssumption DEF Page, PageOf
<1>5. touches' \in 0..MaxTouches /\ touches + 1 \in 1..MaxTouches /\ TouchesLeft'
  BY <1>1, <1>2 DEF TouchesLeft
<1>6. cursor # "none" /\ result \in 1..MaxResults /\ HasResult'
  BY GridAssumption DEF TypeInv, HasResult, ResultTypes, query
<1>7. ResultTypes'
  <2>1. UNCHANGED <<cursor, result, table, counted, sort, arrow, changed>>
    BY DEF query
  <2> QED BY <2>1 DEF TypeInv, ResultTypes
<1>8. FrameTypes'
  <2>1. visible' \in Seq(Rows) /\ redraw' \in BOOLEAN
    BY DEF TypeInv, FrameTypes
  <2>2. {whole', redraw'} \subseteq BOOLEAN
    BY <2>1, Zenon
  <2>3. NoPage \in 0..MaxRows
    BY GridAssumption DEF NoPage
  <2>4. shown' \in 0..MaxRows /\ fetched' \subseteq 0..MaxRows
    BY <1>4, <2>3 DEF TypeInv, FrameTypes
  <2> QED BY <1>2, <2>1, <2>2, <2>4 DEF FrameTypes
<1> QED BY <1>3, <1>4, <1>5, <1>6, <1>7, <1>8

LEMMA HitIsTyped ==
  ASSUME TypeInv, DrawFromCache PROVE TypeInv'
<1>1. /\ ~BetweenFrames /\ todo' = Tail(todo) /\ touches' = touches + 1
      /\ Page \in DOMAIN pages
      /\ pages' = [pages EXCEPT ![Page].touch = touches + 1]
      /\ shown' \in {Page, NoPage} /\ fetched' = fetched
      /\ UNCHANGED <<query, table, changed, sort, arrow, page_error, visible, whole, redraw>>
  BY DEF DrawFromCache, TouchedOnHit, ShownOf
<1>2. whole' \in BOOLEAN /\ page_error' \in BOOLEAN
  BY <1>1 DEF TypeInv, FrameTypes, ResultTypes
<1>3. /\ ResultTypes' /\ FrameTypes' /\ HasResult' /\ TouchesLeft'
      /\ touches' \in 0..MaxTouches /\ touches + 1 \in 1..MaxTouches
  BY <1>1, <1>2, DrawIsTyped
<1> HIDE DEF Page
<1>4. CacheTypes'
  <2>1. \A p \in DOMAIN pages : pages[p] \in CachedPage
    BY DEF TypeInv, CacheTypes
  <2>2. pages'[Page] \in CachedPage
    BY <1>1, <1>3, <2>1 DEF CachedPage
  <2> QED BY <1>1, <1>3, <2>1, <2>2 DEF TypeInv, CacheTypes
<1> QED BY <1>3, <1>4 DEF TypeInv

LEMMA FailureIsTyped ==
  ASSUME TypeInv, DrawFailed PROVE TypeInv'
<1>1. /\ ~BetweenFrames /\ todo' = Tail(todo) /\ touches' = touches
      /\ pages' = pages /\ shown' \in {Page, NoPage}
      /\ fetched' \in {fetched, fetched \cup {Page}}
      /\ whole' \in BOOLEAN /\ page_error' \in BOOLEAN
      /\ UNCHANGED <<query, table, changed, sort, arrow, visible, redraw>>
  BY DEF DrawFailed
<1>2. /\ ResultTypes' /\ FrameTypes' /\ HasResult' /\ TouchesLeft'
  BY <1>1, DrawIsTyped
<1>3. CacheTypes'
  BY <1>1 DEF TypeInv, CacheTypes
<1> QED BY <1>2, <1>3 DEF TypeInv

LEMMA FetchIsTyped ==
  ASSUME TypeInv, DrawFetched PROVE TypeInv'
<1>1. /\ ~BetweenFrames /\ todo' = Tail(todo) /\ touches' = touches + 1
      /\ shown' \in {Page, NoPage} /\ fetched' = fetched \cup {Page}
      /\ UNCHANGED <<query, table, changed, sort, arrow, page_error, visible, whole, redraw>>
  BY DEF DrawFetched, ShownOf
<1>2. whole' \in BOOLEAN /\ page_error' \in BOOLEAN
  BY <1>1 DEF TypeInv, FrameTypes, ResultTypes
<1>3. /\ ResultTypes' /\ FrameTypes' /\ HasResult' /\ TouchesLeft'
      /\ touches' \in 0..MaxTouches /\ touches + 1 \in 1..MaxTouches
      /\ Row \in Nat /\ Page \in 0..MaxRows
      /\ cursor # "none" /\ result \in 1..MaxResults
  BY <1>1, <1>2, DrawIsTyped
<1>4. PICK rows \in fetch_page(cursor, Source, sort, Offset, PageSize) :
        pages' = Trimmed(WithFetched(rows))
  BY DEF DrawFetched
<1>5. rows \in Seq(1..MaxRows)
  <2>1. Source \in Tables \cup {<<>>}
    BY DEF TypeInv, ResultTypes, Source
  <2>2. Source \in Seq(Nat) /\ Len(Source) <= MaxRows
    BY <2>1, TablesAreShort
  <2>3. Offset \in Nat
    BY <1>3, GridAssumption DEF Offset
  <2> HIDE DEF Offset, Source
  <2>0. DOMAIN Source = 1..Len(Source) /\ Len(Source) \in Nat
    BY <2>2
  <2>4. rows \in Seq(DOMAIN Source)
    BY <1>4, <2>2, <2>3, GridAssumption, PagesHoldPositions
  <2>5. DOMAIN Source \subseteq 1..MaxRows
    BY <2>0, <2>2, GridAssumption
  <2>6. ASSUME NEW S, NEW T, S \subseteq T
        PROVE  Seq(S) \subseteq Seq(T)
    BY <2>6
  <2> QED BY <2>4, <2>5, <2>6
<1>6. Fetched(rows) \in CachedPage
  BY <1>3, <1>5 DEF Fetched, CachedPage, TypeInv, ResultTypes
<1> DEFINE cache == WithFetched(rows)
<1>7. DOMAIN cache \subseteq 0..MaxRows /\ \A p \in DOMAIN cache : cache[p] \in CachedPage
  BY <1>3, <1>6 DEF WithFetched, TypeInv, CacheTypes
<1>8. pages' = IF TooMany(cache) THEN Restrict(cache, DOMAIN cache \ {OldestOf(cache)}) ELSE cache
  BY <1>4 DEF Trimmed
<1> HIDE DEF cache
<1>9. DOMAIN pages' \subseteq DOMAIN cache /\ \A p \in DOMAIN pages' : pages'[p] = cache[p]
  BY <1>8 DEF Restrict
<1>10. CacheTypes'
  BY <1>3, <1>7, <1>9 DEF CacheTypes
<1> QED BY <1>3, <1>10 DEF TypeInv

LEMMA NextKeepsTypes == TypeInv /\ [Next]_vars => TypeInv'
<1> SUFFICES ASSUME TypeInv, [Next]_vars PROVE TypeInv'
    OBVIOUS
<1>1. CASE Clear
  <2>1. CacheTypes' /\ FrameTypes' /\ TouchesLeft' /\ BetweenFrames'
    BY <1>1, EmptiedIsTyped DEF Clear, Reset, ResetPages, BetweenFrames
  <2>2. ResultTypes'
    BY <1>1 DEF Clear, Reset, ResetPages, TypeInv, ResultTypes, Orders
  <2> QED BY <1>1, <2>1, <2>2 DEF Clear, TypeInv, HasResult
<1>2. ASSUME NEW r \in Results, SetResult(r[1], r[2])
      PROVE  TypeInv'
  <2>1. CacheTypes' /\ FrameTypes' /\ TouchesLeft' /\ BetweenFrames'
    BY <1>2, EmptiedIsTyped DEF SetResult, ResetPages, BetweenFrames
  <2>2. r[1] \in Tables /\ r[2] \in CursorKinds
    BY GridAssumption
  <2>3. /\ cursor' = r[2] /\ result' = result + 1 /\ result < MaxResults
        /\ table' = r[1] /\ counted' = r[1] /\ ~changed' /\ ~page_error'
        /\ sort' = NoSort /\ arrow' \in {arrow, NoSort}
    BY <1>2 DEF SetResult, SortAfterResult, ResetPages
  <2>4. cursor' \in CursorKinds \cup {"none"} /\ result' \in 0..MaxResults /\ result' > 0
    BY <2>2, <2>3, GridAssumption DEF TypeInv, ResultTypes
  <2>5. {table', counted'} \subseteq Tables \cup {<<>>} /\ {sort', arrow'} \subseteq Orders
    BY <2>2, <2>3, Zenon DEF TypeInv, ResultTypes, Orders
  <2>6. changed' \in BOOLEAN /\ page_error' \in BOOLEAN
    BY <1>2 DEF SetResult, ResetPages
  <2>7. ResultTypes'
    BY <2>4, <2>5, <2>6 DEF ResultTypes
  <2> QED BY <2>1, <2>4, <2>7 DEF TypeInv, HasResult
<1>3. ASSUME NEW spec \in SortSpecs, SortBy(spec)
      PROVE  TypeInv'
  <2>1. CacheTypes' /\ FrameTypes' /\ TouchesLeft' /\ BetweenFrames'
    BY <1>3, EmptiedIsTyped DEF SortBy, PagesAfterSort, BetweenFrames
  <2>2. ResultTypes'
    BY <1>3 DEF SortBy, query, TypeInv, ResultTypes, Orders
  <2> QED BY <1>3, <2>1, <2>2 DEF SortBy, query, TypeInv, HasResult
<1>4. CASE [Change]_vars
  BY <1>4, StillIsTyped
<1>5. ASSUME NEW first \in Rows, NEW n \in 1..MaxVisible, BeginFrame(first, n)
      PROVE  TypeInv'
  BY <1>5, BeginIsTyped
<1>6. CASE DrawFromCache
  BY <1>6, HitIsTyped
<1>7. CASE DrawFetched
  BY <1>7, FetchIsTyped
<1>8. CASE DrawFailed
  BY <1>8, FailureIsTyped
<1> QED BY <1>1, <1>2, <1>3, <1>4, <1>5, <1>6, <1>7, <1>8 DEF Next, Draw

LEMMA TypeInvariant == Spec => []TypeInv
<1>1. Init => TypeInv
  BY InitIsTyped
<1>2. TypeInv /\ [Next]_vars => TypeInv'
  BY NextKeepsTypes
<1> QED BY <1>1, <1>2, PTL DEF Spec

(***************************************************************************)
(* TypeOK, with the bound of the cache: every page holds positions of the  *)
(* table it was read from.                                                 *)
(***************************************************************************)
THEOREM GridTyped == Spec => []TypeOK
<1>1. TypeInv /\ GridInv => TypeOK
  BY DEF TypeInv, ResultTypes, CacheTypes, FrameTypes, GridInv, Bounded, TypeOK
<1> QED BY <1>1, TypeInvariant, GridInvariant, PTL

-----------------------------------------------------------------------------
(***************************************************************************)
(* What the pages hold.  fetch_page puts a row on a place that the order   *)
(* allows: behind the rows in front of it, and among those that the order  *)
(* does not tell from it.  The order is a weak one, with NULL at one end,  *)
(* so the places of two rows that it tells apart never overlap.            *)
(***************************************************************************)
LEMMA PrecedesIs ==
  ASSUME NEW kind, NEW order \in Directions \cup {NoSort}, NEW a \in Nat, NEW b \in Nat
  PROVE  Precedes(kind, a, b, order) <=>
           \/ /\ order = "ascending"
              /\ \/ kind = "materialized" /\ (a = Null) # (b = Null) /\ b = Null
                 \/ (kind # "materialized" \/ (a = Null) = (b = Null)) /\ a < b
           \/ /\ order = "descending"
              /\ \/ kind = "materialized" /\ (a = Null) # (b = Null) /\ a = Null
                 \/ (kind # "materialized" \/ (a = Null) = (b = Null)) /\ a > b
<1>1. CASE order = NoSort
  BY <1>1, GridAssumption DEF Precedes, Directions
<1>2. CASE order \in Directions /\ kind = "materialized"
  BY <1>2, GridAssumption DEF Precedes, compare_cells, Directions, Null
<1>3. CASE order \in Directions /\ kind # "materialized"
  BY <1>3, GridAssumption DEF Precedes, OrderBy, Directions
<1> QED BY <1>1, <1>2, <1>3

LEMMA OrderIsWeak ==
  ASSUME NEW kind, NEW order \in Directions \cup {NoSort}, NEW a \in Nat, NEW b \in Nat, NEW c \in Nat
  PROVE  /\ ~Precedes(kind, a, a, order)
         /\ Precedes(kind, a, b, order) /\ Precedes(kind, b, c, order) => Precedes(kind, a, c, order)
         /\ Precedes(kind, a, c, order) => Precedes(kind, a, b, order) \/ Precedes(kind, b, c, order)
BY PrecedesIs DEF Null

LEMMA PlacesAreFinite ==
  ASSUME NEW kind, NEW rows \in Seq(Nat), NEW order, NEW x
  PROVE  /\ IsFiniteSet(Before(kind, rows, order, x)) /\ IsFiniteSet(Ties(kind, rows, order, x))
         /\ Cardinality(Before(kind, rows, order, x)) \in Nat
         /\ Cardinality(Ties(kind, rows, order, x)) \in Nat
<1>1. IsFiniteSet(DOMAIN rows)
  <2>1. DOMAIN rows = 1..Len(rows) /\ 1 \in Int /\ Len(rows) \in Int
    OBVIOUS
  <2>2. IsFiniteSet(1..Len(rows))
    BY <2>1, FS_Interval
  <2> QED BY <2>1, <2>2
<1>2. /\ Before(kind, rows, order, x) \subseteq DOMAIN rows
      /\ Ties(kind, rows, order, x) \subseteq DOMAIN rows
  BY DEF Before, Ties
<1> QED BY <1>1, <1>2, FS_Subset, FS_CardinalityType

LEMMA PlacesBehind ==
  ASSUME NEW kind, NEW rows \in Seq(Nat), NEW order \in Directions \cup {NoSort},
         NEW x \in DOMAIN rows, NEW place \in Places(kind, rows, order, x)
  PROVE  LET before == Cardinality(Before(kind, rows, order, x))
             ties == Cardinality(Ties(kind, rows, order, x))
         IN place \in (before + 1)..(before + ties)
<1> DEFINE T == Ties(kind, rows, order, x)
           U == {y \in T : y <= x}
<1>1. IsFiniteSet(T) /\ Cardinality(T) \in Nat /\ Cardinality(Before(kind, rows, order, x)) \in Nat
  BY PlacesAreFinite
<1>2. x \in U
  <2>1. rows[x] \in Nat /\ x \in Nat
    OBVIOUS
  <2> QED BY <2>1, OrderIsWeak DEF Ties
<1> HIDE DEF T
<1>3. IsFiniteSet(U) /\ Cardinality(U) <= Cardinality(T)
  BY <1>1, FS_Subset
<1> HIDE DEF U
<1>4. Cardinality(U) \in Nat \ {0}
  BY <1>2, <1>3, FS_CardinalityType, FS_EmptySet
<1>5. CASE kind = "materialized" \/ order = NoSort
  <2>1. place = Cardinality(Before(kind, rows, order, x)) + Cardinality(U)
    BY <1>5 DEF Places, U, T
  <2> QED BY <1>1, <1>3, <1>4, <2>1 DEF T
<1>6. CASE ~(kind = "materialized" \/ order = NoSort)
  BY <1>6 DEF Places
<1> QED BY <1>5, <1>6

\* A row that the order puts in front has its places in front.
LEMMA PlacesInOrder ==
  ASSUME NEW kind, NEW rows \in Seq(Nat), NEW order \in Directions \cup {NoSort},
         NEW x \in DOMAIN rows, NEW y \in DOMAIN rows, Precedes(kind, rows[x], rows[y], order),
         NEW i \in Places(kind, rows, order, x), NEW j \in Places(kind, rows, order, y)
  PROVE  i < j
<1> DEFINE A == Before(kind, rows, order, x)
           T == Ties(kind, rows, order, x)
           B == Before(kind, rows, order, y)
<1>1. A \cup T \subseteq B
  <2> SUFFICES ASSUME NEW z \in A \cup T PROVE z \in B
    OBVIOUS
  <2>1. z \in DOMAIN rows /\ rows[x] \in Nat /\ rows[y] \in Nat /\ rows[z] \in Nat
    BY DEF Before, Ties
  <2>2. CASE z \in A
    <3>1. Precedes(kind, rows[z], rows[x], order)
      BY <2>2 DEF Before
    <3> QED BY <2>1, <3>1, OrderIsWeak DEF Before
  <2>3. CASE z \in T
    <3>1. ~Precedes(kind, rows[x], rows[z], order)
      BY <2>3 DEF Ties
    <3> QED BY <2>1, <3>1, OrderIsWeak DEF Before
  <2> QED BY <2>2, <2>3
<1>2. A \cap T = {}
  BY DEF Before, Ties
<1>3. /\ IsFiniteSet(A) /\ IsFiniteSet(T) /\ IsFiniteSet(B)
      /\ Cardinality(A) \in Nat /\ Cardinality(T) \in Nat /\ Cardinality(B) \in Nat
  BY PlacesAreFinite
<1>4. i <= Cardinality(A) + Cardinality(T) /\ i \in Nat
  BY <1>3, PlacesBehind
<1>5. Cardinality(B) + 1 <= j /\ j \in Nat
  BY <1>3, PlacesBehind
<1> HIDE DEF A, T, B
<1>6. Cardinality(A) + Cardinality(T) <= Cardinality(B)
  <2>1. Cardinality(A \cup T) = Cardinality(A) + Cardinality(T)
    <3>1. Cardinality(A \cup T) = Cardinality(A) + Cardinality(T) - Cardinality(A \cap T)
      BY <1>3, FS_Union
    <3>2. Cardinality(A \cap T) = 0
      BY <1>2, FS_EmptySet
    <3> QED BY <1>3, <3>1, <3>2
  <2>2. Cardinality(A \cup T) <= Cardinality(B)
    BY <1>1, <1>3, FS_Subset
  <2> QED BY <2>1, <2>2
<1> QED BY <1>3, <1>4, <1>5, <1>6

\* In the query's own order, rows are placed as they come.
LEMMA PlacesUnsorted ==
  ASSUME NEW kind, NEW rows \in Seq(Nat), NEW x \in DOMAIN rows, NEW y \in DOMAIN rows, x < y,
         NEW i \in Places(kind, rows, NoSort, x), NEW j \in Places(kind, rows, NoSort, y)
  PROVE  i < j
<1> DEFINE U(z) == {v \in DOMAIN rows : v <= z}
<1>1. ASSUME NEW z \in DOMAIN rows
      PROVE  Before(kind, rows, NoSort, z) = {} /\ Ties(kind, rows, NoSort, z) = DOMAIN rows
  BY DEF Before, Ties, Precedes
<1>2. ASSUME NEW z \in DOMAIN rows, NEW k \in Places(kind, rows, NoSort, z)
      PROVE  k = Cardinality(U(z)) /\ IsFiniteSet(U(z)) /\ k \in Nat
  <2>1. k = Cardinality({}) + Cardinality(U(z))
    BY <1>1 DEF Places
  <2>2. IsFiniteSet(DOMAIN rows)
    BY <1>1, PlacesAreFinite
  <2>3. U(z) \subseteq DOMAIN rows
    OBVIOUS
  <2> HIDE DEF U
  <2>4. IsFiniteSet(U(z)) /\ Cardinality(U(z)) \in Nat
    BY <2>2, <2>3, FS_Subset, FS_CardinalityType
  <2> QED BY <2>1, <2>4, FS_EmptySet
<1>3. U(x) \subseteq U(y) /\ y \in U(y) /\ y \notin U(x)
  <2>1. x \in Nat /\ y \in Nat /\ DOMAIN rows \subseteq Nat
    OBVIOUS
  <2> QED BY <2>1
<1>4. /\ i = Cardinality(U(x)) /\ i \in Nat
      /\ j = Cardinality(U(y)) /\ j \in Nat /\ IsFiniteSet(U(y))
  BY <1>2
<1> HIDE DEF U
<1>5. Cardinality(U(x)) <= Cardinality(U(y)) /\ Cardinality(U(y)) # Cardinality(U(x))
  BY <1>3, <1>4, FS_Subset
<1> QED BY <1>4, <1>5

\* Two places of one row: only where ties may come out in any order.
LEMMA PlacesOfTies ==
  ASSUME NEW kind, NEW rows \in Seq(Nat), NEW order \in Directions \cup {NoSort},
         NEW x \in DOMAIN rows,
         NEW i \in Places(kind, rows, order, x), NEW j \in Places(kind, rows, order, x), i # j
  PROVE  kind # "materialized" /\ \E y \in DOMAIN rows \ {x} : rows[y] = rows[x]
<1>1. kind # "materialized" /\ order # NoSort
  BY DEF Places
<1> DEFINE T == Ties(kind, rows, order, x)
<1>2. IsFiniteSet(T) /\ Cardinality(T) \in Nat /\ Cardinality(Before(kind, rows, order, x)) \in Nat
  BY PlacesAreFinite
<1>3. Cardinality(T) # 1
  BY <1>2, PlacesBehind
<1>4. x \in T
  <2>1. rows[x] \in Nat
    OBVIOUS
  <2> QED BY <2>1, OrderIsWeak DEF Ties
<1>5. PICK y \in T : y # x
  <2> HIDE DEF T
  <2>1. T # {x}
    BY <1>3, FS_Singleton
  <2> QED BY <1>4, <2>1
<1>6. /\ y \in DOMAIN rows /\ rows[x] \in Nat /\ rows[y] \in Nat
      /\ ~Precedes(kind, rows[y], rows[x], order) /\ ~Precedes(kind, rows[x], rows[y], order)
  BY DEF Ties
<1>7. rows[y] = rows[x]
  <2>1. order \in {"ascending", "descending"}
    BY <1>1 DEF Directions
  <2> QED BY <1>1, <1>6, <2>1, PrecedesIs
<1> QED BY <1>1, <1>5, <1>6, <1>7

-----------------------------------------------------------------------------
(***************************************************************************)
(* Every cached page is one that fetch_page may return for the rows of the *)
(* query, at the offset that row_at computes: as long as the table has not *)
(* changed, or the cursor keeps its own rows.                              *)
(***************************************************************************)
PagesAsFetched ==
  \A p \in DOMAIN pages :
    pages[p].rows \in fetch_page(cursor, counted, sort, p * PageSize, PageSize)

ContentInv ==
  /\ cursor # "none" /\ ~changed => table = counted
  /\ cursor = "none" => DOMAIN pages = {}
  /\ cursor = "materialized" \/ ~changed => PagesAsFetched

LEMMA EmptiedKeepsContent ==
  ASSUME pages' = NoPages, cursor' # "none" /\ ~changed' => table' = counted'
  PROVE  ContentInv'
BY NoPagesIsEmpty DEF ContentInv, PagesAsFetched

LEMMA StillKeepsContent ==
  ASSUME ContentInv, UNCHANGED <<query, pages, sort>>,
         \/ UNCHANGED <<table, changed>>
         \/ changed' /\ cursor = "paged"
  PROVE  ContentInv'
<1>1. UNCHANGED <<cursor, counted, pages, sort>>
  BY DEF query
<1>2. PagesAsFetched => PagesAsFetched'
  BY <1>1 DEF PagesAsFetched
<1> QED BY <1>1, <1>2 DEF ContentInv

LEMMA HitKeepsContent ==
  ASSUME GridInv, ContentInv, DrawFromCache
  PROVE  ContentInv'
<1>1. /\ Page \in DOMAIN pages
      /\ pages' = [pages EXCEPT ![Page].touch = touches + 1]
      /\ UNCHANGED <<cursor, counted, table, changed, sort>>
  BY DEF DrawFromCache, TouchedOnHit, query
<1> HIDE DEF Page
<1>2. DOMAIN pages' = DOMAIN pages /\ \A p \in DOMAIN pages : pages'[p].rows = pages[p].rows
  BY <1>1 DEF GridInv, Touched
<1>3. PagesAsFetched => PagesAsFetched'
  BY <1>1, <1>2 DEF PagesAsFetched
<1> QED BY <1>1, <1>2, <1>3 DEF ContentInv

LEMMA FetchKeepsContent ==
  ASSUME TypeInv, ContentInv, DrawFetched
  PROVE  ContentInv'
<1>1. PICK rows \in fetch_page(cursor, Source, sort, Offset, PageSize) :
        pages' = Trimmed(WithFetched(rows))
  BY DEF DrawFetched
<1>2. /\ ~BetweenFrames /\ Page \notin DOMAIN pages
      /\ UNCHANGED <<cursor, counted, table, changed, sort>>
  BY DEF DrawFetched, query
<1>3. cursor # "none"
  BY <1>2 DEF TypeInv, HasResult
<1> DEFINE cache == WithFetched(rows)
<1>4. /\ DOMAIN cache = DOMAIN pages \cup {Page}
      /\ cache[Page].rows = rows
      /\ \A p \in DOMAIN pages : cache[p] = pages[p]
  BY <1>2 DEF WithFetched, Fetched
<1>5. pages' = IF TooMany(cache) THEN Restrict(cache, DOMAIN cache \ {OldestOf(cache)}) ELSE cache
  BY <1>1 DEF Trimmed
<1>6. Offset = Page * PageSize
  BY DEF Offset
<1> HIDE DEF cache, Page, Offset
<1>7. DOMAIN pages' \subseteq DOMAIN cache /\ \A p \in DOMAIN pages' : pages'[p] = cache[p]
  BY <1>5 DEF Restrict
<1>8. ASSUME cursor = "materialized" \/ ~changed
      PROVE  PagesAsFetched'
  <2>1. Source = counted
    BY <1>3, <1>8 DEF Source, ContentInv
  <2>2. rows \in fetch_page(cursor, counted, sort, Page * PageSize, PageSize)
    BY <1>1, <1>6, <2>1
  <2>3. \A p \in DOMAIN cache : cache[p].rows \in fetch_page(cursor, counted, sort, p * PageSize, PageSize)
    BY <1>4, <1>8, <2>2 DEF ContentInv, PagesAsFetched
  <2>4. \A p \in DOMAIN pages' : pages'[p].rows \in fetch_page(cursor, counted, sort, p * PageSize, PageSize)
    BY <1>7, <2>3
  <2> QED BY <1>2, <2>4 DEF PagesAsFetched
<1> QED BY <1>2, <1>3, <1>8 DEF ContentInv

LEMMA ContentInvariant == Spec => []ContentInv
<1>1. Init => ContentInv
  BY NoPagesIsEmpty DEF Init, ContentInv, PagesAsFetched
<1>2. GridInv /\ TypeInv /\ ContentInv /\ [Next]_vars => ContentInv'
  <2> SUFFICES ASSUME GridInv, TypeInv, ContentInv, [Next]_vars PROVE ContentInv'
    OBVIOUS
  <2>1. CASE Clear
    BY <2>1, EmptiedKeepsContent DEF Clear, Reset, ResetPages
  <2>2. ASSUME NEW r \in Results, SetResult(r[1], r[2])
        PROVE  ContentInv'
    BY <2>2, EmptiedKeepsContent DEF SetResult, ResetPages
  <2>3. ASSUME NEW spec \in SortSpecs, SortBy(spec)
        PROVE  ContentInv'
    <3>1. pages' = NoPages /\ UNCHANGED <<cursor, counted, table, changed>>
      BY <2>3 DEF SortBy, PagesAfterSort, query
    <3> QED BY <3>1, EmptiedKeepsContent DEF ContentInv
  <2>4. CASE Change
    BY <2>4, StillKeepsContent DEF Change
  <2>5. ASSUME NEW first \in Rows, NEW n \in 1..MaxVisible, BeginFrame(first, n)
        PROVE  ContentInv'
    BY <2>5, StillKeepsContent DEF BeginFrame
  <2>6. CASE DrawFromCache
    BY <2>6, HitKeepsContent
  <2>7. CASE DrawFetched
    BY <2>7, FetchKeepsContent
  <2>8. CASE DrawFailed
    BY <2>8, StillKeepsContent DEF DrawFailed
  <2>9. CASE UNCHANGED vars
    BY <2>9, StillKeepsContent DEF vars
  <2> QED BY <2>1, <2>2, <2>3, <2>4, <2>5, <2>6, <2>7, <2>8, <2>9 DEF Next, Draw
<1> QED BY <1>1, <1>2, TypeInvariant, GridInvariant, PTL DEF Spec

\* What stands on a row of the screen whose page is cached.
LEMMA RowsOnTheirPlace ==
  ASSUME TypeInv, PagesAsFetched, NEW row \in Cached
  PROVE  /\ row % PageSize < Len(pages[PageOf(row)].rows)
         /\ PositionAt(row) \in DOMAIN counted
         /\ row + 1 \in Places(cursor, counted, sort, PositionAt(row))
<1> DEFINE p == PageOf(row)
           page == pages[p].rows
           offset == p * PageSize
           size == IF offset < Len(counted) THEN PageEnd(counted, offset, PageSize) - offset ELSE 0
           Fits(k) == {x \in DOMAIN counted : offset + k \in Places(cursor, counted, sort, x)}
           i == (row % PageSize) + 1
<1>1. counted \in Seq(Nat)
  BY TablesAreShort DEF TypeInv, ResultTypes
<1>2. row \in Nat /\ row < Len(counted) /\ p \in DOMAIN pages
  BY <1>1 DEF Cached
<1>3. page \in fetch_page(cursor, counted, sort, offset, PageSize)
  BY <1>2 DEF PagesAsFetched
<1>4. page \in [1..size -> UNION {Fits(k) : k \in 1..size}] /\ \A k \in 1..size : page[k] \in Fits(k)
  BY <1>3 DEF fetch_page
<1>5. /\ p \in Nat /\ offset \in Nat /\ offset <= row /\ row < offset + PageSize
      /\ row % PageSize = row - offset
  <2>1. /\ row \div PageSize \in Nat
        /\ PageSize * (row \div PageSize) <= row
        /\ row < PageSize * (row \div PageSize + 1)
        /\ row % PageSize = row - PageSize * (row \div PageSize)
    BY <1>2, GridAssumption, Divides, Remains
  <2>2. p = row \div PageSize
    BY DEF PageOf
  <2> HIDE DEF p
  <2>3. /\ PageSize * p = p * PageSize /\ PageSize * (p + 1) = p * PageSize + PageSize
        /\ p * PageSize \in Nat
    BY <2>1, <2>2, GridAssumption
  <2> QED BY <1>2, <2>1, <2>2, <2>3
<1> HIDE DEF p, offset
<1>6. row - offset < size /\ size \in Nat
  <2>0. offset < Len(counted) /\ PageSize \in Nat
    BY <1>1, <1>2, <1>5, GridAssumption
  <2>1. /\ PageEnd(counted, offset, PageSize) \in {offset + PageSize, Len(counted)}
        /\ PageEnd(counted, offset, PageSize) - offset \in 0..PageSize
    BY <1>1, <1>5, <2>0, PageSizeOf
  <2>2. PageEnd(counted, offset, PageSize) > row
    BY <1>1, <1>2, <1>5, <2>1, GridAssumption
  <2> QED BY <1>2, <1>5, <2>0, <2>1, <2>2
<1> HIDE DEF size
<1>7. i \in 1..size /\ offset + i = row + 1
  BY <1>2, <1>5, <1>6
<1>8. Len(page) = size
  BY <1>4, <1>6
<1>9. PositionAt(row) = page[i]
  BY DEF PositionAt, p
<1> HIDE DEF i, page
<1>10. page[i] \in Fits(i)
  BY <1>4, <1>7
<1> QED BY <1>5, <1>6, <1>7, <1>8, <1>9, <1>10 DEF p, page

(***************************************************************************)
(* PagesAreOneArrangement: for pages and tables of any size, cached in any *)
(* order and evicted in between, the pages of a query whose rows do not    *)
(* change fit together.                                                    *)
(***************************************************************************)
THEOREM GridIsOneArrangement == Spec => []PagesAreOneArrangement
<1>1. TypeInv /\ ContentInv => PagesAreOneArrangement
  <2> SUFFICES ASSUME TypeInv, ContentInv, cursor = "materialized" \/ ~changed
               PROVE  /\ \A row \in Cached : row % PageSize < Len(pages[PageOf(row)].rows)
                      /\ \A a, b \in Cached : a < b =>
                           /\ SortedPair(a, b)
                           /\ PositionAt(a) = PositionAt(b) =>
                                cursor = "paged" /\ \E i \in DOMAIN counted \ {PositionAt(a)} :
                                                       counted[i] = Value(a)
    BY DEF PagesAreOneArrangement
  <2>1. PagesAsFetched
    BY DEF ContentInv
  <2>2. \A row \in Cached : row % PageSize < Len(pages[PageOf(row)].rows)
    BY <2>1, RowsOnTheirPlace
  <2>3. counted \in Seq(Nat) /\ sort \in Directions \cup {NoSort}
    BY TablesAreShort, GridAssumption DEF TypeInv, ResultTypes, Orders
  <2>4. ASSUME NEW a \in Cached, NEW b \in Cached, a < b
        PROVE  /\ SortedPair(a, b)
               /\ PositionAt(a) = PositionAt(b) =>
                    cursor = "paged" /\ \E i \in DOMAIN counted \ {PositionAt(a)} :
                                           counted[i] = Value(a)
    <3> DEFINE x == PositionAt(a)
               y == PositionAt(b)
    <3>1. /\ a \in Nat /\ b \in Nat
          /\ x \in DOMAIN counted /\ a + 1 \in Places(cursor, counted, sort, x)
          /\ y \in DOMAIN counted /\ b + 1 \in Places(cursor, counted, sort, y)
      BY <2>1, RowsOnTheirPlace DEF Cached
    <3>2. a \in Cached /\ cursor \in CursorKinds
      BY DEF Cached, ContentInv, TypeInv, ResultTypes
    <3>3. Value(a) = counted[x] /\ Value(b) = counted[y]
      BY DEF Value
    <3>4. SortedPair(a, b) <=>
            /\ sort = NoSort => x < y
            /\ sort = "ascending" =>
                 counted[x] <= counted[y] \/ (cursor = "materialized" /\ counted[y] = Null)
            /\ sort = "descending" =>
                 counted[x] >= counted[y] \/ (cursor = "materialized" /\ counted[x] = Null)
      BY <2>3, <3>3, GridAssumption DEF SortedPair, Directions
    <3> HIDE DEF x, y
    <3>5. sort = NoSort => x < y
      <4> SUFFICES ASSUME sort = NoSort, y <= x PROVE FALSE
        BY <2>3, <3>1
      <4>1. CASE y < x
        <5>1. b + 1 < a + 1
          BY <2>3, <3>1, <4>1, PlacesUnsorted
        <5> QED BY <2>4, <3>1, <5>1
      <4>2. CASE y = x
        <5>1. cursor # "materialized" /\ sort # NoSort
          BY <2>4, <3>1, <4>2 DEF Places
        <5> QED BY <5>1
      <4> QED BY <2>3, <3>1, <4>1, <4>2
    <3>6. ~Precedes(cursor, counted[y], counted[x], sort)
      <4> SUFFICES ASSUME Precedes(cursor, counted[y], counted[x], sort) PROVE FALSE
        OBVIOUS
      <4>1. b + 1 < a + 1
        BY <2>3, <3>1, PlacesInOrder
      <4> QED BY <2>4, <3>1, <4>1
    <3>7. SortedPair(a, b)
      <4>1. counted[x] \in Nat /\ counted[y] \in Nat
        BY <2>3, <3>1
      <4> QED BY <2>3, <3>4, <3>5, <3>6, <4>1, PrecedesIs
    <3>8. ASSUME x = y
          PROVE  cursor = "paged" /\ \E i \in DOMAIN counted \ {x} : counted[i] = counted[x]
      <4>1. a + 1 # b + 1
        BY <2>4, <3>1
      <4>2. cursor # "materialized" /\ \E i \in DOMAIN counted \ {x} : counted[i] = counted[x]
        BY <2>3, <3>1, <3>8, <4>1, PlacesOfTies
      <4> QED BY <3>2, <4>2 DEF CursorKinds
    <3> QED BY <3>3, <3>7, <3>8 DEF x, y
  <2> QED BY <2>2, <2>4
<1> QED BY <1>1, TypeInvariant, ContentInvariant, PTL
=============================================================================
