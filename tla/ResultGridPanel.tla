-------------------------- MODULE ResultGridPanel --------------------------
(***************************************************************************)
(* ui/ResultGridPanel.cpp: the table of a row query, drawn from a cache of *)
(* pages that are fetched through the cursor when a row of theirs is on    *)
(* screen.  One thread draws; but every fetch runs a new query, so it may  *)
(* fail, and rows are drawn one at a time while the cache changes under    *)
(* them.                                                                   *)
(*                                                                         *)
(* A frame draws what ImGuiListClipper asks for: the first row, which it   *)
(* measures, and then the rows on screen.  Another program may change the  *)
(* table that the query reads, between any two pages.                      *)
(***************************************************************************)
EXTENDS ResultCursor

CONSTANTS
  PageSize,    \* page_size_, 250 in the code
  MaxCached,   \* max_cached_pages, 8 in the code
  MaxVisible,  \* bound on the rows on screen
  Tables,      \* the tables that there are
  Results,     \* the tables that are queried, each with the kind of its cursor
  Edits,       \* the tables that another program turns into each other
  MaxRows,     \* bound on the rows of a table
  MaxResults,  \* bound on the results shown
  MaxTouches,  \* bound on touch_counter_
  SortSpecs    \* the orders that are asked for

(***************************************************************************)
(* The screen fits the cache: the rows on it spread over at most           *)
(* MaxCached - 1 pages, which leaves one for the first row.  In the code a *)
(* screen would have to show 1,502 rows to break this.                     *)
(***************************************************************************)
ASSUME GridAssumption == /\ PageSize \in Nat \ {0}
                         /\ MaxCached \in Nat \ {0, 1}
                         /\ MaxVisible \in Nat
                         /\ MaxVisible <= PageSize * (MaxCached - 2) + 1
                         /\ MaxRows \in Nat
                         /\ \A t \in Tables : t \in Seq(Nat) /\ Len(t) <= MaxRows
                         /\ Results \subseteq Tables \X CursorKinds
                         /\ Edits \subseteq Tables
                         /\ MaxResults \in Nat /\ MaxTouches \in Nat
                         /\ SortSpecs \subseteq Directions /\ NoSort \notin Directions

VARIABLES
  cursor,      \* the kind of cursor_, or "none"
  result,      \* number of the last result set
  counted,     \* the table as the query read it: it has total_row_count() rows
  table,       \* the table as it is now
  changed,     \* history: has it changed since?
  pages,       \* pages_: page index to what was fetched, and touch
  sort,        \* sort_
  arrow,       \* the order the ImGui table shows, NoSort until it has one
  page_error,  \* is page_error_ set?
  touches,     \* touch_counter_
  todo,        \* rows the clipper has yet to ask for in this frame
  shown,       \* the page row_at has just returned a row of, NoPage for none
  visible,     \* history: the rows of the last frame begun
  whole,       \* history: has everything asked for since then been drawn?
  redraw,      \* history: does this frame repeat a frame drawn whole?
  fetched      \* history: pages fetched in this frame

query == <<cursor, result, counted>>
frame == <<todo, shown, visible, whole, redraw, fetched>>
vars == <<query, table, changed, pages, sort, arrow, page_error, touches, frame>>

Rows == 0..(MaxRows - 1)
PageOf(row) == row \div PageSize
NoPage == MaxRows
NoPages == [p \in {} |-> 0]

Init == /\ cursor = "none"
        /\ result = 0
        /\ counted = <<>>
        /\ table = <<>>
        /\ changed = FALSE
        /\ pages = NoPages
        /\ sort = NoSort
        /\ arrow = NoSort
        /\ page_error = FALSE
        /\ touches = 0
        /\ todo = <<>>
        /\ shown = NoPage
        /\ visible = <<>>
        /\ whole = FALSE
        /\ redraw = FALSE
        /\ fetched = {}

BetweenFrames == todo = <<>>

-----------------------------------------------------------------------------
\* What both clear and set_result reset, lines 11-32; the rest of a frame ends.
ResetPages == /\ pages' = NoPages
              /\ page_error' = FALSE
              /\ touches' = 0
              /\ shown' = NoPage
              /\ visible' = <<>>
              /\ whole' = FALSE
              /\ redraw' = FALSE
              /\ fetched' = {}

Reset == ResetPages /\ sort' = NoSort

Clear == /\ BetweenFrames
         /\ Reset
         /\ cursor' = "none"
         /\ counted' = <<>>
         /\ UNCHANGED <<result, table, changed, arrow, todo>>

\* Mutant: the columns decide whether the order is kept.
SortAfterResultKept == sort

\* Line 27.
SortAfterResult == NoSort

(***************************************************************************)
(* set_result with a cursor; without one it resets like clear.  A result   *)
(* with as many columns as the one before finds the table with its arrow;  *)
(* with another number of columns ImGui sets the table up anew.            *)
(***************************************************************************)
SetResult(t, kind) ==
  /\ BetweenFrames
  /\ result < MaxResults
  /\ ResetPages
  /\ sort' = SortAfterResult
  /\ arrow' \in {arrow, NoSort}
  /\ cursor' = kind
  /\ result' = result + 1
  /\ counted' = t
  /\ table' = t
  /\ changed' = FALSE
  /\ UNCHANGED todo

\* Another program writes.  What a materialized cursor has kept does not change.
Change ==
  /\ cursor = "paged"
  /\ table \in Edits
  /\ table' \in Edits \ {table}
  /\ changed' = TRUE
  /\ UNCHANGED <<query, pages, sort, arrow, page_error, touches, frame>>

-----------------------------------------------------------------------------
\* Mutant: a new order keeps the pages that are cached.
PagesAfterSortKept == pages

\* Line 78.
PagesAfterSort == NoPages

(***************************************************************************)
(* Lines 69-82: the user asks for an order, or the table does, when it is  *)
(* set up: it cannot be drawn without one.                                 *)
(***************************************************************************)
SortBy(spec) ==
  /\ BetweenFrames
  /\ cursor # "none"
  /\ sort' = spec
  /\ arrow' = spec
  /\ pages' = PagesAfterSort
  /\ page_error' = FALSE
  /\ shown' = NoPage
  /\ whole' = FALSE
  /\ redraw' = FALSE
  /\ fetched' = {}
  /\ UNCHANGED <<query, table, changed, touches, todo, visible>>

\* The clipper, external: the first row, then the rows on screen.
Screen(first, n) == <<0>> \o [i \in 1..n |-> first + i - 1]

\* Lines 84-88: the rows of a frame are laid out.
BeginFrame(first, n) ==
  /\ BetweenFrames
  /\ cursor # "none"
  /\ arrow # NoSort
  /\ n \in 1..MaxVisible
  /\ first + n <= Len(counted)
  /\ touches + n < MaxTouches
  /\ todo' = Screen(first, n)
  /\ visible' = Screen(first, n)
  /\ redraw' = (whole /\ visible = Screen(first, n))
  /\ whole' = TRUE
  /\ shown' = NoPage
  /\ fetched' = {}
  /\ UNCHANGED <<query, table, changed, pages, sort, arrow, page_error, touches>>

-----------------------------------------------------------------------------
\* row_at for the next row, and the cells it returns, lines 89-104.

Row == Head(todo)
Page == PageOf(Row)

\* Mutant: a hit does not count as a use.
TouchedOnHitUnchanged == pages

TouchedOnHit == [pages EXCEPT ![Page].touch = touches + 1]

\* Lines 142-145: a short page does not have the row, and it is left out.
ShownOf(cache) == IF Row % PageSize < Len(cache[Page].rows) THEN Page ELSE NoPage

\* Lines 118-121: the page is cached.
DrawFromCache ==
  /\ ~BetweenFrames
  /\ Page \in DOMAIN pages
  /\ pages' = TouchedOnHit
  /\ touches' = touches + 1
  /\ shown' = ShownOf(pages)
  /\ todo' = Tail(todo)
  /\ UNCHANGED <<query, table, changed, sort, arrow, page_error, visible, whole, redraw, fetched>>

\* Mutant: the offset is that of the row that is asked for.
OffsetOfRow == Row

\* Line 123.
Offset == Page * PageSize

\* What the cursor reads: the rows it has kept, or the table.
Source == IF cursor = "materialized" THEN counted ELSE table

Fetched(rows) == [of |-> result, sort |-> sort, rows |-> rows, touch |-> touches + 1]

WithFetched(rows) ==
  [p \in DOMAIN pages \cup {Page} |-> IF p = Page THEN Fetched(rows) ELSE pages[p]]

\* Mutant: trim_cache lets one page more stay.
TooManyByOne(cache) == Cardinality(DOMAIN cache) > MaxCached + 1

TooMany(cache) == Cardinality(DOMAIN cache) > MaxCached

\* Mutant: trim_cache compares the other way.
NewestOf(cache) == CHOOSE p \in DOMAIN cache :
                     \A q \in DOMAIN cache : cache[q].touch <= cache[p].touch

OldestOf(cache) == CHOOSE p \in DOMAIN cache :
                     \A q \in DOMAIN cache : cache[p].touch <= cache[q].touch

\* trim_cache, lines 148-161: one page goes, the least recently touched.
Trimmed(cache) == IF TooMany(cache)
                  THEN Restrict(cache, DOMAIN cache \ {OldestOf(cache)})
                  ELSE cache

\* Lines 123-131, and 141-145: the page just fetched is read again.
DrawFetched ==
  /\ ~BetweenFrames
  /\ Page \notin DOMAIN pages
  /\ \E rows \in fetch_page(cursor, Source, sort, Offset, PageSize) :
       /\ pages' = Trimmed(WithFetched(rows))
       /\ shown' = ShownOf(WithFetched(rows))
  /\ touches' = touches + 1
  /\ fetched' = fetched \cup {Page}
  /\ todo' = Tail(todo)
  /\ UNCHANGED <<query, table, changed, sort, arrow, page_error, visible, whole, redraw>>

\* Lines 124-127: the fetch fails and the row is left out; the next row tries again.
DrawFailed ==
  /\ ~BetweenFrames
  /\ Page \notin DOMAIN pages
  /\ page_error' = TRUE
  /\ shown' = NoPage
  /\ fetched' = fetched \cup {Page}
  /\ whole' = FALSE
  /\ todo' = Tail(todo)
  /\ UNCHANGED <<query, table, changed, pages, sort, arrow, touches, visible, redraw>>

Draw == DrawFromCache \/ DrawFetched \/ DrawFailed

Next == \/ Clear
        \/ \E r \in Results : SetResult(r[1], r[2])
        \/ Change
        \/ \E spec \in SortSpecs : SortBy(spec)
        \/ \E first \in Rows, n \in 1..MaxVisible : BeginFrame(first, n)
        \/ Draw

Spec == Init /\ [][Next]_vars

-----------------------------------------------------------------------------
Orders == SortSpecs \cup {NoSort}
CachedPage == [of : 1..MaxResults, sort : Orders, rows : Seq(1..MaxRows), touch : 1..MaxTouches]

\* The type invariant; the cache never outgrows its limit.
TypeOK ==
  /\ cursor \in CursorKinds \cup {"none"}
  /\ result \in 0..MaxResults
  /\ {table, counted} \subseteq Tables \cup {<<>>}
  /\ changed \in BOOLEAN
  /\ DOMAIN pages \subseteq 0..MaxRows
  /\ Cardinality(DOMAIN pages) <= MaxCached
  /\ \A p \in DOMAIN pages : pages[p] \in CachedPage
  /\ {sort, arrow} \subseteq Orders
  /\ page_error \in BOOLEAN
  /\ touches \in 0..MaxTouches
  /\ todo \in Seq(Rows) /\ visible \in Seq(Rows)
  /\ shown \in 0..MaxRows
  /\ {whole, redraw} \subseteq BOOLEAN
  /\ fetched \subseteq 0..MaxRows

(***************************************************************************)
(* Every cached page was fetched from the query on display in the order on *)
(* display: rows of two queries or two orders are never mixed.             *)
(***************************************************************************)
PagesOfDisplay ==
  \A p \in DOMAIN pages : pages[p].of = result /\ pages[p].sort = sort

(***************************************************************************)
(* The page a row is returned from is still cached when it is read:        *)
(* trim_cache, called right after the fetch, never takes the page that was *)
(* fetched, and pages_.at (line 141) does not throw.                       *)
(***************************************************************************)
ReturnedRowIsCached == shown # NoPage => shown \in DOMAIN pages

(***************************************************************************)
(* A screen that is drawn again needs no query: the pages of a frame drawn *)
(* whole are the most recently touched, whatever was scrolled past before, *)
(* so none of them has been evicted.                                       *)
(***************************************************************************)
RedrawFetchesNothing == redraw => fetched = {}

(***************************************************************************)
(* The order on display is the one the arrow shows, or the query's own:    *)
(* set_result resets sort_ (line 27), but the ImGui table, which it does   *)
(* not know of, keeps its arrow or is set up with a new one.               *)
(***************************************************************************)
OrderIsArrowOrNone == sort \in {arrow, NoSort}

(***************************************************************************)
(* As long as the table does not change, and for a materialized cursor in  *)
(* any case, the cached pages are parts of one arrangement of the rows:    *)
(* every page is full, the rows are sorted, with NULL at one end, and no   *)
(* row is on two places; but rows of a paged cursor that are equal in the  *)
(* order may repeat on the next page, and others be missing.               *)
(***************************************************************************)
Cached == {row \in 0..(Len(counted) - 1) : PageOf(row) \in DOMAIN pages}
PositionAt(row) == pages[PageOf(row)].rows[(row % PageSize) + 1]
Value(row) == counted[PositionAt(row)]
SortedPair(a, b) ==
  CASE sort = NoSort -> PositionAt(a) < PositionAt(b)
    [] sort = "ascending" -> Value(a) <= Value(b) \/ (cursor = "materialized" /\ Value(b) = Null)
    [] sort = "descending" -> Value(a) >= Value(b) \/ (cursor = "materialized" /\ Value(a) = Null)
PagesAreOneArrangement ==
  (cursor = "materialized" \/ ~changed) =>
    /\ \A row \in Cached : row % PageSize < Len(pages[PageOf(row)].rows)
    /\ \A a, b \in Cached : a < b =>
         /\ SortedPair(a, b)
         /\ PositionAt(a) = PositionAt(b) =>
              cursor = "paged" /\ \E i \in DOMAIN counted \ {PositionAt(a)} :
                                     counted[i] = Value(a)
=============================================================================
