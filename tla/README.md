# A TLA+ model of sqlgui

sqlgui is a desktop SQL client: one thread draws a Dear ImGui window, one worker
thread executes queries on SQLite or PostgreSQL connections. The modules here
model the parts of it that are hard to test: the queue between the threads, the
query service and its cancellation, the window as its only caller, the text on
its way from the editor to an engine, what each engine executes of it, the
transaction flags of a connection, and the caches behind the result grid and the
schema tree.

Paths are relative to the repository. A comment `Mutant:` in a module marks a
variant of the definition below it, as a plausible bug would have it; for every
property there is one that breaks it.

## The program

| Part | State | Operations | Talks to |
|---|---|---|---|
| `ThreadSafeQueue` (core/common) | `queue_`, `mutex_`, `condition_variable_` | `push`, `wait_pop(stop_token)` | filled by `submit`, emptied by the worker |
| `QueryExecutionService` (core/async) | `next_id_`, `queue_`, `tasks_`, `running_`, the worker thread | `submit`, `cancel`, `worker_loop`, destructor | calls `Database::execute` in the worker, `cancel_running_query` in the caller |
| `SQLiteDatabase`, `PostgresDatabase` (core/database) | `ConnectionState`: handle, `autocommit_enabled`, `in_transaction`, a mutex | `open`, `close`, `execute`, `cancel_running_query`, `set_autocommit`, `begin_transaction`, `commit`, `rollback`, `autocommit` | every operation takes the connection mutex; cursors share the `ConnectionState` |
| Cursors (core/database) | the text of the row query, its columns and row count | `create`, `fetch_page` | called by the worker (create) and the drawing thread (pages) |
| Schema providers (core/schema) | `cache_` of table metadata | `list_tables`, `load_table_metadata`, `invalidate` | a second connection; called on the drawing thread |
| `MainWindow` (ui) | `database_`, `schema_provider_`, `active_query_`, the pending dangerous write | `render`, `poll_query`, `connect`, `submit_query`, `enqueue_query`, the buttons | the service, the connection, all panels |
| `ResultGridPanel` (ui) | `cursor_`, `pages_`, `sort_`, `page_error_`, `touch_counter_` | `set_result`, `clear`, `render` | `fetch_page` |
| `SchemaExplorerPanel` (ui) | `loaded_`, `tables_`, `metadata_`, `error_` | `reset`, `render` | the schema provider |
| `QueryEditorPane` (ui) | `buffer_`, the selection | `render`, which returns an action | `MainWindow`, which keeps the history |
| `SqlText` (core/common) | none: pure functions of a text | the question before a write, classification, locations, quoting | the window, both databases, both providers |
| `DatabaseFactory`, `AppTheme`, `Logger` | none | set-up | |

What is hard in it:

* **Two threads and a stop token.** A cancel is three things at once: it marks the
  stop source, runs the stop callbacks armed at that moment in the caller's
  thread, and interrupts the *connection*. Each can meet the worker between any two
  of its steps: before the query is popped, before its first guard is built,
  between two statements of a script, after the last.
* **The connection mutex.** `execute` holds it for the whole query. The drawing
  thread takes the same mutex in every frame (`autocommit()`), when it fetches
  a page, and in `cancel_running_query`.
* **Destruction order.** `worker_` is declared before `running_`, `tasks_` and
  `mutex_`, so the members the worker uses die before it is joined.
* **State kept twice.** `in_transaction` mirrors the engine; metadata is cached in
  the provider and in the panel; pages are cached by index, their order by `sort_`.
* **Texts of several statements.** The editor sends a text; its first word, its last
  statement, or all of it, decide how it is treated, differently on each engine.
* **A result that is a query.** Pages are queries of their own, on a table that others
  change, in an order that the engine chooses anew each time.
* **Multi-step operations that fail in the middle.** COMMIT followed by a refused
  BEGIN; several queries for one table's metadata; a fetch for every page.

What makes each part correct:

* queue: FIFO, no lost wakeup, nothing left behind by a stop;
* service: each query is answered once and in order; a query in flight can be
  cancelled; a cancel bounds what a script still does, and ends it; nobody else's
  query is reported cancelled; shutdown answers everything and returns;
* window: what it shows belongs to its connection and its last query; frames go on;
* transactions: flags and engine agree, a write waits for its commit;
* scripts: commands run in order and stop at the first failure, no write runs
  twice, the rows shown are those of the script and the count covers its changes;
* editor: what runs is what was asked about, a write over all rows is asked about,
  and the place shown with an error is a known distance from where it is;
* PostgreSQL texts: success means all of it, failure none of it, and the exceptions;
* grid: pages of one query in one order, no dangling page, no refetching, and
  together they are one arrangement of the rows;
* schema: metadata is complete, fresh after a refresh, the same in both caches, and
  that of the table it is shown under.

`PROJECT.json` lists the hazards behind these, each at its line.

## The modules

| Module | Models | Built on |
|---|---|---|
| `BlockingFifo` | what a closable blocking queue promises | |
| `ThreadSafeQueue` | core/common/ThreadSafeQueue.hpp: mutex, condition variable, stop token, spurious wakeups | implements `BlockingFifo` |
| `QueryLedger` | what the service promises: each query answered once, in order | |
| `QueryExecutionService` | core/async/QueryExecutionService.{hpp,cpp}, and `execute` / `cancel_running_query` of both databases as far as cancellation sees them | implements `QueryLedger`; its queue is the FIFO `ThreadSafeQueue` implements |
| `MainWindow` | ui/MainWindow.cpp: frames, polling, buttons, the modal, closing | extends `QueryExecutionService` with one caller, the drawing thread |
| `SqlText` | core/common/SqlText.cpp, with a reference tokenizer | |
| `QueryEditor` | ui/QueryEditorPane.cpp and the texts of ui/MainWindow.cpp: history, question, error place | extends `SqlText` |
| `SqliteScript` | `SQLiteDatabase::execute` statement by statement, and its cursors | |
| `PostgresScript` | `PostgresDatabase::execute` on a text of several statements, and its cursor | |
| `ExecutionLedger` | what `Database::execute` promises, whichever engine is behind it | |
| `DatabaseExecute` | `Database::execute`: one of the two engines | extends both, implements `ExecutionLedger` |
| `TransactionControl` | the transaction operations of SQLiteDatabase.cpp and PostgresDatabase.cpp | |
| `ResultCursor` | `fetch_page` of the cursors: the pages it may return | |
| `ResultGridPanel` | ui/ResultGridPanel.cpp | extends `ResultCursor` |
| `SchemaExplorer` | ui/SchemaExplorerPanel.cpp over the schema providers | |
| `MC*` | instances for TLC | |
| `*_proofs` | theorems, checked by TLAPS | |

### State and actions

**ThreadSafeQueue.** One action per critical section. `PushCriticalSection` and
`PushNotifyOne` are two, because `push` notifies after it has unlocked. A
consumer tests, sleeps, wakes (by a notify, by the stop token, or for no reason)
and tests again.

**QueryExecutionService.** A step is what a thread does between two points where
another thread can interfere. `submit` is `SubmitTakeId`, `SubmitRegister`,
`SubmitPush`; `cancel` is `CancelRefused` or `CancelFound`, `CancelRequestStop`,
`CancelRunCallbacks`, `CancelReadHandle`, `CancelInterrupt`; the worker goes
through `WorkerPop`, `WorkerAnnounce`, `WorkerSkipCancelled` or `WorkerExecute`,
the `Execute...` actions, `WorkerPublish` (`set_value`) and `WorkerRetire` (the
erase). Inside `execute` each SQL statement begins and ends; `armed` says that
its stop callback is registered, `hit` that it was interrupted. An interrupted
statement may still end by itself first. A SQLite script runs its non-row
statements one by one and then at most one row query; PostgreSQL runs one
command, one EXPLAIN, or the describe and the count of its cursor.
Where a worker uses `mutex_` after its destruction the behaviour is undefined:
the model lets the program die (`life = "crashed"`) or go on without effect.

**MainWindow.** `stage` walks through the windows in the order of `render()`. At each the
user may click once per frame. What takes the connection mutex waits for it
(`Unlocked`). A reconnect opens a new connection and leaves the old query running. A
call into the service runs step by step with the worker in between. Texts,
history and errors are in `QueryEditor`. The schema tree
uses a connection of its own, which the worker never locks, so it is not here.

**SqlText.** A text is a sequence of atoms: words, blanks, quotes, the marks of
comments, and `trail`, a byte of a letter that is not its first, because offsets
count bytes. Each function of SqlText.cpp is an operator on it; the scanner is a
fold of `Consume` over the text. `CodeOf` and `TokenEnd` are the reference: how an SQL
engine divides a text into tokens.

**QueryEditor.** The user types any text, selects any part, loads one from the
history, and presses a button. `Run` is the action of the pane with
`submit_query`, which refuses (`Refuse`), asks (`Asks`, `pending`), or runs
(`enqueue_query`). `Execute` and `Cancel` answer the question. `PollError` shows an
error, with the location an engine's offset leads to: SQLite has the offset of the
statement it was at (`FailsInSqlite`, `StatementStarts`), PostgreSQL returns one
that counts characters and is used for bytes (`FailsInPostgres`, `CountedOffset`).
`asked`, `from` and `at` remember where a text came from. What happens to a query between its start and
its answer is the subject of `MainWindow`.

**SqliteScript.** One action for each way an iteration of the loop of `execute` goes
(`PrepareFails`, `SkipEmpty`, `DeferRowQuery`, `RunStatement`) and for each
end (`EmptyScript`, `WithoutRows`, `RunRowQuery`, `RowQueryPrepareFails`);
`FetchPage` evaluates the row query again when the cursor is paged. A statement is
its kind: with or without columns, and what it does to `sqlite3_changes`. `done`
is the engine's log of completed statements, and `changed` the number of rows
they changed. A stop may come at any moment; what its
callback interrupts, and when, is the subject of `QueryExecutionService`. What
becomes of the effects (autocommit, rollback) is that of `TransactionControl`.

**PostgresScript.** The text goes to the server as it is: behind `EXPLAIN`
(`ExecuteExplain`), inside a subquery to be described and counted (`Describe`,
`Count`), or plain (`ExecuteCommand`). `PQexec` is external: all statements of a text take
effect or none does, and the result is that of the last one. What an EXPLAIN makes of
the first cell of that result is `FirstCells` and `ExplainAnswers`; where it has no row
the behaviour is undefined, and the program may end (`answer = "crashed"`).
`FetchPostgresPage` evaluates the query again.

**DatabaseExecute.** A session has one engine (`CreateSession`); its steps are
that engine's. The mapping to `ExecutionLedger` takes the script or the text for the
statements, and `done` or `effects` for what took effect.

**TransactionControl.** Each operation holds the mutex throughout and is one
step. `database` is the class of the connection. The
engines are external: `Outcomes(s, e)` lists what a BEGIN, COMMIT or
ROLLBACK may come to in an engine state. `fate` follows writes to their end.
The constant `Unseen` adds what happens behind the flags: typed control
statements and rollbacks by the engine.

**ResultGridPanel.** A frame is the list of rows the clipper asks for (the first
row, which it measures, then the rows on screen); each row is one step: a hit, a
fetch with the eviction that follows it, or a failed fetch. A page has where it
came from (which result, which order, when touched) and its rows, as positions
in the table that was queried. `ResultCursor` says which rows a fetch may
return: a materialized cursor sorts what it kept, stably; a paged one has the
engine order the table as it is by then, ties in any order. A value is a rank:
`compare_cells` compares the texts of the cells, so the rank in a materialized cursor
is that of the text ("10" comes before "9"), in a paged one that of the engine. `Change` is another
program that writes. `arrow` is the order the ImGui table shows.

**SchemaExplorer.** A frame of the tree is stepped through table by table and query
by query. Both caches are keyed by schema and name joined by a dot, so a table is
the words of these two between their dots. A query's answer is the `epoch` it was asked in (the number of refreshes
and connects so far), so a stale or torn entry shows.

## The runs

| Run | Module, cfg | Shows |
|---|---|---|
| `queue` | ThreadSafeQueue | no lost wakeup, implements `BlockingFifo` with its liveness, and so is drained on stop |
| `service` | MCQueryExecutionService, Service | registry, bound on a cancelled script, shutdown answers all, implements `QueryLedger` |
| `service_ends` | ... ServiceEnds | liveness when the second query never ends by itself: every query is answered unless that one holds it up, cancel and destructor return, a cancel that meets it ends it, clean idle shutdown |
| `window` | MCMainWindow, Window | display follows the connection, scrolling never waits, cancel hits no bystander, an active query ends |
| `window_freezes` | ... WindowFreezes | **violated:** frames do not go on during a query that does not end |
| `editor` | MCQueryEditor, Editor | the scanner, the question and the quoting against the tokenizer, on every text; what runs was asked about; the history; the place shown with an error against the one either engine means |
| `script` | DatabaseExecute, Script | SQLite: a prefix of the commands in order, rows of the last row query, affected rows covered. PostgreSQL: success did all, failure left nothing, with the exceptions. Both implement `ExecutionLedger`, so no INSERT, UPDATE, DELETE or DDL is done twice; a SELECT of a function that writes is, see below |
| `script_run_all` | SqliteScript, ScriptRunAll | **violated:** a successful script has executed all its writes |
| `transaction` | TransactionControl, Transaction | flags against engine, writes against commits, on both engines |
| `transaction_manual` | TransactionControl, TransactionManual | **violated:** with autocommit off a write is durable before a commit |
| `result_grid` | MCResultGrid, ResultGrid | pages of one query and order, no dangling page, redraw fetches nothing, the order is the arrow's or the query's, the pages are one arrangement |
| `schema` | MCSchemaExplorer, Schema | what is cached is whole and fresh, the two caches are equal (so a hit in the provider, SQLiteSchemaProvider.cpp:61, cannot happen), and no table without a dot shows another's columns |

**Bounds.** The queue has two producers and two consumers, the least at which a
notify can go to the wrong thread. The service has two callers (the program has
one; a second lets two cancels, and a cancel and a submit, overlap), one
connection of each kind, two queries (one running, one queued, or one cancelled
and one bystander) and scripts of three statements (one before, one during and one
after a cancel; `ServiceEnds` has one caller, as the program, three queries, so that
one waits behind the endless one, and scripts of two statements). The
window has two connections, so that one reconnect can happen while a query runs,
and two queries: its properties relate no more than two.
The editor's texts have up to five atoms, the least that hold a write with a
comment or a name in it, and two are run: one that is trimmed in front, and one of
two statements on two lines, with a letter of two bytes in the first and a write as
the second, so that every distance between the place shown and the one meant occurs.
Scripts have up to four statements of the six kinds in any order (a command before,
between and after two row queries), and up to two pages are fetched beyond the
length of the script; a write changes up to two rows (none, one, and more than one),
and `sqlite3_changes` starts at what an earlier script left (`script_run_all` does not
count, and has one).
PostgreSQL texts have up to three statements of eight kinds, an EXPLAIN among them: a
first, a last, and one between.
The transactions have three writes: one before, one in and one after a
transaction. The grid caches three pages of two rows and shows up to three rows of
eight (the code: eight pages of 250), which makes the first row's page, two
pages on screen and an eviction; `GridAssumption` states the relation that the
sizes must keep. Three short tables with a NULL and with equal rows turn into each
other under the pages. The schema has three epochs, so that entries of
two tables of different epochs could meet, and three tables, two with one key.

**Fairness.** A thread that is not blocked runs: weak fairness of the worker's
steps, of the steps of a call that has begun, of a frame's steps, and of a
destructor that has begun. Engines: a statement that is interrupted, or is not in
`Endless`, ends. Nothing makes an endless statement end, and no user is made to
click. In `service_ends` the second query is endless, and what it may hold up is
named by `HeldByEndless`; in `window_freezes` every statement is endless.

**Deadlock** is checked, except where the system may really stop because a
statement is endless (`ServiceEnds`, `WindowFreezes`).

## What the violations say

*`window_freezes`.* The status bar calls `database_->autocommit()` in every frame
(ui/MainWindow.cpp:94), which locks the mutex `execute` holds. While a query runs the
window does not draw or react, so a running query cannot be cancelled from it; the
project describes itself as an "Async SQL client GUI" (CMakeLists.txt:6). One
consequence is that `NoBystander` and `GridFetchNeverWaits` hold of the window,
but not of the service alone.

*`script_run_all`.* Every statement with columns goes into `row_query`, and only the
last one stays there (line 553): `INSERT ... RETURNING ...; SELECT ...` reports
success and never inserts, although the button runs `RunAll`
(ui/QueryEditorPane.cpp:38).

*`transaction_manual`.* `commit()` with autocommit off ends the transaction and
begins the next; when that BEGIN fails the error is returned, autocommit stays off,
and there is no transaction. The next write is durable at once, while the status
bar shows "Autocommit: Off" (lines 27-29). `rollback()` has the same shape.

### Divergences stated by properties that hold

Each is an exception that a property names, so that a run shows both that it
happens only there and that all else is right.

* `affected_rows` adds up `sqlite3_changes()` after every statement without columns
  (line 571), which only INSERT, UPDATE and DELETE set, so `CREATE TABLE` after a
  write, even of an earlier script, is shown as affected rows. `AffectedRowsCovered`
  bounds the surplus: no row that a command changed is missed, the number is exact
  where every command is an INSERT, UPDATE or DELETE, and each other command adds the
  count of one write at most, which may be of any size. Rows that a RETURNING changes
  are not counted at all, because it is the row query.
* PostgreSQL reports a text as failed although it took effect when it ends in a
  statement that returns rows and its first word does not announce them, as in
  `INSERT ... RETURNING` (core/database/PostgresDatabase.cpp:427), and when EXPLAIN
  is asked of several statements: only the first is explained, the rest is executed
  (line 373). `FailureLeavesNothing` excepts the two.
* The same EXPLAIN of several statements is a success where the last one's first cell
  reads as a plan, as for `SELECT 1; DELETE FROM t; EXPLAIN (FORMAT JSON) SELECT 1`: the
  rows are deleted and a plan is shown, that of the last statement. Where the last one
  returns no row, `PQgetvalue` gives NULL to `json::parse` (line 398), which is
  undefined. `SuccessDidAll` says of an EXPLAIN that its first statement is not executed
  and all others are.
* A PostgreSQL `SELECT` of a function that writes is evaluated once for the count and
  once more for every page (lines 173 and 205), so its writes are repeated.
  `ImplementsExecutionLedger` counts it as a query (`Rereadable`).
* The question before a dangerous write is not asked where `where` is in a second
  statement or in a name, nor before `WITH ... DELETE`, nor for EXPLAIN, which executes all
  statements but the first on PostgreSQL. `AsksBeforePlainWrite` (by `PlainWrite`) and
  `WhatRunsWasAsked` except these.
* Two tables whose schema and name join to the same text share a cache entry, and the
  second is shown with the columns of the first (ui/SchemaExplorerPanel.cpp:122).
  `ShownIsItsOwn` excepts names with a dot.
* The place shown with an error is in general not where the error is in the editor:
  it counts from the text that was sent, so a selection, or blanks trimmed off in front,
  shift it; SQLite's is the beginning of the statement that failed
  (core/database/SQLiteDatabase.cpp:534 and 563); PostgreSQL counts characters where
  `location_from_offset` counts bytes (core/database/PostgresDatabase.cpp:431), so it is
  too early by the further bytes of the letters in front; and for an EXPLAIN the server
  also counts the words put before the text. `ErrorCountsFromRun` says exactly how far it is
  off in each case, and excepts EXPLAIN.
* Every page of an ordered result is ordered anew, so rows that are equal in the order may
  appear on two pages. `PagesAreOneArrangement` excepts ties, and a table that
  changed between two pages.

## The proofs

Checked by TLAPS for all values of the constants. Every invariant, every action
property and every refinement of the passing runs is a theorem; of `BlockingFifo`
only the safety part.

* `ThreadSafeQueue_proofs`: `QueueTyped`, `QueueLosesNoWakeup`,
  `QueueStepsAreFifoSteps`. A waiting consumer and a waiting item are
  separated by an owed notify; the invariant counts who owes whom and is inductive
  together with the type invariant. Every step maps to a step or a stutter of
  `BlockingFifo`; its liveness is left to TLC.
* `QueryExecutionService_proofs`: `ServiceTyped`, `CancelFindsInFlight`,
  `CancelBoundsExecution`, `JoinedServiceAnswered`, `ServiceKeepsTheLedger`.
  `RegistryCoversInFlight` is not inductive: that a pending
  query is registered needs that pending queries are the queued ones and the one in
  hand, that ids given out are below `nextId`, and that a caller about to push has
  registered. `CancelStopsScript` needs `ScriptInv`: where in `execute` the worker is,
  and that a SQLite script with a statement begun after the stop is never back
  at `next`. That a joined service has answered everything needs `QueueInv`, which
  says exactly which queries wait and that each is queued once, and `EndInv`: a worker
  that has left its loop left nothing in the queue. The refinement of `QueryLedger`
  also needs `CancelInv`, which follows an interruption back to its source: `cancel`
  asks its query to stop before it goes for the connection, so whatever is hit there
  has a cancelled query beside it.
* `MainWindow_proofs`: `WindowTyped`, `DisplayIsOfConnection`, `ScrollingNeverWaits`,
  `CancelHitsNoBystander`. The service's own invariants (`CalleeInv`) hold
  whoever calls; what the window adds is `WindowInv`. It waits for one thing at a time
  (`OneAtATime`: an answer, a click in the modal, or in the grid), and the one pending
  query of the connection in use is the active one (`OnlyActivePending`), although
  queries of connections that were replaced may be pending too. From these two
  follows what a single query's path does not show: the grid's connection is never
  locked, and an interrupt meets the query it was meant for.
  `WindowUsesTheService` says that every behaviour of the window is one of the
  service, so all theorems of the service hold under the window.
  `OnlyTheCancelledAreCancelled` then sharpens what `QueryLedger` promises: no query
  is reported as cancelled unless it was asked to stop itself.
* `DatabaseExecute_proofs`, SQLite: `ScriptTyped`, `WritesRunOnce`, `ScriptRunsInOrder`,
  `AffectedRowsBounded`. While the loop runs, the statements
  completed lie behind `pos`, are commands and are all different; the one kept
  for the end has columns, so it is none of them; a paged cursor is one over a
  SELECT, so the pages repeat no write (`ScriptInv`). That what ran is a prefix needs the
  converse, that no command behind `pos` was left out (`NothingLeftBehind`); the
  bounds on the affected rows hold of every prefix of the loop (`CountedSoFar`).
  PostgreSQL: `PostgresTyped`, `FailuresAreUndone`, `SuccessesAreDone`. `PgInv` says that
  nothing has taken effect before the answer, and that a cursor stands for a text of
  one query; what each answer means for the effects follows from the single step
  that gives it, for an EXPLAIN from what the last result's first cell may be.
  Both: `ExecuteKeepsItsPromise`, the refinement of `ExecutionLedger`. The two
  invariants are joined by which engine the session has: each action of SQLite
  (`SqliteStep`) and of PostgreSQL (`PostgresStep`) either runs, with the answer still
  open, reads a page of a query that ran, or rests; and each of the three is a step of
  the ledger or a stutter. A page may only read because a query that is paged was
  run (`PagedWasRun`).
* `SchemaExplorer_proofs`: `ExplorerTyped`, `CachedAreWholeAndFresh`,
  `CachesAgree`, `ShownWhereItBelongs`. A load is never left open over a refresh or a
  connect: outside of it nothing is drafted (`Loading`), and what is cached is
  whole, of this epoch and under the key of a listed table (`Entries`), in both caches
  alike (`Caches`). That a key is of one table needs `cache_key` to be injective
  on tables without a dot of their own.
* `ResultGridPanel_proofs`: `PagesAreOfDisplay`, `FetchedPageStays`, `OrderFollowsArrow`,
  `CacheIsBounded`, `RedrawsAreFree`, `GridTyped`, `GridIsOneArrangement`. Touches are
  given out in increasing order (`Touched`), so the page
  just fetched is the youngest and an eviction takes another; that there is an
  oldest page needs the set of pages to be finite (`Bounded`). That a redraw fetches
  nothing needs more: the pages drawn so far in a frame are the youngest in the cache
  (`DrawnAreYoungest`) and those of a screen fit into it (`ScreenFits`, from
  `GridAssumption` by the arithmetic of `PageSpan`), so no eviction takes a page of the
  screen. For the one arrangement, every page is one that `fetch_page` could return
  for the rows as they are (`PagesAsFetched`), and the places that an order allows to two
  rows it tells apart never overlap (`PlacesInOrder`), so two pages can only disagree
  about ties.
* `QueryEditor_proofs`: `EditorTyped`, `HistoryOfRuns`, `ErrorsCountFromRun`, with
  `EditorInv`: every text that waits or runs is part of the one it came from and lies
  where `from` says. Trimming moves a place by the lines and columns in front
  (`LocationInPart`); of the bytes in front of an error, those that PostgreSQL does
  not count are the ones behind the first of a letter (`LettersAndBytes`), and what is cut
  off the end for it changes no offset (`NormalizedIsFront`). And, for texts of any length:
  - `ScannerKeepsTheCode`. The tokens of `TokenStarts` divide a text (`Tokens`), the
    scanner passes each kind of token in its own mode and is back in code behind it
    (`TokenIsScanned`), so it writes each atom exactly if the atom is a token of its own
    (`AtomsAreScanned`).
  - `PlainWritesAreAsked`. The question depends on two things only, the first atom of
    the code and whether `where` is one of its atoms (`QuestionIsAboutCode`), and
    those are decided by its words (`WordAndAtom`).
  - `RunsAsAsked`. The question may be asked about an untrimmed text while the trimmed
    one runs, so the two must be asked alike: the scanner passes the blanks in front
    in code, goes through the rest in the same modes, and keeps nothing of those behind
    (`CutKeepsTheSame`). With it `AskedInv` is inductive: what runs unasked needs no
    question.
  - `QuotedReadsAsOneToken`. Every atom is doubled into a part of its own
    (`DoubledIs`), and `ClosingQuote` passes one part at a time.
* `TransactionControl_proofs`: `TransactionsTyped`, `ButtonsKeepSync`, `EndsResync`,
  `WritesWait`, the three action properties by cases on the outcomes of the
  statements.

Recursive functions are defined by CHOOSE, and the library's induction theorems cannot be
instantiated by the provers at hand. `Iteration` and `DownIteration` of
`QueryEditor_proofs` prove, from the well-foundedness of the naturals, that a function
with a given recursion exists; the function chosen then has the equation, and what it
computes follows by induction over a *set* of numbers (`Induction`, `UpFrom`,
`DownFrom`). So nothing about texts rests on a bound.

A type invariant that is proved is repeated in a run only where a mutant of the
code can break it: those of the window (which contains the service's), the editor and
the grid.

The only assumptions are the named `ASSUME`s on the constants of each module; TLC
evaluates them in the runs. `EditorAssumption` contains that `None` is no text.

Only model-checked: all liveness, `ImplementsBlockingFifo`'s included (the prover has no
fairness reasoning here), and the three properties that the code violates. `WritesOnce`
and `CancelledWereAsked` are proved and not repeated in a run: the ledger's run
implies the first, and `NoBystander` is what can go wrong of the second.

## Not modelled

* A `PQcancel` that arrives late: a cancel request is a message on another connection,
  and where the stop callback sends it the model delivers it at once or loses it to
  an idle backend. The interrupt of `cancel_running_query` is a step of its own and
  meets whatever runs by then.
* BEGIN and COMMIT inside a PostgreSQL text of several statements, which divide what
  a failure undoes; and a server that is lost after it has committed a text and before
  it says so: `PQexec` then fails although the text took effect, which no client can tell.
* Comments inside a word, as in `wh/**/ere`: the scanner glues the parts together where
  an engine reads two words. `ScannerKeepsCode` compares without blanks and does not see it.
* Which rows of the catalogue become which columns, keys and foreign keys of a table, the
  tree of an EXPLAIN plan, and the conversion of cells: pure functions of external
  data, with no state.
* The names of columns in an ORDER BY; pages are ordered by a column itself.
* Reopening a closed database object; the program never does it.
* Connection strings, the fields of the connection form and the labels made of them.
* Layout, theme and logging; plain data types.

Hazards in what is not modelled, so that no property speaks of them:

* a cursor may outlive its database, and `fetch_page` uses the handle untested
  (core/database/SQLiteDatabase.cpp:296); the program clears the grid in the call that drops
  the database (ui/MainWindow.cpp:428), which is one step of `MainWindow`;
* a page that cannot be fetched leaves its error on display after a later fetch
  succeeds (ui/ResultGridPanel.cpp:124), and one table that cannot be read replaces
  the whole tree by an error until a refresh (ui/SchemaExplorerPanel.cpp:109);
* columns, indexes and foreign keys are read without a transaction
  (core/schema/SQLiteSchemaProvider.cpp:83), a primary key of several columns is recognised
  by its first (line 79), and one side of a foreign key of several columns is
  joined with all columns of the other (core/schema/PostgresSchemaProvider.cpp:169);
* pages are ordered by a column's name, which another column may share, and
  `affected_rows` of a PostgreSQL text is that of its last statement
  (core/database/PostgresDatabase.cpp:210 and 447);
* `quote_literal` writes SQL and is used for a connection string (line 74), and a
  connection is called by what the form says later (ui/MainWindow.cpp:276).

## What comes next

1. `TransactionControl` with `DatabaseExecute`, so that what a script did meets what a
   commit makes of it, and the proofs carried over as from the service to the window.
2. `SqliteScript` with autocommit off: the transaction an interrupted write
   rolls back; transaction statements inside a PostgreSQL text.
3. A `PQcancel` of the stop callback that is delayed, against `QueryLedger`.
4. `MainWindow` with `QueryEditor`: the modal and the reconnect of one with the text
   and the history of the other, now related by the actions they share.
5. The rows of the catalogue, as relations over tables and columns.
