----------------------- MODULE QueryExecutionService -----------------------
(***************************************************************************)
(* core/async/QueryExecutionService.{hpp,cpp}: callers submit queries to   *)
(* one worker thread and cancel them by id; the worker takes them from a   *)
(* ThreadSafeQueue, in order, and executes each on its database while it   *)
(* holds that connection's mutex.                                          *)
(*                                                                         *)
(* A step is what one thread does between two points where another thread  *)
(* can see or change what it does: a critical section of mutex_, a push, a *)
(* request_stop, a run of stop callbacks, a wait for a connection mutex,   *)
(* the begin and the end of one SQL statement, a set_value.  The queue is  *)
(* the FIFO that ThreadSafeQueue implements.                               *)
(*                                                                         *)
(* execute() is SQLiteDatabase::execute and PostgresDatabase::execute cut  *)
(* down to what cancellation sees: the statements it runs one by one, the  *)
(* stop callback it arms around each, and how it reports an interruption.  *)
(* The engines themselves (sqlite3_step, PQexec) are external.             *)
(***************************************************************************)
EXTENDS Naturals, Sequences

CONSTANTS
  Callers,        \* threads that submit and cancel (the program has one)
  Databases,      \* the open connections
  Sqlite,         \* those that are SQLite; the others are PostgreSQL
  NoDatabase,     \* the database of an id not given out yet
  MaxQueries,     \* bound on the number of submissions
  MaxStatements,  \* bound on the statements of one SQLite script
  Endless         \* queries whose statements never end unless interrupted

Ids == 1..MaxQueries

ASSUME ServiceAssumption == /\ MaxQueries \in Nat
                            /\ MaxStatements \in Nat
                            /\ Sqlite \subseteq Databases
                            /\ NoDatabase \notin Databases
                            /\ Endless \subseteq Ids

VARIABLES
  nextId,    \* next_id_
  queue,     \* queue_: ids of the queued tasks
  tasks,     \* tasks_: ids with a registered TaskControl
  running,   \* running_: id of the control it points to, 0 when reset
  dbOf,      \* dbOf[q]: TaskControl::database of q
  stopReq,   \* ids whose stop_source was asked to stop
  outcome,   \* outcome[q]: "none", "pending" once queued, or the promise's value
  caller,    \* caller[c]: the operation c is in and the id it is about
  wpc,       \* where the worker is
  cur,       \* id of the task the worker holds, 0 for none
  mode,      \* the statement execute() runs: "command", "query", "explain"
  begun,     \* statements begun by this execute()
  armed,     \* is a stop callback registered for cur, and not run yet?
  hit,       \* has the running statement been interrupted?
  result,    \* what execute() is about to return
  overrun,   \* history: statements begun after cur's stop was requested
  life       \* the service object: see Lives

\* What the callers, the registry and the queue share.
front == <<nextId, queue, tasks, running, dbOf>>
\* What execute() keeps.
execution == <<mode, begun, overrun, result>>
vars == <<front, stopReq, outcome, caller, wpc, cur, execution, armed, hit, life>>

Answers == {"ok", "error", "cancelled"}

(***************************************************************************)
(* "alive": in use; "stopping": the destructor has called request_stop;    *)
(* "membersGone": running_, tasks_ and mutex_ are destroyed (they are      *)
(* declared after worker_), the join is still to come; "joined": the       *)
(* worker was joined; "crashed": the worker used a destroyed member and    *)
(* the program died of it.                                                 *)
(***************************************************************************)
Lives == {"alive", "stopping", "membersGone", "joined", "crashed"}

WorkerPlaces == {"wait", "announce", "check", "lock", "next", "step",
                 "publish", "retire", "exited"}

CallerPlaces == {"ready", "register", "push", "stop", "callbacks", "lock", "interrupt"}

Ready == [op |-> "ready", id |-> 0]

\* Mutant: ids start at zero.
FirstIdZero == 0

FirstId == 1

Init == /\ nextId = FirstId
        /\ queue = <<>>
        /\ tasks = {}
        /\ running = 0
        /\ dbOf = [q \in Ids |-> NoDatabase]
        /\ stopReq = {}
        /\ outcome = [q \in Ids |-> "none"]
        /\ caller = [c \in Callers |-> Ready]
        /\ wpc = "wait"
        /\ cur = 0
        /\ mode = "none"
        /\ begun = 0
        /\ armed = FALSE
        /\ hit = FALSE
        /\ result = "none"
        /\ overrun = 0
        /\ life = "alive"

\* The worker is in execute() with the connection mutex of d.
Locked(d) == wpc \in {"next", "step"} /\ dbOf[cur] = d

\* Mutant: cancel interrupts what running_ points to.
RunningAnywhere(d) == wpc = "step"

\* A statement of the worker is running on d.
Running(d) == wpc = "step" /\ dbOf[cur] = d

IsSqlite(q) == dbOf[q] \in Sqlite

-----------------------------------------------------------------------------
\* submit

At(c, op) == life = "alive" /\ caller[c].op = op
Goto(c, op) == caller' = [caller EXCEPT ![c].op = op]
Return(c) == caller' = [caller EXCEPT ![c] = Ready]

\* Lines 19-28: a fresh id and a TaskControl that names the database.
SubmitTakeId(c, d) ==
  /\ At(c, "ready")
  /\ nextId <= MaxQueries
  /\ nextId' = nextId + 1
  /\ dbOf' = [dbOf EXCEPT ![nextId] = d]
  /\ caller' = [caller EXCEPT ![c] = [op |-> "register", id |-> nextId]]
  /\ UNCHANGED <<queue, tasks, running, stopReq, outcome, wpc, cur, execution, armed, hit, life>>

\* Lines 29-32, under mutex_.
SubmitRegister(c) ==
  /\ At(c, "register")
  /\ tasks' = tasks \cup {caller[c].id}
  /\ Goto(c, "push")
  /\ UNCHANGED <<nextId, queue, running, dbOf, stopReq, outcome, wpc, cur, execution, armed, hit, life>>

\* Line 33, and the return of the handle.
SubmitPush(c) ==
  /\ At(c, "push")
  /\ queue' = Append(queue, caller[c].id)
  /\ outcome' = [outcome EXCEPT ![caller[c].id] = "pending"]
  /\ Return(c)
  /\ UNCHANGED <<nextId, tasks, running, dbOf, stopReq, wpc, cur, execution, armed, hit, life>>

-----------------------------------------------------------------------------
\* cancel

\* The queries whose submit has returned a handle.
Submitted == {q \in Ids : outcome[q] # "none"}

\* Lines 41-47: the id is not registered, cancel returns false.
CancelRefused(c, q) ==
  /\ At(c, "ready")
  /\ q \in Submitted
  /\ q \notin tasks
  /\ UNCHANGED vars

\* Mutant: cancel takes the control out of the registry.
CancelTakesControl(c, q) ==
  /\ At(c, "ready")
  /\ q \in Submitted
  /\ q \in tasks
  /\ tasks' = tasks \ {q}
  /\ caller' = [caller EXCEPT ![c] = [op |-> "stop", id |-> q]]
  /\ UNCHANGED <<nextId, queue, running, dbOf, stopReq, outcome, wpc, cur, execution, armed, hit, life>>

CancelFound(c, q) ==
  /\ At(c, "ready")
  /\ q \in Submitted
  /\ q \in tasks
  /\ caller' = [caller EXCEPT ![c] = [op |-> "stop", id |-> q]]
  /\ UNCHANGED <<front, stopReq, outcome, wpc, cur, execution, armed, hit, life>>

(***************************************************************************)
(* Line 50.  The first request_stop goes on to run the callbacks           *)
(* registered at that moment, in the caller's thread; a second one returns *)
(* at once.                                                                *)
(***************************************************************************)
CancelRequestStop(c) ==
  /\ At(c, "stop")
  /\ stopReq' = stopReq \cup {caller[c].id}
  /\ Goto(c, IF caller[c].id \in stopReq THEN "lock" ELSE "callbacks")
  /\ UNCHANGED <<front, outcome, wpc, cur, execution, armed, hit, life>>

(***************************************************************************)
(* The stop callback of SQLiteProgressGuard latches cancelled_ and calls   *)
(* sqlite3_interrupt; that of CancellationBridge calls PQcancel.  Either   *)
(* interrupts the statement its guard stands around.                       *)
(***************************************************************************)
CancelRunCallbacks(c) ==
  /\ At(c, "callbacks")
  /\ hit' = (hit \/ (armed /\ cur = caller[c].id))
  /\ armed' = (armed /\ cur # caller[c].id)
  /\ Goto(c, "lock")
  /\ UNCHANGED <<front, stopReq, outcome, wpc, cur, execution, life>>

\* Mutant: cancel waits until its query is the running one.
ConnectionFreeWhenRunning(c) == running = caller[c].id /\ ~Locked(dbOf[caller[c].id])

ConnectionFree(c) == ~Locked(dbOf[caller[c].id])

\* cancel_running_query reads the handle under the connection mutex ...
CancelReadHandle(c) ==
  /\ At(c, "lock")
  /\ ConnectionFree(c)
  /\ Goto(c, "interrupt")
  /\ UNCHANGED <<front, stopReq, outcome, wpc, cur, execution, armed, hit, life>>

(***************************************************************************)
(* ... and interrupts after it has released the mutex: whatever statement  *)
(* runs on the connection by then is hit, whoever submitted it.            *)
(***************************************************************************)
CancelInterrupt(c) ==
  /\ At(c, "interrupt")
  /\ hit' = (hit \/ Running(dbOf[caller[c].id]))
  /\ Return(c)
  /\ UNCHANGED <<front, stopReq, outcome, wpc, cur, execution, armed, life>>

-----------------------------------------------------------------------------
\* worker_loop

WorkerAt(place) == life # "crashed" /\ wpc = place

\* Line 60: wait_pop returns an item, even after a stop was requested.
WorkerPop ==
  /\ WorkerAt("wait")
  /\ queue # <<>>
  /\ cur' = Head(queue)
  /\ queue' = Tail(queue)
  /\ wpc' = "announce"
  /\ UNCHANGED <<nextId, tasks, running, dbOf, stopReq, outcome, caller, execution, armed, hit, life>>

(***************************************************************************)
(* A worker that locks mutex_ once it is destroyed has undefined           *)
(* behaviour: the program dies, or the worker passes with no visible       *)
(* effect on the registry.                                                 *)
(***************************************************************************)
UseDestroyedMembers == life = "membersGone" /\ life' = "crashed"
MembersGone == life = "membersGone"

\* Mutant: wait_pop without the stop token.
StopUnseen == FALSE

StopSeen == life # "alive"

\* Mutant: a stop makes wait_pop return nullopt whatever is queued.
MayLeaveItems == TRUE

NothingLeft == queue = <<>>

\* Mutant: the worker resets running_ once more when it leaves its loop.
LeavesByRegistry == UNCHANGED life \/ UseDestroyedMembers

LeavesQuietly == UNCHANGED life

\* Line 60: wait_pop returns nullopt, and nothing is touched after the loop.
WorkerExit ==
  /\ WorkerAt("wait")
  /\ NothingLeft
  /\ StopSeen
  /\ LeavesQuietly
  /\ wpc' = "exited"
  /\ UNCHANGED <<front, stopReq, outcome, caller, cur, execution, armed, hit>>

\* Lines 62-65.
WorkerAnnounce ==
  /\ WorkerAt("announce")
  /\ running' = IF MembersGone THEN running ELSE cur
  /\ wpc' = "check"
  /\ UNCHANGED life \/ UseDestroyedMembers
  /\ UNCHANGED <<nextId, queue, tasks, dbOf, stopReq, outcome, caller, cur, execution, armed, hit>>

\* Lines 68-70: a query cancelled while it was queued is not executed.
WorkerSkipCancelled ==
  /\ WorkerAt("check")
  /\ cur \in stopReq
  /\ result' = "cancelled"
  /\ wpc' = "publish"
  /\ UNCHANGED <<front, stopReq, outcome, caller, cur, mode, begun, overrun, armed, hit, life>>

WorkerExecute ==
  /\ WorkerAt("check")
  /\ cur \notin stopReq
  /\ wpc' = "lock"
  /\ UNCHANGED <<front, stopReq, outcome, caller, cur, execution, armed, hit, life>>

-----------------------------------------------------------------------------
\* execute, on either backend

\* SQLite answers an EXPLAIN request before it locks (lines 493-495).
ExecuteRejectsExplain ==
  /\ WorkerAt("lock")
  /\ IsSqlite(cur)
  /\ result' = "error"
  /\ wpc' = "publish"
  /\ UNCHANGED <<front, stopReq, outcome, caller, cur, mode, begun, overrun, armed, hit, life>>

ExecuteLock ==
  /\ WorkerAt("lock")
  /\ wpc' = "next"
  /\ UNCHANGED <<front, stopReq, outcome, caller, cur, execution, armed, hit, life>>

(***************************************************************************)
(* Which statement execute() may run next.  SQLite: the non-row statements *)
(* of the script ("command"), then at most one row statement ("query").    *)
(* PostgreSQL: one "command", one "explain", or the two statements of      *)
(* PostgresPagedQueryCursor::create ("query").                             *)
(***************************************************************************)
SqliteMayBegin(m) == m \in {"command", "query"} /\ begun < MaxStatements

PostgresMayBegin(m) == \/ begun = 0 /\ m \in {"command", "query", "explain"}
                       \/ begun = 1 /\ mode = "query" /\ m = "query"

MayBegin(m) == IF IsSqlite(cur) THEN SqliteMayBegin(m) ELSE PostgresMayBegin(m)

\* Mutant: the progress guard forgets a stop requested before it was built.
HitFromStartUnlatched == FALSE

(***************************************************************************)
(* A guard built after the stop runs its callback in its constructor.  For *)
(* SQLite that latches cancelled_, which the progress handler reads during *)
(* the statement; for PostgreSQL PQcancel goes to an idle backend and is   *)
(* lost.                                                                   *)
(***************************************************************************)
HitFromStart == cur \in stopReq /\ IsSqlite(cur)

ExecuteBeginStatement(m) ==
  /\ WorkerAt("next")
  /\ MayBegin(m)
  /\ mode' = m
  /\ begun' = begun + 1
  /\ armed' = (cur \notin stopReq)
  /\ hit' = HitFromStart
  /\ overrun' = IF cur \in stopReq THEN overrun + 1 ELSE overrun
  /\ wpc' = "step"
  /\ UNCHANGED <<front, stopReq, outcome, caller, cur, result, life>>

\* The statement fails to prepare, the text is empty or the handle is closed.
ExecuteFail ==
  /\ WorkerAt("next")
  /\ IsSqlite(cur) \/ begun = 0
  /\ result' = "error"
  /\ wpc' = "publish"
  /\ UNCHANGED <<front, stopReq, outcome, caller, cur, mode, begun, overrun, armed, hit, life>>

\* The SQLite script ends without a row statement.
ExecuteScriptDone ==
  /\ WorkerAt("next")
  /\ IsSqlite(cur) /\ begun > 0
  /\ result' = "ok"
  /\ wpc' = "publish"
  /\ UNCHANGED <<front, stopReq, outcome, caller, cur, mode, begun, overrun, armed, hit, life>>

\* Mutant: only the return code of the step is looked at, as on PostgreSQL.
SqliteReportsByCode(rc) == rc = "interrupted"

(***************************************************************************)
(* Is an execution that stops at a statement reported as cancelled?        *)
(* SQLite: when the statement was interrupted or a stop was requested by   *)
(* now, even if the statement had its effect.  PostgreSQL: only for a      *)
(* command that ended with SQLSTATE 57014.                                 *)
(***************************************************************************)
SqliteReportsCancelled(rc) == rc = "interrupted" \/ cur \in stopReq

PostgresReportsCancelled(rc) == rc = "interrupted" /\ mode = "command"

ReportsCancelled(rc) == IF IsSqlite(cur) THEN SqliteReportsCancelled(rc)
                        ELSE PostgresReportsCancelled(rc)

\* Is this the last statement of the execution, when it succeeds?
LastStatement ==
  IF IsSqlite(cur) THEN mode = "query"
  ELSE mode = "query" => begun = 2

EndStatement(rc) ==
  /\ WorkerAt("step")
  /\ armed' = FALSE
  /\ hit' = FALSE
  /\ IF ~ReportsCancelled(rc) /\ rc = "done" /\ ~LastStatement
     THEN /\ wpc' = "next"
          /\ UNCHANGED result
     ELSE /\ wpc' = "publish"
          /\ result' = IF ReportsCancelled(rc) THEN "cancelled"
                       ELSE IF rc = "done" THEN "ok" ELSE "error"
  /\ UNCHANGED <<front, stopReq, outcome, caller, cur, mode, begun, overrun, life>>

\* The statement ends by itself, with a result or an error ...
ExecuteEndStatement == cur \notin Endless /\ \E rc \in {"done", "failed"} : EndStatement(rc)

\* ... or because it was interrupted.
ExecuteEndInterrupted == hit /\ EndStatement("interrupted")

-----------------------------------------------------------------------------
\* worker_loop, after execute

\* Lines 71 and 73: the future becomes ready.
WorkerPublish ==
  /\ WorkerAt("publish")
  /\ outcome' = [outcome EXCEPT ![cur] = result]
  /\ wpc' = "retire"
  /\ UNCHANGED <<front, stopReq, caller, cur, execution, armed, hit, life>>

\* Mutant: a query that fails ends the loop.
AfterRetireUnlessFailed == IF result = "error" THEN "exited" ELSE "wait"

\* Whatever the outcome, the loop goes on.
AfterRetire == "wait"

\* Lines 80-86, and the end of the task's scope.
WorkerRetire ==
  /\ WorkerAt("retire")
  /\ tasks' = IF MembersGone THEN tasks ELSE tasks \ {cur}
  /\ running' = IF ~MembersGone /\ running = cur THEN 0 ELSE running
  /\ cur' = 0
  /\ mode' = "none" /\ begun' = 0 /\ overrun' = 0 /\ result' = "none"
  /\ wpc' = AfterRetire
  /\ UNCHANGED life \/ UseDestroyedMembers
  /\ UNCHANGED <<nextId, queue, dbOf, stopReq, outcome, caller, armed, hit>>

-----------------------------------------------------------------------------
\* The destructor

\* Lines 14-16.  No caller is in a method of a service being destroyed.
DestroyRequestStop ==
  /\ life = "alive"
  /\ \A c \in Callers : caller[c] = Ready
  /\ life' = "stopping"
  /\ UNCHANGED <<front, stopReq, outcome, caller, wpc, cur, execution, armed, hit>>

\* The members declared after worker_ are destroyed first, whatever it does.
DestroyMembers ==
  /\ life = "stopping"
  /\ life' = "membersGone"
  /\ UNCHANGED <<front, stopReq, outcome, caller, wpc, cur, execution, armed, hit>>

DestroyJoin ==
  /\ life = "membersGone"
  /\ wpc = "exited"
  /\ life' = "joined"
  /\ UNCHANGED <<front, stopReq, outcome, caller, wpc, cur, execution, armed, hit>>

-----------------------------------------------------------------------------
\* The steps of a submit or a cancel that has begun.
CallStep(c) == \/ SubmitRegister(c) \/ SubmitPush(c)
               \/ CancelRequestStop(c) \/ CancelRunCallbacks(c)
               \/ CancelReadHandle(c) \/ CancelInterrupt(c)

CallBegin(c) == \/ \E d \in Databases : SubmitTakeId(c, d)
                \/ \E q \in Ids : CancelRefused(c, q) \/ CancelFound(c, q)

ExecuteNext == \/ \E m \in {"command", "query", "explain"} : ExecuteBeginStatement(m)
               \/ ExecuteFail
               \/ ExecuteScriptDone

\* What the worker does without waiting for an engine.
WorkerStep == \/ WorkerPop \/ WorkerExit \/ WorkerAnnounce
              \/ WorkerSkipCancelled \/ WorkerExecute
              \/ ExecuteRejectsExplain \/ ExecuteLock \/ ExecuteNext
              \/ WorkerPublish \/ WorkerRetire

EngineStep == ExecuteEndStatement \/ ExecuteEndInterrupted

Operate == \/ \E c \in Callers : CallBegin(c) \/ CallStep(c)
           \/ WorkerStep
           \/ EngineStep

\* The object is gone, one way or the other.
Gone == life \in {"joined", "crashed"} /\ UNCHANGED vars

Teardown == DestroyRequestStop \/ DestroyMembers \/ DestroyJoin \/ Gone

Next == Operate \/ Teardown

(***************************************************************************)
(* The scheduler runs every thread that is not blocked: callers finish the *)
(* calls they began, the worker goes on, an interrupted statement stops,   *)
(* and a statement that is not endless ends.  Nobody is made to call, and  *)
(* nothing makes an endless statement end.  The destructor, once begun,    *)
(* goes on.                                                                *)
(***************************************************************************)
Fairness == /\ \A c \in Callers : WF_vars(CallStep(c))
            /\ WF_vars(WorkerStep)
            /\ WF_vars(EngineStep)
            /\ WF_vars(DestroyMembers)
            /\ WF_vars(DestroyJoin)

Spec == Init /\ [][Next]_vars

FairSpec == Spec /\ Fairness

-----------------------------------------------------------------------------
\* The type invariant; that caller ids and cur are ids needs FIFO bookkeeping.
TypeOK ==
  /\ nextId \in 1..(MaxQueries + 1)
  /\ queue \in Seq(Ids)
  /\ tasks \subseteq Ids
  /\ running \in Ids \cup {0}
  /\ dbOf \in [Ids -> Databases \cup {NoDatabase}]
  /\ stopReq \subseteq Ids
  /\ outcome \in [Ids -> Answers \cup {"none", "pending"}]
  /\ caller \in [Callers -> [op : CallerPlaces, id : Ids \cup {0}]]
  /\ wpc \in WorkerPlaces
  /\ cur \in Ids \cup {0}
  /\ mode \in {"none", "command", "query", "explain"}
  /\ begun \in Nat
  /\ overrun \in 0..begun
  /\ result \in Answers \cup {"none"}
  /\ armed \in BOOLEAN
  /\ hit \in BOOLEAN
  /\ life \in Lives

(***************************************************************************)
(* A queued or executing query is always registered, so cancel never       *)
(* answers false for a query that has no answer yet: submit registers      *)
(* before it pushes (lines 29-33), and the worker erases after set_value   *)
(* (lines 71, 82).                                                         *)
(***************************************************************************)
RegistryCoversInFlight == \A q \in Ids : outcome[q] = "pending" => q \in tasks

(***************************************************************************)
(* However a cancel races with execute(), a SQLite script runs at most one *)
(* more statement after the stop was requested and is then reported        *)
(* cancelled, never ok; a PostgreSQL row query, whose cancel can be lost,  *)
(* runs at most its two statements.                                        *)
(***************************************************************************)
CancelStopsScript ==
  /\ overrun <= IF cur # 0 /\ IsSqlite(cur) THEN 1 ELSE 2
  /\ (wpc = "publish" /\ IsSqlite(cur) /\ overrun > 0) => result = "cancelled"

(***************************************************************************)
(* Destroying the service leaves no promise unset: when the worker has     *)
(* been joined every queued query has its answer (the worker drains the    *)
(* queue after the stop, lines 14-16 and 60).                              *)
(***************************************************************************)
ShutdownAnswersAll == life = "joined" => \A q \in Ids : outcome[q] # "pending"

(***************************************************************************)
(* The members that die before the worker is joined (hpp lines 62-64) hurt *)
(* only a destructor that runs while a query is in flight: from an idle    *)
(* service the program always ends cleanly.                                *)
(***************************************************************************)
Idle == wpc = "wait" /\ queue = <<>>
IdleShutdownIsClean == []((life = "stopping" /\ Idle) => [](life # "crashed"))

(***************************************************************************)
(* The service implements QueryLedger: every query is answered once, in    *)
(* the order of the pushes, and "cancelled" is never the answer unless a   *)
(* query of the same connection was cancelled.                             *)
(***************************************************************************)
InHand == IF cur # 0 /\ outcome[cur] = "pending" THEN <<cur>> ELSE <<>>
Ledger == INSTANCE QueryLedger
            WITH waiting <- InHand \o queue,
                 target <- [q \in Ids |-> IF outcome[q] = "none" THEN NoDatabase ELSE dbOf[q]],
                 requested <- stopReq
ImplementsLedger == Ledger!Spec

(***************************************************************************)
(* A cancelled query that is executing ends, even if its statements never  *)
(* end by themselves: on SQLite wherever the request meets execute(), on   *)
(* PostgreSQL when it meets a statement with its callback still armed.     *)
(***************************************************************************)
CancelMeetsStatement(q) ==
  /\ cur = q /\ q \in stopReq /\ outcome[q] = "pending"
  /\ IsSqlite(q) \/ (wpc = "step" /\ armed)
CancelEndsRunningQuery ==
  \A q \in Ids : CancelMeetsStatement(q) ~> (outcome[q] \in Answers \/ life = "crashed")

\* The worker waits for a statement that nothing has ended.
HeldByEndless == wpc = "step" /\ cur \in Endless

(***************************************************************************)
(* Every queued query is answered and its control is released, whatever is *)
(* cancelled meanwhile: nothing stalls the worker and no control leaks.    *)
(* Only a statement without end holds the others up, for ever.             *)
(***************************************************************************)
EveryQueryEnds ==
  \A q \in Ids :
    outcome[q] = "pending" ~> \/ outcome[q] \in Answers /\ q \notin tasks
                             \/ life # "alive"
                             \/ []HeldByEndless

(***************************************************************************)
(* A destructor that has begun returns, or the program dies, unless a      *)
(* statement has no end: it does not cancel what is running (line 15).     *)
(***************************************************************************)
ShutdownEnds == life = "stopping" ~> life \in {"joined", "crashed"} \/ []HeldByEndless

(***************************************************************************)
(* cancel waits for the connection mutex, and still returns, unless its    *)
(* query or the one in front of it on the connection has no end.           *)
(***************************************************************************)
CancelReturns ==
  \A c \in Callers : caller[c].op = "lock" ~> caller[c].op = "ready" \/ []HeldByEndless
=============
