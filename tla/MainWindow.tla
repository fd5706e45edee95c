----------------------------- MODULE MainWindow -----------------------------
(***************************************************************************)
(* ui/MainWindow.cpp over the query service: the one thread that draws     *)
(* frames is the one caller of submit and cancel.  A frame polls the       *)
(* active query and then draws the windows in the order of render(); a     *)
(* window either gets the click of this frame or is just drawn.            *)
(*                                                                         *)
(* Everything the drawing thread asks of the connection (autocommit, BEGIN,*)
(* COMMIT, ROLLBACK, a page of rows) locks the connection's mutex, the one *)
(* execute() holds in the worker.                                          *)
(***************************************************************************)
EXTENDS QueryExecutionService

CONSTANT ui  \* the drawing thread

ASSUME WindowAssumption == Callers = {ui}

VARIABLES
  stage,     \* the part of the frame that is drawn next, "closed" at the end
  clicked,   \* was the click of this frame used?
  database,  \* database_
  opened,    \* connections made so far; each connect makes a new one
  active,    \* id in active_query_, 0 when reset
  grid,      \* id of the query whose cursor the result grid shows, 0 for none
  modal      \* is the dangerous-write question open?

panels == <<database, opened, grid, modal>>
uiVars == <<stage, clicked, panels, active>>
serviceVars == vars
allVars == <<serviceVars, uiVars>>

Stages == {"poll", "menu", "status", "connection", "editor", "results", "modal", "closed"}

\* The order of render(), lines 51-66.
Following == [poll |-> "menu", menu |-> "status", status |-> "connection",
              connection |-> "editor", editor |-> "results", results |-> "modal",
              modal |-> "poll"]

WindowInit == /\ Init
              /\ stage = "poll"
              /\ clicked = FALSE
              /\ database = NoDatabase
              /\ opened = {}
              /\ active = 0
              /\ grid = 0
              /\ modal = FALSE

\* The drawing thread is at stage s, and not inside a call of the service.
Drawing(s) == stage = s /\ caller[ui] = Ready /\ life = "alive"

GoOn(s) == stage' = Following[s]

\* A mouse click goes to one widget, and to the modal alone while it is open.
Click(s) == /\ Drawing(s)
            /\ ~clicked
            /\ s # "modal" => ~modal
            /\ clicked' = TRUE

Connected == database # NoDatabase

\* A call that locks the connection's mutex gets through.
Unlocked(d) == ~Locked(d)

-----------------------------------------------------------------------------
\* poll_query, lines 389-415

AnswerReady == active # 0 /\ outcome[active] \in Answers

PollNothing ==
  /\ Drawing("poll")
  /\ ~AnswerReady
  /\ GoOn("poll")
  /\ clicked' = FALSE
  /\ UNCHANGED <<serviceVars, panels, active>>

\* An error clears the grid; a result replaces what it showed, with or without rows.
PollAnswer ==
  /\ Drawing("poll")
  /\ AnswerReady
  /\ grid' \in IF outcome[active] = "ok" THEN {0, active} ELSE {0}
  /\ active' = 0
  /\ GoOn("poll")
  /\ clicked' = FALSE
  /\ UNCHANGED <<serviceVars, database, opened, modal>>

-----------------------------------------------------------------------------
\* The buttons

\* Mutant: connect leaves active_query_ alone.
ActiveAfterConnectKept == active

\* Line 434: the future is dropped, the query is not cancelled.
ActiveAfterConnect == 0

(***************************************************************************)
(* connect, lines 417-435, from the menu or the connection window.  A      *)
(* session that fails to open changes nothing but the error text.          *)
(***************************************************************************)
ClickConnect(s) ==
  /\ Click(s)
  /\ \/ \E d \in Databases \ opened :
          /\ database' = d
          /\ opened' = opened \cup {d}
          /\ grid' = 0
          /\ active' = ActiveAfterConnect
     \/ UNCHANGED <<database, opened, grid, active>>
  /\ UNCHANGED <<serviceVars, stage, modal>>

\* Mutant: Run is offered while a query is active.
CanRunAlways(s) == s = "menu" => Connected

\* Line 144 for the menu; the editor needs no connection (line 313).
CanRun(s) == active = 0 /\ (s = "menu" => Connected)

\* Mutant: the grid keeps its cursor while the next query runs.
GridWhenQueuedKept == grid

\* Line 459.
GridWhenQueued == 0

(***************************************************************************)
(* enqueue_query: with a connection it clears the panels and calls submit, *)
(* without one it only sets the error text.                                *)
(***************************************************************************)
Enqueue ==
  \/ /\ Connected
     /\ SubmitTakeId(ui, database)
     /\ grid' = GridWhenQueued
  \/ /\ ~Connected
     /\ UNCHANGED <<serviceVars, grid>>

(***************************************************************************)
(* submit_query: a write without WHERE asks first, connected or not, any   *)
(* other text goes to enqueue_query, which refuses an empty one.           *)
(***************************************************************************)
ClickRun(s) ==
  /\ Click(s)
  /\ CanRun(s)
  /\ \/ modal' = TRUE /\ UNCHANGED <<serviceVars, grid>>
     \/ Enqueue /\ UNCHANGED modal
     \/ UNCHANGED <<serviceVars, grid, modal>>
  /\ UNCHANGED <<stage, database, opened, active>>

\* The end of enqueue_query, lines 462-464: active_query_ is the new handle.
SubmitReturns ==
  /\ SubmitPush(ui)
  /\ active' = caller[ui].id
  /\ UNCHANGED <<stage, clicked, panels>>

\* Cancel Query in the menu, Cancel Running Query in the connection window.
ClickCancel(s) ==
  /\ Click(s)
  /\ active # 0
  /\ CancelFound(ui, active) \/ CancelRefused(ui, active)
  /\ UNCHANGED <<stage, panels, active>>

(***************************************************************************)
(* Autocommit, BEGIN, COMMIT, ROLLBACK: lines 244-264.  Their effect on    *)
(* the connection is not seen here; they wait for its mutex.               *)
(***************************************************************************)
ClickTransaction ==
  /\ Click("connection")
  /\ Connected /\ Unlocked(database)
  /\ UNCHANGED <<serviceVars, stage, panels, active>>

\* Lines 364-387: Execute does not look at active_query_ again.
ModalExecute ==
  /\ Click("modal")
  /\ modal
  /\ Enqueue
  /\ modal' = FALSE
  /\ UNCHANGED <<stage, database, opened, active>>

ModalCancel ==
  /\ Click("modal")
  /\ modal
  /\ modal' = FALSE
  /\ UNCHANGED <<serviceVars, stage, database, opened, grid, active>>

-----------------------------------------------------------------------------
\* Drawing, click or no click

\* No call into the connection: the menu, the editor, the modal.
DrawPlain(s) ==
  /\ s \in {"menu", "editor", "modal"}
  /\ Drawing(s)
  /\ GoOn(s)
  /\ UNCHANGED <<serviceVars, clicked, panels, active>>

\* Lines 94 and 243: every frame asks the connection for autocommit.
DrawAutocommit(s) ==
  /\ s \in {"status", "connection"}
  /\ Drawing(s)
  /\ Connected => Unlocked(database)
  /\ GoOn(s)
  /\ UNCHANGED <<serviceVars, clicked, panels, active>>

\* The connection window may be closed or collapsed (lines 206-213).
DrawHiddenConnection ==
  /\ Drawing("connection")
  /\ GoOn("connection")
  /\ UNCHANGED <<serviceVars, clicked, panels, active>>

\* The grid is drawn from cached pages, or fetches one under the mutex.
DrawResultsCached ==
  /\ Drawing("results")
  /\ GoOn("results")
  /\ UNCHANGED <<serviceVars, clicked, panels, active>>

DrawResultsFetch ==
  /\ Drawing("results")
  /\ grid # 0 /\ Unlocked(dbOf[grid])
  /\ GoOn("results")
  /\ UNCHANGED <<serviceVars, clicked, panels, active>>

\* The window is closed between two frames; main destroys the MainWindow.
CloseWindow ==
  /\ stage = "poll"
  /\ DestroyRequestStop
  /\ stage' = "closed"
  /\ UNCHANGED <<clicked, panels, active>>

-----------------------------------------------------------------------------
\* The steps of a frame that need no user.
DrawStep == \/ PollNothing \/ PollAnswer
            \/ \E s \in Stages : DrawPlain(s) \/ DrawAutocommit(s)
            \/ DrawResultsCached \/ DrawResultsFetch
            \/ DrawHiddenConnection

\* The steps of a call into the service that the drawing thread has begun.
InCall == \/ SubmitReturns
          \/ /\ \/ SubmitRegister(ui)
                \/ CancelRequestStop(ui) \/ CancelRunCallbacks(ui)
                \/ CancelReadHandle(ui) \/ CancelInterrupt(ui)
             /\ UNCHANGED uiVars

UserStep == \/ \E s \in {"menu", "connection"} : ClickConnect(s) \/ ClickCancel(s)
            \/ \E s \in {"menu", "editor"} : ClickRun(s)
            \/ ClickTransaction
            \/ ModalExecute \/ ModalCancel
            \/ CloseWindow

Background == \/ WorkerStep /\ UNCHANGED uiVars
              \/ EngineStep /\ UNCHANGED uiVars
              \/ (DestroyMembers \/ DestroyJoin \/ Gone) /\ UNCHANGED uiVars

WindowNext == DrawStep \/ InCall \/ UserStep \/ Background

(***************************************************************************)
(* The drawing thread goes on whenever it is not blocked, and so does the  *)
(* worker; nobody is made to click.                                        *)
(***************************************************************************)
WindowFairness == /\ WF_allVars(DrawStep)
                  /\ WF_allVars(InCall)
                  /\ WF_allVars(WorkerStep /\ UNCHANGED uiVars)
                  /\ WF_allVars(EngineStep /\ UNCHANGED uiVars)
                  /\ WF_allVars((DestroyMembers \/ DestroyJoin) /\ UNCHANGED uiVars)

WindowSpec == WindowInit /\ [][WindowNext]_allVars

FairWindowSpec == WindowSpec /\ WindowFairness

-----------------------------------------------------------------------------
\* The type invariant.
WindowTypeOK == /\ TypeOK
                /\ stage \in Stages
                /\ clicked \in BOOLEAN
                /\ database \in opened \cup {NoDatabase}
                /\ opened \subseteq Databases
                /\ active \in Ids \cup {0}
                /\ grid \in Ids \cup {0}
                /\ modal \in BOOLEAN

(***************************************************************************)
(* What the window shows belongs to the connection it is on and to the     *)
(* last query submitted there: an answer that arrives after a reconnect is *)
(* never applied, and no cursor outlives the submit of the next query.     *)
(***************************************************************************)
DisplayFollowsConnection ==
  \A q \in {grid, active} \ {0} : q = nextId - 1 /\ dbOf[q] = database

(***************************************************************************)
(* Scrolling never waits for a running query: the connection behind the    *)
(* cursor on display is never locked by the worker.                        *)
(***************************************************************************)
GridFetchNeverWaits == grid # 0 => ~Locked(dbOf[grid])

(***************************************************************************)
(* cancel_running_query interrupts a connection, not a query; used from    *)
(* this window it still never hits a query that was not cancelled.         *)
(***************************************************************************)
NoBystander == hit => cur \in stopReq

(***************************************************************************)
(* If statements end, an active query stops being active (answered, or     *)
(* dropped by a reconnect), so Run is offered again.                       *)
(***************************************************************************)
ActiveQueryEnds ==
  \A q \in Ids : active = q ~> (active # q \/ stage = "closed")

(***************************************************************************)
(* An asynchronous client goes on drawing, and taking clicks, while a      *)
(* query runs for as long as it likes.                                     *)
(***************************************************************************)
FramesGoOn == []<>(stage \in {"poll", "closed"})
=============================================================================
