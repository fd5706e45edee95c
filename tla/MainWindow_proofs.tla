-------------------------- MODULE MainWindow_proofs --------------------------
(***************************************************************************)
(* Proofs about the window over the query service, for any number of       *)
(* connections and queries: what is on display, and that neither a page of *)
(* rows nor a cancel from this window meets somebody else's query.         *)
(***************************************************************************)
EXTENDS MainWindow, QueryExecutionService_proofs

\* What the service keeps on its own, whoever calls it.
CalleeInv == ServiceInv /\ QueueInv /\ EndInv /\ CancelInv

WindowTypes == /\ stage \in Stages
               /\ clicked \in BOOLEAN
               /\ database \in opened \cup {NoDatabase}
               /\ opened \subseteq Databases
               /\ active \in Ids \cup {0}
               /\ grid \in Ids \cup {0}
               /\ modal \in BOOLEAN

(***************************************************************************)
(* The window waits for one thing at a time: an answer, or a click in the  *)
(* modal or in the grid.  While it is in submit it waits for nothing yet,  *)
(* and what it cancels is what it waits for.                               *)
(***************************************************************************)
OneAtATime ==
  /\ active = 0 \/ (grid = 0 /\ ~modal)
  /\ Submitting(ui) => /\ caller[ui].id = nextId - 1
                       /\ dbOf[caller[ui].id] = database
                       /\ active = 0 /\ grid = 0 /\ ~modal
  /\ Cancelling(ui) => caller[ui].id = active

\* Queries of a connection that was replaced may still wait for their answer.
OnlyActivePending ==
  \A q \in Ids : (outcome[q] = "pending" /\ dbOf[q] = database) => q = active

OnlyOpened == \A q \in Ids : dbOf[q] \in opened \cup {NoDatabase}

(***************************************************************************)
(* None of the window's three invariants is inductive alone: that the grid *)
(* is not locked out and that a cancel hits nobody else both rest on the   *)
(* one pending query of the connection being the active one, and that on   *)
(* the modal being open only when no query is active.                      *)
(***************************************************************************)
WindowInv == /\ WindowTypes /\ OneAtATime /\ OnlyActivePending /\ OnlyOpened
             /\ DisplayFollowsConnection /\ NoBystander

LEMMA WindowStepIsServiceStep == WindowTypes /\ [WindowNext]_allVars => [Next]_vars
<1> SUFFICES ASSUME WindowTypes, WindowNext
             PROVE  [Next]_vars
    BY DEF allVars, serviceVars
<1> USE DEF serviceVars
<1>u. ui \in Callers
      BY WindowAssumption
<1>1. CASE DrawStep
      BY <1>1 DEF DrawStep, PollNothing, PollAnswer, DrawPlain, DrawAutocommit, DrawResultsCached,
         DrawResultsFetch, DrawHiddenConnection
<1>2. CASE InCall
      BY <1>2, <1>u DEF InCall, SubmitReturns, Next, Operate, CallStep
<1>e. ASSUME Enqueue
      PROVE  [Next]_vars
  <2>1. CASE Connected /\ SubmitTakeId(ui, database)
    <3>1. database \in Databases
          BY <2>1 DEF Connected, WindowTypes
    <3>2. QED
          BY <1>u, <2>1, <3>1 DEF Next, Operate, CallBegin
  <2>2. QED
        BY <1>e, <2>1 DEF Enqueue
<1>3. ASSUME NEW s \in Stages, ClickConnect(s) \/ ClickRun(s) \/ ClickTransaction
                               \/ ModalExecute \/ ModalCancel
      PROVE  [Next]_vars
      BY <1>3, <1>e DEF ClickConnect, ClickRun, ClickTransaction, ModalExecute, ModalCancel
<1>4. ASSUME NEW s \in Stages, ClickCancel(s)
      PROVE  [Next]_vars
  <2>1. active \in Ids
        BY <1>4 DEF ClickCancel, WindowTypes
  <2>2. QED
        BY <1>4, <1>u, <2>1 DEF ClickCancel, Next, Operate, CallBegin
<1>5. CASE CloseWindow
      BY <1>5 DEF CloseWindow, Next, Teardown
<1>6. CASE Background
      BY <1>6 DEF Background, Next, Operate, Teardown
<1>7. QED
      BY <1>1, <1>2, <1>3, <1>4, <1>5, <1>6 DEF WindowNext, UserStep, Stages

LEMMA CalleeInvInductive == CalleeInv /\ [Next]_vars => CalleeInv'
  BY ServiceInvInductive, QueueInvInductive, EndInvInductive, CancelInvInductive DEF CalleeInv

-----------------------------------------------------------------------------
\* What the proofs of the steps below know of the state before.
LEMMA Known ==
  ASSUME CalleeInv, WindowInv
  PROVE  /\ ui \in Callers
         /\ nextId \in Nat \ {0} /\ MaxQueries \in Nat
         /\ dbOf \in [Ids -> Databases \cup {NoDatabase}]
         /\ outcome \in [Ids -> Answers \cup {"none", "pending"}]
         /\ caller \in [Callers -> [op : CallerPlaces, id : Ids \cup {0}]]
         /\ caller[ui].op # "ready" => caller[ui].id \in Ids
         /\ cur \in Ids \cup {0}
         /\ \A q \in Ids : q \in Nat \ {0}
         /\ \A q \in Ids : q >= nextId => outcome[q] = "none"
         /\ NoDatabase \notin Databases
<1>1. /\ nextId \in Nat \ {0} /\ MaxQueries \in Nat
      /\ \A q \in Ids : q \in Nat \ {0}
      BY ServiceAssumption DEF CalleeInv, ServiceInv, TypeOK, Ids
<1>2. QED
      BY <1>1, WindowAssumption, ServiceAssumption DEF CalleeInv, ServiceInv, TypeOK, CallsInv, IdsInv

\* A frame goes on, a click that is about no query: only stage, clicked, modal change.
LEMMA QuietStepsKeepWindow ==
  ASSUME CalleeInv, WindowInv, WindowTypes',
         UNCHANGED <<serviceVars, database, opened, active, grid>>,
         modal' => modal \/ (active = 0 /\ ~Submitting(ui))
  PROVE  WindowInv'
<1>1. UNCHANGED <<nextId, dbOf, outcome, caller, cur, hit, stopReq>>
      BY DEF serviceVars, vars, front
<1>2. OneAtATime'
      BY <1>1 DEF WindowInv, OneAtATime, Submitting, Cancelling
<1>3. (OnlyActivePending /\ OnlyOpened /\ DisplayFollowsConnection /\ NoBystander)'
      BY <1>1 DEF WindowInv, OnlyActivePending, OnlyOpened, DisplayFollowsConnection, NoBystander
<1>4. QED
      BY <1>2, <1>3 DEF WindowInv

LEMMA DrawKeepsWindow ==
  ASSUME CalleeInv, WindowInv, DrawStep
  PROVE  WindowInv'
<1> USE Known
<1>1. CASE PollNothing \/ DrawResultsCached \/ DrawResultsFetch \/ DrawHiddenConnection
  <2>1. UNCHANGED <<serviceVars, database, opened, active, grid, modal>>
        BY <1>1 DEF PollNothing, DrawResultsCached, DrawResultsFetch, DrawHiddenConnection, panels
  <2>2. stage' \in Stages /\ clicked' \in BOOLEAN
        BY <1>1 DEF PollNothing, DrawResultsCached, DrawResultsFetch, DrawHiddenConnection,
           GoOn, Following, Stages, WindowInv, WindowTypes
  <2>3. WindowTypes'
        BY <2>1, <2>2 DEF WindowInv, WindowTypes
  <2>4. QED
        BY <2>1, <2>3, QuietStepsKeepWindow
<1>2. ASSUME NEW s \in Stages, DrawPlain(s) \/ DrawAutocommit(s)
      PROVE  WindowInv'
  <2>1. UNCHANGED <<serviceVars, database, opened, active, grid, modal, clicked>>
        BY <1>2 DEF DrawPlain, DrawAutocommit, panels
  <2>2. stage' \in Stages
        BY <1>2 DEF DrawPlain, DrawAutocommit, GoOn, Following, Stages
  <2>3. WindowTypes'
        BY <2>1, <2>2 DEF WindowInv, WindowTypes
  <2>4. QED
        BY <2>1, <2>3, QuietStepsKeepWindow
<1>3. CASE PollAnswer
  <2>1. /\ UNCHANGED <<nextId, dbOf, outcome, caller, cur, hit, stopReq, database, opened, modal>>
        /\ caller[ui] = Ready
        /\ active' = 0 /\ grid' \in {0, active}
        /\ active \in Ids /\ outcome[active] # "pending"
        BY <1>3 DEF PollAnswer, serviceVars, vars, front, Drawing, AnswerReady, Answers,
           WindowInv, WindowTypes
  <2>2. stage' \in Stages /\ clicked' \in BOOLEAN
        BY <1>3 DEF PollAnswer, GoOn, Following, Stages
  <2>3. WindowTypes'
        BY <2>1, <2>2 DEF WindowInv, WindowTypes
  <2>4. OneAtATime'
        BY <2>1 DEF WindowInv, OneAtATime, Submitting, Cancelling, Ready
  <2>5. (OnlyActivePending /\ OnlyOpened /\ DisplayFollowsConnection /\ NoBystander)'
        BY <2>1 DEF WindowInv, OnlyActivePending, OnlyOpened, DisplayFollowsConnection, NoBystander
  <2>6. QED
        BY <2>3, <2>4, <2>5 DEF WindowInv
<1>4. QED
      BY <1>1, <1>2, <1>3 DEF DrawStep

\* enqueue_query with a connection, from Run or from the modal.
LEMMA TakeIdKeepsWindow ==
  ASSUME CalleeInv, WindowInv, Connected, SubmitTakeId(ui, database),
         active = 0, active' = 0, grid' = 0, modal' = FALSE,
         UNCHANGED <<stage, database, opened>>, clicked' \in BOOLEAN
  PROVE  WindowInv'
<1> USE Known
<1>1. nextId \in Ids /\ outcome[nextId] = "none"
      BY DEF SubmitTakeId, Ids
<1>2. /\ nextId' = nextId + 1
      /\ dbOf'[nextId] = database
      /\ \A q \in Ids : q # nextId => dbOf'[q] = dbOf[q]
      /\ caller'[ui] = [op |-> "register", id |-> nextId]
      /\ UNCHANGED <<outcome, cur, hit, stopReq>>
      BY <1>1 DEF SubmitTakeId
<1>3. WindowTypes'
      BY DEF WindowInv, WindowTypes
<1>4. OneAtATime'
      BY <1>1, <1>2 DEF OneAtATime, Submitting, Cancelling
<1>5. OnlyActivePending'
      BY <1>1, <1>2 DEF WindowInv, OnlyActivePending
<1>6. OnlyOpened'
      BY <1>1, <1>2 DEF WindowInv, WindowTypes, OnlyOpened
<1>7. DisplayFollowsConnection' /\ NoBystander'
      BY <1>2 DEF WindowInv, DisplayFollowsConnection, NoBystander
<1>8. QED
      BY <1>3, <1>4, <1>5, <1>6, <1>7 DEF WindowInv

LEMMA UserKeepsWindow ==
  ASSUME CalleeInv, WindowInv, UserStep
  PROVE  WindowInv'
<1> USE Known
<1>1. ASSUME NEW s \in {"menu", "connection"}, ClickConnect(s)
      PROVE  WindowInv'
  <2>1. /\ UNCHANGED <<nextId, dbOf, outcome, caller, cur, hit, stopReq, stage, modal>>
        /\ caller[ui] = Ready /\ ~modal /\ clicked' = TRUE
        BY <1>1 DEF ClickConnect, Click, Drawing, serviceVars, vars, front
  <2>2. CASE UNCHANGED <<database, opened, grid, active>>
    <3>1. WindowTypes'
          BY <2>1, <2>2 DEF WindowInv, WindowTypes
    <3>2. QED
          BY <1>1, <2>1, <2>2, <3>1, QuietStepsKeepWindow DEF ClickConnect
  <2>3. ASSUME NEW d \in Databases \ opened,
               database' = d, opened' = opened \cup {d}, grid' = 0, active' = 0
        PROVE  WindowInv'
    <3>1. WindowTypes'
          BY <2>1, <2>3 DEF WindowInv, WindowTypes
    <3>2. OneAtATime'
          BY <2>1, <2>3 DEF OneAtATime, Submitting, Cancelling, Ready
    <3>3. \A q \in Ids : dbOf[q] # d
          BY <2>3 DEF WindowInv, OnlyOpened
    <3>4. OnlyActivePending' /\ OnlyOpened'
          BY <2>1, <2>3, <3>3 DEF WindowInv, OnlyActivePending, OnlyOpened
    <3>5. DisplayFollowsConnection' /\ NoBystander'
          BY <2>1, <2>3 DEF WindowInv, DisplayFollowsConnection, NoBystander
    <3>6. QED
          BY <3>1, <3>2, <3>4, <3>5 DEF WindowInv
  <2>4. QED
        BY <1>1, <2>2, <2>3 DEF ClickConnect, ActiveAfterConnect
<1>2. ASSUME NEW s \in {"menu", "connection"}, ClickCancel(s)
      PROVE  WindowInv'
  <2>1. /\ UNCHANGED <<nextId, dbOf, outcome, cur, hit, stopReq, stage, database, opened, active,
                       grid, modal>>
        /\ caller' = caller \/ caller' = [caller EXCEPT ![ui] = [op |-> "stop", id |-> active]]
        /\ clicked' = TRUE
        BY <1>2 DEF ClickCancel, Click, CancelFound, CancelRefused, vars, front, panels
  <2>2. WindowTypes'
        BY <2>1 DEF WindowInv, WindowTypes
  <2>3. OneAtATime'
        BY <2>1 DEF WindowInv, OneAtATime, Submitting, Cancelling
  <2>4. (OnlyActivePending /\ OnlyOpened /\ DisplayFollowsConnection /\ NoBystander)'
        BY <2>1 DEF WindowInv, OnlyActivePending, OnlyOpened, DisplayFollowsConnection, NoBystander
  <2>5. QED
        BY <2>2, <2>3, <2>4 DEF WindowInv
<1>e. ASSUME Enqueue, active = 0, active' = 0, modal' = FALSE,
             clicked' = TRUE, UNCHANGED <<stage, database, opened>>
      PROVE  WindowInv'
  <2>1. CASE Connected
        BY <1>e, <2>1, TakeIdKeepsWindow DEF Enqueue, GridWhenQueued
  <2>2. CASE ~Connected
    <3>1. UNCHANGED <<serviceVars, grid>>
          BY <1>e, <2>2 DEF Enqueue
    <3>2. WindowTypes'
          BY <1>e, <3>1 DEF WindowInv, WindowTypes
    <3>3. QED
          BY <1>e, <3>1, <3>2, QuietStepsKeepWindow
  <2>3. QED
        BY <2>1, <2>2
<1>3. ASSUME NEW s \in {"menu", "editor"}, ClickRun(s)
      PROVE  WindowInv'
  <2>1. /\ active = 0 /\ active' = 0 /\ ~modal /\ clicked' = TRUE /\ caller[ui] = Ready
        /\ UNCHANGED <<stage, database, opened>>
        BY <1>3 DEF ClickRun, Click, CanRun, Drawing
  <2>2. CASE Enqueue /\ UNCHANGED modal
        BY <1>e, <2>1, <2>2 DEF WindowInv, WindowTypes
  <2>3. CASE UNCHANGED <<serviceVars, grid>> /\ modal' \in BOOLEAN
    <3>1. WindowTypes'
          BY <2>1, <2>3 DEF WindowInv, WindowTypes
    <3>2. ~Submitting(ui)
          BY <2>1 DEF Submitting, Ready
    <3>3. QED
          BY <2>1, <2>3, <3>1, <3>2, QuietStepsKeepWindow
  <2>4. QED
        BY <1>3, <2>2, <2>3 DEF ClickRun, WindowInv, WindowTypes
<1>4. CASE ModalExecute
  <2>1. active = 0
        BY <1>4 DEF ModalExecute, WindowInv, OneAtATime
  <2>2. QED
        BY <1>4, <1>e, <2>1 DEF ModalExecute, Click
<1>5. CASE ClickTransaction \/ ModalCancel
  <2>1. /\ UNCHANGED <<serviceVars, stage, database, opened, active, grid>>
        /\ clicked' = TRUE /\ (modal' = modal \/ modal' = FALSE)
        BY <1>5 DEF ClickTransaction, ModalCancel, Click, panels
  <2>2. WindowTypes'
        BY <2>1 DEF WindowInv, WindowTypes
  <2>3. QED
        BY <2>1, <2>2, QuietStepsKeepWindow
<1>6. CASE CloseWindow
  <2>1. /\ UNCHANGED <<nextId, dbOf, outcome, caller, cur, hit, stopReq, clicked, database, opened,
                       active, grid, modal>>
        /\ stage' \in Stages
        BY <1>6 DEF CloseWindow, DestroyRequestStop, front, panels, Stages
  <2>2. WindowTypes' /\ OneAtATime'
        BY <2>1 DEF WindowInv, WindowTypes, OneAtATime, Submitting, Cancelling
  <2>3. (OnlyActivePending /\ OnlyOpened /\ DisplayFollowsConnection /\ NoBystander)'
        BY <2>1 DEF WindowInv, OnlyActivePending, OnlyOpened, DisplayFollowsConnection, NoBystander
  <2>4. QED
        BY <2>2, <2>3 DEF WindowInv
<1>7. QED
      BY <1>1, <1>2, <1>3, <1>4, <1>5, <1>6 DEF UserStep

-----------------------------------------------------------------------------
\* A step of the service that the window only lets happen.
LEMMA ServiceStepsKeepWindow ==
  ASSUME CalleeInv, WindowInv, UNCHANGED <<uiVars, nextId, dbOf>>,
         \A q \in Ids : outcome'[q] = "pending" => outcome[q] = "pending",
         \/ caller'[ui] = Ready
         \/ /\ caller'[ui].id = caller[ui].id
            /\ Submitting(ui)' => Submitting(ui)
            /\ Cancelling(ui)' => Cancelling(ui),
         NoBystander'
  PROVE  WindowInv'
<1>1. UNCHANGED <<stage, clicked, database, opened, active, grid, modal>>
      BY DEF uiVars, panels
<1>2. WindowTypes'
      BY <1>1 DEF WindowInv, WindowTypes
<1>3. OneAtATime'
      BY <1>1 DEF WindowInv, OneAtATime, Submitting, Cancelling, Ready
<1>4. (OnlyActivePending /\ OnlyOpened /\ DisplayFollowsConnection)'
      BY <1>1 DEF WindowInv, OnlyActivePending, OnlyOpened, DisplayFollowsConnection
<1>5. QED
      BY <1>2, <1>3, <1>4 DEF WindowInv

LEMMA InCallKeepsWindow ==
  ASSUME CalleeInv, WindowInv, InCall
  PROVE  WindowInv'
<1> USE Known DEF At, Goto, Return, Ready, front, execution
<1>1. CASE SubmitReturns
  <2> DEFINE q == caller[ui].id
  <2>1. /\ caller[ui].op = "push" /\ q \in Ids /\ q = nextId - 1 /\ dbOf[q] = database
        /\ active = 0 /\ grid = 0 /\ ~modal
        BY <1>1 DEF SubmitReturns, SubmitPush, WindowInv, OneAtATime, Submitting
  <2>2. /\ active' = q /\ caller'[ui] = Ready
        /\ outcome' = [outcome EXCEPT ![q] = "pending"]
        /\ UNCHANGED <<nextId, dbOf, cur, hit, stopReq, stage, clicked, database, opened, grid, modal>>
        BY <1>1 DEF SubmitReturns, SubmitPush, panels
  <2>3. WindowTypes'
        BY <2>1, <2>2 DEF WindowInv, WindowTypes
  <2>4. OneAtATime'
        BY <2>1, <2>2 DEF OneAtATime, Submitting, Cancelling
  <2>5. OnlyActivePending'
        BY <2>1, <2>2 DEF WindowInv, OnlyActivePending
  <2>6. (OnlyOpened /\ DisplayFollowsConnection /\ NoBystander)'
        BY <2>1, <2>2 DEF WindowInv, OnlyOpened, DisplayFollowsConnection, NoBystander
  <2>7. QED
        BY <2>3, <2>4, <2>5, <2>6 DEF WindowInv
<1>2. CASE SubmitRegister(ui) /\ UNCHANGED uiVars
  <2>1. NoBystander' /\ Submitting(ui) /\ ~Cancelling(ui)'
        BY <1>2 DEF SubmitRegister, WindowInv, NoBystander, Submitting, Cancelling
  <2>2. caller'[ui].id = caller[ui].id
        BY <1>2 DEF SubmitRegister
  <2>3. UNCHANGED <<uiVars, nextId, dbOf, outcome>>
        BY <1>2 DEF SubmitRegister
  <2>4. QED
        BY <2>1, <2>2, <2>3, ServiceStepsKeepWindow
<1>c. ASSUME Cancelling(ui), UNCHANGED <<uiVars, nextId, dbOf, outcome>>, NoBystander',
             \/ caller'[ui] = Ready
             \/ caller'[ui].id = caller[ui].id /\ ~Submitting(ui)'
      PROVE  WindowInv'
      BY <1>c, ServiceStepsKeepWindow
<1>3. CASE CancelRequestStop(ui) /\ UNCHANGED uiVars
  <2>1. Cancelling(ui) /\ NoBystander'
        BY <1>3 DEF CancelRequestStop, WindowInv, NoBystander, Cancelling
  <2>2. UNCHANGED <<uiVars, nextId, dbOf, outcome>>
        BY <1>3 DEF CancelRequestStop
  <2>3. caller'[ui].id = caller[ui].id /\ ~Submitting(ui)'
        BY <1>3 DEF CancelRequestStop, Submitting
  <2>4. QED
        BY <1>c, <2>1, <2>2, <2>3
<1>4. CASE CancelRunCallbacks(ui) /\ UNCHANGED uiVars
  <2>1. Cancelling(ui) /\ caller[ui].id \in stopReq
        BY <1>4 DEF CancelRunCallbacks, CalleeInv, CancelInv, CallersCancel, Cancelling
  <2>2. NoBystander'
        BY <1>4, <2>1 DEF CancelRunCallbacks, WindowInv, NoBystander
  <2>3. UNCHANGED <<uiVars, nextId, dbOf, outcome>>
        BY <1>4 DEF CancelRunCallbacks
  <2>4. caller'[ui].id = caller[ui].id /\ ~Submitting(ui)'
        BY <1>4 DEF CancelRunCallbacks, Submitting
  <2>5. QED
        BY <1>c, <2>1, <2>2, <2>3, <2>4
<1>5. CASE CancelReadHandle(ui) /\ UNCHANGED uiVars
  <2>1. Cancelling(ui) /\ NoBystander'
        BY <1>5 DEF CancelReadHandle, WindowInv, NoBystander, Cancelling
  <2>2. UNCHANGED <<uiVars, nextId, dbOf, outcome>>
        BY <1>5 DEF CancelReadHandle
  <2>3. caller'[ui].id = caller[ui].id /\ ~Submitting(ui)'
        BY <1>5 DEF CancelReadHandle, Submitting
  <2>4. QED
        BY <1>c, <2>1, <2>2, <2>3
\* The interrupt: a statement that runs on the connection is one of the active query.
<1>6. CASE CancelInterrupt(ui) /\ UNCHANGED uiVars
  <2>1. /\ Cancelling(ui) /\ caller[ui].id \in stopReq /\ caller[ui].id \in Ids
        /\ caller[ui].id = active
        BY <1>6 DEF CancelInterrupt, CalleeInv, CancelInv, CallersCancel, Cancelling, WindowInv,
           OneAtATime
  <2>2. dbOf[active] = database
        BY <2>1 DEF WindowInv, DisplayFollowsConnection
  <2>3. ASSUME Running(dbOf[caller[ui].id])
        PROVE  cur \in stopReq
    <3>1. cur \in Ids /\ outcome[cur] = "pending" /\ dbOf[cur] = database
          BY <2>1, <2>2, <2>3 DEF Running, CalleeInv, ServiceInv, WorkerInv, QueueInv
    <3>2. QED
          BY <2>1, <3>1 DEF WindowInv, OnlyActivePending
  <2>4. NoBystander'
        BY <1>6, <2>3 DEF CancelInterrupt, WindowInv, NoBystander
  <2>5. UNCHANGED <<uiVars, nextId, dbOf, outcome>>
        BY <1>6 DEF CancelInterrupt
  <2>6. caller'[ui] = Ready
        BY <1>6 DEF CancelInterrupt
  <2>7. QED
        BY <1>c, <2>1, <2>4, <2>5, <2>6
<1>7. QED
      BY <1>1, <1>2, <1>3, <1>4, <1>5, <1>6 DEF InCall

LEMMA BackgroundKeepsWindow ==
  ASSUME CalleeInv, WindowInv, Background
  PROVE  WindowInv'
<1> USE Known DEF WorkerAt, front, execution
<1>b. ASSUME UNCHANGED <<uiVars, nextId, dbOf, caller>>, NoBystander',
             \A q \in Ids : outcome'[q] = "pending" => outcome[q] = "pending"
      PROVE  WindowInv'
      BY <1>b, ServiceStepsKeepWindow DEF Submitting, Cancelling
<1>h. hit => wpc = "step"
      BY DEF CalleeInv, CancelInv, WorkerCancels
<1>1. CASE /\ WorkerPop \/ WorkerRetire
           /\ UNCHANGED uiVars
  <2>1. ~hit'
        BY <1>1, <1>h DEF WorkerPop, WorkerRetire
  <2>2. QED
        BY <1>1, <1>b, <2>1 DEF WorkerPop, WorkerRetire, NoBystander
<1>2. CASE /\ \/ WorkerExit \/ WorkerAnnounce \/ WorkerSkipCancelled \/ WorkerExecute
              \/ ExecuteRejectsExplain \/ ExecuteLock \/ ExecuteFail \/ ExecuteScriptDone
           /\ UNCHANGED uiVars
  <2>1. UNCHANGED <<nextId, dbOf, caller, outcome, hit, cur, stopReq>>
        BY <1>2 DEF WorkerExit, WorkerAnnounce, WorkerSkipCancelled, WorkerExecute,
           ExecuteRejectsExplain, ExecuteLock, ExecuteFail, ExecuteScriptDone
  <2>2. QED
        BY <1>2, <1>b, <2>1 DEF WindowInv, NoBystander
<1>3. ASSUME NEW m \in {"command", "query", "explain"}, ExecuteBeginStatement(m), UNCHANGED uiVars
      PROVE  WindowInv'
      BY <1>3, <1>b DEF ExecuteBeginStatement, HitFromStart, NoBystander
<1>4. CASE WorkerPublish /\ UNCHANGED uiVars
  <2>1. cur \in Ids /\ result \in Answers /\ ~hit
        BY <1>4, <1>h DEF WorkerPublish, CalleeInv, ServiceInv, WorkerInv
  <2>2. \A q \in Ids : outcome'[q] = "pending" => outcome[q] = "pending"
        BY <1>4, <2>1 DEF WorkerPublish, Answers
  <2>3. QED
        BY <1>4, <1>b, <2>1, <2>2 DEF WorkerPublish, NoBystander
<1>5. CASE EngineStep /\ UNCHANGED uiVars
      BY <1>5, <1>b DEF EngineStep, ExecuteEndStatement, ExecuteEndInterrupted, EndStatement,
         NoBystander
<1>6. CASE (DestroyMembers \/ DestroyJoin \/ Gone) /\ UNCHANGED uiVars
  <2>1. UNCHANGED <<nextId, dbOf, caller, outcome, hit, cur, stopReq>>
        BY <1>6 DEF DestroyMembers, DestroyJoin, Gone, vars
  <2>2. QED
        BY <1>6, <1>b, <2>1 DEF WindowInv, NoBystander
<1>7. QED
      BY <1>1, <1>2, <1>3, <1>4, <1>5, <1>6 DEF Background, WorkerStep, ExecuteNext

LEMMA WindowInvInductive == CalleeInv /\ WindowInv /\ [WindowNext]_allVars => WindowInv'
<1>1. ASSUME CalleeInv, WindowInv, UNCHANGED allVars
      PROVE  WindowInv'
  <2>1. WindowTypes' /\ UNCHANGED <<serviceVars, database, opened, active, grid, modal>>
        BY <1>1 DEF WindowInv, WindowTypes, allVars, uiVars, panels
  <2>2. QED
        BY <1>1, <2>1, QuietStepsKeepWindow
<1>2. QED
      BY <1>1, DrawKeepsWindow, InCallKeepsWindow, UserKeepsWindow, BackgroundKeepsWindow
      DEF WindowNext

LEMMA WindowInvariant == WindowSpec => [](CalleeInv /\ WindowInv)
<1>1. WindowInit => CalleeInv
  <2> SUFFICES ASSUME Init
               PROVE  CalleeInv
      BY DEF WindowInit
  <2>1. Len(queue) = 0 /\ 1..0 = {}
        BY DEF Init
  <2>2. QueueInv /\ EndInv
        BY <2>1 DEF Init, QueueInv, EndInv
  <2>3. CancelInv
        BY DEF Init, CancelInv, CallersCancel, WorkerCancels, Submitting, Cancelling, Ready
  <2>4. QED
        BY <2>2, <2>3, ServiceInvInit DEF CalleeInv
<1>2. WindowInit => WindowInv
  <2> SUFFICES ASSUME WindowInit
               PROVE  WindowInv
      OBVIOUS
  <2>1. WindowTypes
        BY DEF WindowInit, WindowTypes, Stages
  <2>2. OneAtATime
    <3>1. caller[ui] = Ready
          BY WindowAssumption DEF WindowInit, Init
    <3>2. QED
          BY <3>1 DEF WindowInit, OneAtATime, Submitting, Cancelling, Ready
  <2>3. OnlyActivePending /\ OnlyOpened /\ DisplayFollowsConnection /\ NoBystander
        BY DEF WindowInit, Init, OnlyActivePending, OnlyOpened, DisplayFollowsConnection, NoBystander
  <2>4. QED
        BY <2>1, <2>2, <2>3 DEF WindowInv
<1>3. CalleeInv /\ WindowInv /\ [WindowNext]_allVars => CalleeInv'
      BY CalleeInvInductive, WindowStepIsServiceStep DEF WindowInv
<1>4. QED
      BY <1>1, <1>2, <1>3, WindowInvInductive, PTL DEF WindowSpec

-----------------------------------------------------------------------------
(***************************************************************************)
(* The variables of the window always have their types, and the window is  *)
(* always on a connection it has opened or on none.                        *)
(***************************************************************************)
THEOREM WindowTyped == WindowSpec => []WindowTypeOK
<1>1. CalleeInv /\ WindowInv => WindowTypeOK
      BY DEF CalleeInv, ServiceInv, WindowInv, WindowTypes, WindowTypeOK
<1>2. QED
      BY <1>1, WindowInvariant, PTL

(***************************************************************************)
(* However often the user reconnects while queries run, the grid and the   *)
(* active query are of the connection in use, and of its last submit: an   *)
(* answer of an old connection never reaches the screen.                   *)
(***************************************************************************)
THEOREM DisplayIsOfConnection == WindowSpec => []DisplayFollowsConnection
<1>1. WindowInv => DisplayFollowsConnection
      BY DEF WindowInv
<1>2. QED
      BY <1>1, WindowInvariant, PTL

(***************************************************************************)
(* A page of rows is never fetched from a connection whose mutex the       *)
(* worker holds: while a cursor is shown no query is active, and the only  *)
(* query that may run on the connection in use is the active one.          *)
(***************************************************************************)
THEOREM ScrollingNeverWaits == WindowSpec => []GridFetchNeverWaits
<1>1. CalleeInv /\ WindowInv => GridFetchNeverWaits
  <2> SUFFICES ASSUME CalleeInv, WindowInv, grid # 0, Locked(dbOf[grid])
               PROVE  FALSE
      BY DEF GridFetchNeverWaits
  <2>1. active = 0 /\ dbOf[grid] = database
        BY DEF WindowInv, OneAtATime, DisplayFollowsConnection
  <2>2. cur \in Ids /\ outcome[cur] = "pending" /\ dbOf[cur] = database
        BY <2>1 DEF Locked, CalleeInv, ServiceInv, TypeOK, WorkerInv, QueueInv
  <2>3. cur = active
        BY <2>2 DEF WindowInv, OnlyActivePending
  <2>4. QED
        BY <2>1, <2>2, <2>3, Known
<1>2. QED
      BY <1>1, WindowInvariant, PTL

(***************************************************************************)
(* cancel_running_query interrupts whatever runs on a connection, yet from *)
(* this window it only ever hits a query that was asked to stop.           *)
(***************************************************************************)
THEOREM CancelHitsNoBystander == WindowSpec => []NoBystander
<1>1. WindowInv => NoBystander
      BY DEF WindowInv
<1>2. QED
      BY <1>1, WindowInvariant, PTL
-----------------------------------------------------------------------------
(***************************************************************************)
(* Every behaviour of the window is one of the service, so that all that   *)
(* is proved of the service for any callers holds of it under the window:  *)
(* the registry, the bound on a cancelled script, the answers at shutdown  *)
(* and the refinement of QueryLedger.                                      *)
(***************************************************************************)
THEOREM WindowUsesTheService == WindowSpec => Spec
<1>1. WindowInit => Init
      BY DEF WindowInit
<1>2. WindowInv /\ [WindowNext]_allVars => [Next]_vars
      BY WindowStepIsServiceStep DEF WindowInv
<1>3. QED
      BY <1>1, <1>2, WindowInvariant, PTL DEF WindowSpec, Spec

-----------------------------------------------------------------------------
\* A query is reported as cancelled only if it was itself asked to stop.
CancelledWereAsked == \A q \in Ids : outcome[q] = "cancelled" => q \in stopReq

CancelledInv == CancelledWereAsked /\ (result = "cancelled" => cur \in stopReq)

LEMMA NextKeepsCancelled ==
  CalleeInv /\ WindowInv /\ CancelledInv /\ [Next]_vars => CancelledInv'
<1> SUFFICES ASSUME CalleeInv, WindowInv, CancelledInv, [Next]_vars
             PROVE  CancelledInv'
    OBVIOUS
<1> USE DEF CancelledInv, CancelledWereAsked, front, execution
<1>t. /\ outcome \in [Ids -> Answers \cup {"none", "pending"}]
      /\ cur # 0 => cur \in Ids
      BY DEF CalleeInv, ServiceInv, TypeOK
<1>r. result = "cancelled" => wpc \in {"publish", "retire"}
      BY DEF CalleeInv, CancelInv, WorkerCancels
<1>same. ASSUME UNCHANGED <<outcome, cur, result>>, stopReq \subseteq stopReq'
      PROVE  CancelledInv'
      BY <1>same
<1>quiet. ASSUME UNCHANGED <<outcome, stopReq>>, result' = "cancelled" => cur' \in stopReq
      PROVE  CancelledInv'
      BY <1>quiet
<1>1. ASSUME NEW c \in Callers, CallBegin(c) \/ SubmitRegister(c) \/ CancelRequestStop(c)
                               \/ CancelRunCallbacks(c) \/ CancelReadHandle(c) \/ CancelInterrupt(c)
      PROVE  CancelledInv'
  <2>1. UNCHANGED <<outcome, cur, result>> /\ stopReq \subseteq stopReq'
        BY <1>1 DEF CallBegin, SubmitTakeId, CancelRefused, CancelFound, SubmitRegister,
           CancelRequestStop, CancelRunCallbacks, CancelReadHandle, CancelInterrupt, vars
  <2>2. QED
        BY <1>same, <2>1
<1>2. ASSUME NEW c \in Callers, SubmitPush(c)
      PROVE  CancelledInv'
  <2>1. UNCHANGED <<stopReq, cur, result>> /\ outcome' = [outcome EXCEPT ![caller[c].id] = "pending"]
        BY <1>2 DEF SubmitPush
  <2>2. \A q \in Ids : outcome'[q] = "cancelled" => outcome[q] = "cancelled"
        BY <1>t, <2>1
  <2>3. QED
        BY <2>1, <2>2
<1>3. CASE WorkerPop
  <2>1. result' = result /\ result # "cancelled" /\ UNCHANGED <<outcome, stopReq>>
        BY <1>3, <1>r DEF WorkerPop, WorkerAt
  <2>2. QED
        BY <1>quiet, <2>1
<1>4. CASE \/ WorkerExit \/ WorkerAnnounce \/ WorkerExecute \/ ExecuteLock
           \/ \E m \in {"command", "query", "explain"} : ExecuteBeginStatement(m)
      BY <1>4, <1>same DEF WorkerExit, WorkerAnnounce, WorkerExecute, ExecuteLock, ExecuteBeginStatement
<1>5. CASE WorkerSkipCancelled \/ ExecuteRejectsExplain \/ ExecuteFail \/ ExecuteScriptDone
      BY <1>5, <1>quiet DEF WorkerSkipCancelled, ExecuteRejectsExplain, ExecuteFail, ExecuteScriptDone
<1>6. CASE EngineStep
  <2>1. PICK rc \in {"done", "failed", "interrupted"} : EndStatement(rc) /\ (rc = "interrupted" => hit)
        BY <1>6 DEF EngineStep, ExecuteEndStatement, ExecuteEndInterrupted
  <2>2. ReportsCancelled(rc) => cur \in stopReq
        BY <2>1 DEF ReportsCancelled, SqliteReportsCancelled, PostgresReportsCancelled,
           WindowInv, NoBystander
  <2>3. UNCHANGED <<outcome, stopReq, cur>>
        BY <2>1 DEF EndStatement
  <2>4. result' = result \/ (result' = "cancelled" => ReportsCancelled(rc))
        BY <2>1 DEF EndStatement
  <2>5. QED
        BY <1>quiet, <2>2, <2>3, <2>4
<1>7. CASE WorkerPublish
  <2>1. UNCHANGED <<stopReq, cur, result>> /\ outcome' = [outcome EXCEPT ![cur] = result]
        BY <1>7 DEF WorkerPublish
  <2>2. \A q \in Ids : outcome'[q] = outcome[q] \/ (q = cur /\ outcome'[q] = result)
        BY <1>t, <2>1
  <2>3. QED
        BY <2>1, <2>2
<1>8. CASE WorkerRetire
  <2>1. UNCHANGED <<outcome, stopReq>> /\ result' = "none"
        BY <1>8 DEF WorkerRetire
  <2>2. QED
        BY <1>quiet, <2>1
<1>9. CASE Teardown \/ UNCHANGED vars
      BY <1>9, <1>same DEF Teardown, DestroyRequestStop, DestroyMembers, DestroyJoin, Gone, vars
<1>10. QED
      BY <1>1, <1>2, <1>3, <1>4, <1>5, <1>6, <1>7, <1>8, <1>9
      DEF Next, Operate, CallStep, WorkerStep, ExecuteNext

(***************************************************************************)
(* QueryLedger allows "cancelled" whenever a query of the same connection  *)
(* was cancelled.  From this window it is the answer of a query only when  *)
(* that query was: an interrupt hits no other.                             *)
(***************************************************************************)
THEOREM OnlyTheCancelledAreCancelled == WindowSpec => []CancelledWereAsked
<1>1. WindowInit => CancelledInv
      BY DEF WindowInit, Init, CancelledInv, CancelledWereAsked
<1>2. CalleeInv /\ WindowInv /\ CancelledInv /\ [WindowNext]_allVars => CancelledInv'
      BY NextKeepsCancelled, WindowStepIsServiceStep DEF WindowInv
<1>3. CancelledInv => CancelledWereAsked
      BY DEF CancelledInv
<1>4. QED
      BY <1>1, <1>2, <1>3, WindowInvariant, PTL DEF WindowSpec
=============================================================================
