-------------------- MODULE QueryExecutionService_proofs --------------------
(***************************************************************************)
(* Proofs about QueryExecutionService, for any callers, connections,       *)
(* number of queries and length of scripts: types, the registry, the bound *)
(* on what runs after a cancel, the answers at shutdown, and the           *)
(* refinement of QueryLedger.                                              *)
(***************************************************************************)
EXTENDS QueryExecutionService, TLAPS

Submitting(c) == caller[c].op \in {"register", "push"}

\* A caller outside a call has no id; one that is submitting has a fresh one.
CallsInv ==
  /\ \A c \in Callers : caller[c].op = "ready" <=> caller[c].id = 0
  /\ \A c \in Callers : Submitting(c) => /\ caller[c].id < nextId
                                         /\ outcome[caller[c].id] = "none"
  /\ \A c \in Callers : caller[c].op = "push" => caller[c].id \in tasks
  /\ \A c, d \in Callers : (c # d /\ Submitting(c) /\ Submitting(d))
                              => caller[c].id # caller[d].id

\* Ids not given out yet have no outcome, queued ids have one.
IdsInv == /\ \A q \in Ids : q >= nextId => outcome[q] = "none"
          /\ \A i \in 1..Len(queue) : outcome[queue[i]] # "none"

\* What the worker holds, and how far it is with it.
WorkerInv == /\ wpc \in {"wait", "exited"} <=> cur = 0
             /\ cur # 0 => outcome[cur] # "none"
             /\ wpc = "publish" => result \in Answers
             /\ wpc = "retire" => outcome[cur] # "pending"

(***************************************************************************)
(* RegistryCoversInFlight is not inductive alone: submit registers an id   *)
(* that has no outcome yet, and retire erases one; the two must not meet,  *)
(* because the id retired has an outcome and the id submitted has none.    *)
(***************************************************************************)
ServiceInv == TypeOK /\ CallsInv /\ IdsInv /\ WorkerInv /\ RegistryCoversInFlight

LEMMA ServiceInvInit == Init => ServiceInv
<1> SUFFICES ASSUME Init
             PROVE  ServiceInv
    OBVIOUS
<1>1. <<>> \in Seq(Ids) /\ Len(<<>>) = 0 /\ 1..0 = {} /\ 1 \in 1..(MaxQueries + 1)
      BY ServiceAssumption
<1>2. TypeOK
  <2>1. Ready \in [op : CallerPlaces, id : Ids \cup {0}]
        BY DEF Ready, CallerPlaces
  <2>2. caller \in [Callers -> [op : CallerPlaces, id : Ids \cup {0}]]
        BY <2>1 DEF Init
  <2>3. overrun \in 0..begun /\ begun \in Nat
        BY DEF Init
  <2>4. /\ dbOf \in [Ids -> Databases \cup {NoDatabase}]
        /\ outcome \in [Ids -> Answers \cup {"none", "pending"}]
        BY DEF Init
  <2>5. queue \in Seq(Ids) /\ nextId \in 1..(MaxQueries + 1)
        BY <1>1 DEF Init, FirstId
  <2>6. QED
        BY <2>2, <2>3, <2>4, <2>5 DEF Init, TypeOK, WorkerPlaces, Lives
<1>3. CallsInv
  <2>1. \A c \in Callers : caller[c].op = "ready" /\ caller[c].id = 0
        BY DEF Init, Ready
  <2>2. QED
        BY <2>1 DEF CallsInv, Submitting
<1>4. IdsInv /\ WorkerInv /\ RegistryCoversInFlight
      BY <1>1 DEF Init, FirstId, IdsInv, WorkerInv, RegistryCoversInFlight
<1>5. QED
      BY <1>2, <1>3, <1>4 DEF ServiceInv

LEMMA CallStepsKeepInv ==
  ASSUME ServiceInv, NEW c \in Callers, CallBegin(c) \/ CallStep(c)
  PROVE  ServiceInv'
<1> USE ServiceAssumption DEF ServiceInv, At, Goto, Return, Ready, front, execution
<1>1. ASSUME NEW d \in Databases, SubmitTakeId(c, d)
      PROVE  ServiceInv'
  <2>1. nextId \in Ids
        BY <1>1 DEF SubmitTakeId, TypeOK, Ids
  <2>2. TypeOK'
        BY <1>1, <2>1 DEF SubmitTakeId, TypeOK, CallerPlaces, Ids
  <2>3. CallsInv'
        BY <1>1, <2>1 DEF SubmitTakeId, TypeOK, CallsInv, Submitting, IdsInv, Ids
  <2>4. IdsInv' /\ WorkerInv' /\ RegistryCoversInFlight'
        BY <1>1, <2>1 DEF SubmitTakeId, TypeOK, IdsInv, WorkerInv, RegistryCoversInFlight, Ids
  <2>5. QED
        BY <2>2, <2>3, <2>4
<1>2. CASE SubmitRegister(c)
  <2>1. caller[c].id \in Ids
        BY <1>2 DEF SubmitRegister, TypeOK, CallsInv
  <2>2. TypeOK'
        BY <1>2, <2>1 DEF SubmitRegister, TypeOK, CallerPlaces
  <2>3. CallsInv'
        BY <1>2, <2>1 DEF SubmitRegister, TypeOK, CallsInv, Submitting
  <2>4. IdsInv' /\ WorkerInv' /\ RegistryCoversInFlight'
        BY <1>2 DEF SubmitRegister, IdsInv, WorkerInv, RegistryCoversInFlight
  <2>5. QED
        BY <2>2, <2>3, <2>4
<1>3. CASE SubmitPush(c)
  <2>1. caller[c].id \in Ids
        BY <1>3 DEF SubmitPush, TypeOK, CallsInv
  <2>2. /\ queue' \in Seq(Ids)
        /\ Len(queue') = Len(queue) + 1
        /\ \A i \in 1..Len(queue) : queue'[i] = queue[i]
        /\ queue'[Len(queue) + 1] = caller[c].id
        /\ Len(queue) \in Nat
        BY <1>3, <2>1 DEF SubmitPush, TypeOK
  <2>3. TypeOK'
        BY <1>3, <2>1, <2>2 DEF SubmitPush, TypeOK, CallerPlaces
  <2>4. CallsInv'
        BY <1>3, <2>1 DEF SubmitPush, TypeOK, CallsInv, Submitting
  <2>5. IdsInv'
    <3>1. \A q \in Ids : q >= nextId' => outcome'[q] = "none"
          BY <1>3, <2>1 DEF SubmitPush, TypeOK, CallsInv, Submitting, IdsInv, Ids
    <3>2. \A i \in 1..Len(queue') : outcome'[queue'[i]] # "none"
      <4> TAKE i \in 1..Len(queue')
      <4>1. CASE i = Len(queue) + 1
            BY <1>3, <2>1, <2>2, <4>1 DEF SubmitPush, TypeOK
      <4>2. CASE i # Len(queue) + 1
        <5>1. i \in 1..Len(queue)
              BY <2>2, <4>2
        <5>2. outcome[queue[i]] # "none" /\ queue[i] \in Ids /\ queue'[i] = queue[i]
              BY <2>2, <5>1 DEF IdsInv, TypeOK
        <5>3. QED
              BY <1>3, <2>1, <5>2 DEF SubmitPush, TypeOK
      <4>3. QED
            BY <4>1, <4>2
    <3>3. QED
          BY <3>1, <3>2 DEF IdsInv
  <2>6. WorkerInv'
        BY <1>3, <2>1 DEF SubmitPush, TypeOK, WorkerInv, CallsInv, Submitting, Answers
  <2>7. RegistryCoversInFlight'
        BY <1>3, <2>1 DEF SubmitPush, TypeOK, CallsInv, RegistryCoversInFlight
  <2>8. QED
        BY <2>3, <2>4, <2>5, <2>6, <2>7
<1>4. ASSUME NEW q \in Ids, CancelRefused(c, q)
      PROVE  ServiceInv'
      BY <1>4 DEF CancelRefused, vars, TypeOK, CallsInv, Submitting, IdsInv, WorkerInv,
                  RegistryCoversInFlight
<1>5. ASSUME NEW q \in Ids, CancelFound(c, q)
      PROVE  ServiceInv'
  <2>1. TypeOK'
        BY <1>5 DEF CancelFound, TypeOK, CallerPlaces
  <2>2. CallsInv'
        BY <1>5 DEF CancelFound, TypeOK, CallsInv, Submitting, Ids
  <2>3. IdsInv' /\ WorkerInv' /\ RegistryCoversInFlight'
        BY <1>5 DEF CancelFound, IdsInv, WorkerInv, RegistryCoversInFlight
  <2>4. QED
        BY <2>1, <2>2, <2>3
<1>6. CASE \/ CancelRequestStop(c) \/ CancelRunCallbacks(c)
           \/ CancelReadHandle(c) \/ CancelInterrupt(c)
  <2> DEFINE Frame == UNCHANGED <<nextId, queue, tasks, running, dbOf, outcome, wpc, cur, result>>
             Moves(op) == caller' = [caller EXCEPT ![c].op = op]
             Types == stopReq' \subseteq Ids /\ hit' \in BOOLEAN /\ armed' \in BOOLEAN
                        /\ UNCHANGED <<mode, begun, overrun, life>>
  <2>1. caller[c].id \in Ids /\ caller[c].op \notin {"ready", "register", "push"}
        BY <1>6 DEF TypeOK, CallsInv, CancelRequestStop, CancelRunCallbacks,
                    CancelReadHandle, CancelInterrupt
  <2>2. Frame /\ Types
        BY <1>6, <2>1 DEF TypeOK, CancelRequestStop, CancelRunCallbacks,
                          CancelReadHandle, CancelInterrupt
  <2>3. Moves("callbacks") \/ Moves("lock") \/ Moves("interrupt") \/ Return(c)
        BY <1>6 DEF CancelRequestStop, CancelRunCallbacks, CancelReadHandle, CancelInterrupt
  <2>4. caller' \in [Callers -> [op : CallerPlaces, id : Ids \cup {0}]]
        BY <2>3 DEF TypeOK, CallerPlaces
  <2>5. /\ \A d \in Callers : d # c => caller'[d] = caller[d]
        /\ caller'[c].op \notin {"register", "push"}
        /\ caller'[c].op = "ready" <=> caller'[c].id = 0
        BY <2>1, <2>3 DEF TypeOK, Ids
  <2>6. TypeOK'
        BY <2>2, <2>4 DEF TypeOK
  <2>7. CallsInv'
        BY <2>2, <2>5 DEF CallsInv, Submitting
  <2>8. IdsInv' /\ WorkerInv' /\ RegistryCoversInFlight'
        BY <2>2 DEF IdsInv, WorkerInv, RegistryCoversInFlight
  <2>9. QED
        BY <2>6, <2>7, <2>8
<1>7. QED
      BY <1>1, <1>2, <1>3, <1>4, <1>5, <1>6 DEF CallBegin, CallStep

LEMMA WorkerStepsKeepInv ==
  ASSUME ServiceInv, WorkerStep
  PROVE  ServiceInv'
<1> USE DEF ServiceInv, WorkerAt, front, execution
<1>frame. ASSUME UNCHANGED <<nextId, tasks, outcome, caller>>
          PROVE  CallsInv'
          BY <1>frame DEF CallsInv, Submitting
<1>1. CASE WorkerPop
  <2>1. /\ Head(queue) \in Ids
        /\ Head(queue) = queue[1]
        /\ queue' \in Seq(Ids)
        /\ Len(queue) \in Nat \ {0}
        /\ Len(queue') = Len(queue) - 1
        /\ \A i \in 1..Len(queue') : queue'[i] = queue[i + 1]
        BY <1>1 DEF WorkerPop, TypeOK
  <2>2. TypeOK'
        BY <1>1, <2>1 DEF WorkerPop, TypeOK, WorkerPlaces
  <2>3. CallsInv'
        BY <1>1, <1>frame DEF WorkerPop
  <2>4. IdsInv'
    <3>1. \A q \in Ids : q >= nextId' => outcome'[q] = "none"
          BY <1>1 DEF WorkerPop, IdsInv
    <3>2. ASSUME NEW i \in 1..Len(queue')
          PROVE  outcome'[queue'[i]] # "none"
      <4>1. i + 1 \in 1..Len(queue)
            BY <2>1
      <4>2. QED
            BY <1>1, <2>1, <4>1 DEF WorkerPop, IdsInv
    <3>3. QED
          BY <3>1, <3>2 DEF IdsInv
  <2>5. WorkerInv'
    <3>1. outcome[Head(queue)] # "none" /\ Head(queue) # 0
          BY <2>1 DEF IdsInv, Ids
    <3>2. QED
          BY <1>1, <3>1 DEF WorkerPop, WorkerInv
  <2>6. RegistryCoversInFlight'
        BY <1>1 DEF WorkerPop, RegistryCoversInFlight
  <2>7. QED
        BY <2>2, <2>3, <2>4, <2>5, <2>6
<1>2. CASE WorkerExit \/ WorkerAnnounce
  <2>1. TypeOK'
        BY <1>2 DEF WorkerExit, WorkerAnnounce, LeavesQuietly, UseDestroyedMembers,
                    TypeOK, WorkerPlaces, Lives
  <2>2. CallsInv'
        BY <1>2, <1>frame DEF WorkerExit, WorkerAnnounce
  <2>3. IdsInv' /\ WorkerInv' /\ RegistryCoversInFlight'
        BY <1>2 DEF WorkerExit, WorkerAnnounce, IdsInv, WorkerInv, RegistryCoversInFlight
  <2>4. QED
        BY <2>1, <2>2, <2>3
<1>3. CASE WorkerSkipCancelled \/ WorkerExecute \/ ExecuteRejectsExplain \/ ExecuteLock
  <2>1. TypeOK'
        BY <1>3 DEF WorkerSkipCancelled, WorkerExecute, ExecuteRejectsExplain, ExecuteLock,
                    TypeOK, WorkerPlaces, Answers
  <2>2. CallsInv'
        BY <1>3, <1>frame DEF WorkerSkipCancelled, WorkerExecute, ExecuteRejectsExplain, ExecuteLock
  <2>3. IdsInv' /\ WorkerInv' /\ RegistryCoversInFlight'
        BY <1>3 DEF WorkerSkipCancelled, WorkerExecute, ExecuteRejectsExplain, ExecuteLock,
                    IdsInv, WorkerInv, RegistryCoversInFlight, Answers
  <2>4. QED
        BY <2>1, <2>2, <2>3
<1>4. ASSUME NEW m \in {"command", "query", "explain"}, ExecuteBeginStatement(m)
      PROVE  ServiceInv'
  <2>1. begun' \in Nat /\ overrun' \in 0..begun' /\ armed' \in BOOLEAN /\ hit' \in BOOLEAN
        BY <1>4 DEF ExecuteBeginStatement, HitFromStart, TypeOK
  <2>2. TypeOK'
        BY <1>4, <2>1 DEF ExecuteBeginStatement, TypeOK, WorkerPlaces
  <2>3. CallsInv'
        BY <1>4, <1>frame DEF ExecuteBeginStatement
  <2>4. IdsInv' /\ WorkerInv' /\ RegistryCoversInFlight'
        BY <1>4 DEF ExecuteBeginStatement, IdsInv, WorkerInv, RegistryCoversInFlight
  <2>5. QED
        BY <2>2, <2>3, <2>4
<1>5. CASE ExecuteFail \/ ExecuteScriptDone
  <2>1. TypeOK'
        BY <1>5 DEF ExecuteFail, ExecuteScriptDone, TypeOK, WorkerPlaces, Answers
  <2>2. CallsInv'
        BY <1>5, <1>frame DEF ExecuteFail, ExecuteScriptDone
  <2>3. IdsInv' /\ WorkerInv' /\ RegistryCoversInFlight'
        BY <1>5 DEF ExecuteFail, ExecuteScriptDone, IdsInv, WorkerInv,
                    RegistryCoversInFlight, Answers
  <2>4. QED
        BY <2>1, <2>2, <2>3
<1>6. CASE WorkerPublish
  <2>1. cur \in Ids /\ result \in Answers
        BY <1>6 DEF WorkerPublish, WorkerInv, TypeOK
  <2>2. TypeOK'
        BY <1>6, <2>1 DEF WorkerPublish, TypeOK, WorkerPlaces
  <2>3. CallsInv'
        BY <1>6, <2>1 DEF WorkerPublish, WorkerInv, TypeOK, CallsInv, Submitting
  <2>4. IdsInv'
        BY <1>6, <2>1 DEF WorkerPublish, TypeOK, IdsInv, WorkerInv, Answers
  <2>5. WorkerInv' /\ RegistryCoversInFlight'
        BY <1>6, <2>1 DEF WorkerPublish, TypeOK, WorkerInv, RegistryCoversInFlight, Answers
  <2>6. QED
        BY <2>2, <2>3, <2>4, <2>5
<1>7. CASE WorkerRetire
  <2>1. cur \in Ids /\ outcome[cur] \notin {"none", "pending"}
        BY <1>7 DEF WorkerRetire, WorkerInv, TypeOK
  <2>2. TypeOK'
        BY <1>7 DEF WorkerRetire, AfterRetire, UseDestroyedMembers, TypeOK, WorkerPlaces, Lives
  <2>3. CallsInv'
        BY <1>7, <2>1 DEF WorkerRetire, TypeOK, CallsInv, Submitting
  <2>4. IdsInv' /\ WorkerInv'
        BY <1>7 DEF WorkerRetire, AfterRetire, IdsInv, WorkerInv
  <2>5. RegistryCoversInFlight'
        BY <1>7, <2>1 DEF WorkerRetire, RegistryCoversInFlight
  <2>6. QED
        BY <2>2, <2>3, <2>4, <2>5
<1>8. QED
      BY <1>1, <1>2, <1>3, <1>4, <1>5, <1>6, <1>7 DEF WorkerStep, ExecuteNext

LEMMA EngineAndTeardownKeepInv ==
  ASSUME ServiceInv, EngineStep \/ Teardown \/ UNCHANGED vars
  PROVE  ServiceInv'
<1> USE DEF ServiceInv, WorkerAt, front, execution
<1>1. ASSUME NEW rc \in {"done", "failed", "interrupted"}, EndStatement(rc)
      PROVE  ServiceInv'
  <2>1. TypeOK'
        BY <1>1 DEF EndStatement, TypeOK, WorkerPlaces, Answers
  <2>2. CallsInv'
        BY <1>1 DEF EndStatement, CallsInv, Submitting
  <2>3. WorkerInv'
        BY <1>1 DEF EndStatement, WorkerInv, Answers
  <2>4. IdsInv' /\ RegistryCoversInFlight'
        BY <1>1 DEF EndStatement, IdsInv, RegistryCoversInFlight
  <2>5. QED
        BY <2>1, <2>2, <2>3, <2>4
<1>2. CASE DestroyRequestStop \/ DestroyMembers \/ DestroyJoin
  <2>1. TypeOK'
        BY <1>2 DEF DestroyRequestStop, DestroyMembers, DestroyJoin, TypeOK, Lives
  <2>2. CallsInv' /\ IdsInv' /\ WorkerInv' /\ RegistryCoversInFlight'
        BY <1>2 DEF DestroyRequestStop, DestroyMembers, DestroyJoin, CallsInv, Submitting,
                    IdsInv, WorkerInv, RegistryCoversInFlight
  <2>3. QED
        BY <2>1, <2>2
<1>3. CASE UNCHANGED vars
      BY <1>3 DEF vars, TypeOK, CallsInv, Submitting, IdsInv, WorkerInv, RegistryCoversInFlight
<1>4. QED
      BY <1>1, <1>2, <1>3
      DEF EngineStep, ExecuteEndStatement, ExecuteEndInterrupted, Teardown, Gone

LEMMA ServiceInvInductive == ServiceInv /\ [Next]_vars => ServiceInv'
  BY CallStepsKeepInv, WorkerStepsKeepInv, EngineAndTeardownKeepInv DEF Next, Operate

LEMMA ServiceInvariant == Spec => []ServiceInv
  BY ServiceInvInit, ServiceInvInductive, PTL DEF Spec

(***************************************************************************)
(* The variables of the service always have their types.                   *)
(***************************************************************************)
THEOREM ServiceTyped == Spec => []TypeOK
<1>1. ServiceInv => TypeOK
      BY DEF ServiceInv
<1>2. QED
      BY <1>1, ServiceInvariant, PTL

(***************************************************************************)
(* For any callers, connections and number of queries, every query that    *)
(* waits for its answer is registered: cancel cannot answer false for it.  *)
(***************************************************************************)
THEOREM CancelFindsInFlight == Spec => []RegistryCoversInFlight
<1>1. ServiceInv => RegistryCoversInFlight
      BY DEF ServiceInv
<1>2. QED
      BY <1>1, ServiceInvariant, PTL

-----------------------------------------------------------------------------
(***************************************************************************)
(* Why a cancelled script stops: a statement begun after the stop leaves   *)
(* "step" only towards "publish", because the check that follows it sees   *)
(* the stop; so between two statements of a SQLite script the history      *)
(* counter is still 0, and PostgreSQL never begins a third statement.      *)
(***************************************************************************)
ScriptInv ==
  /\ CancelStopsScript
  /\ wpc \in {"wait", "exited", "announce", "check", "lock"} => begun = 0
  /\ overrun > 0 => cur \in stopReq
  /\ (cur # 0 /\ IsSqlite(cur) /\ wpc = "next") => overrun = 0
  /\ (cur # 0 /\ ~IsSqlite(cur)) => begun <= 2 /\ (wpc = "next" => begun <= 1)

LEMMA ScriptInvInductive == ServiceInv /\ ScriptInv /\ [Next]_vars => ScriptInv'
<1> SUFFICES ASSUME ServiceInv, ScriptInv, [Next]_vars
             PROVE  ScriptInv'
    OBVIOUS
<1> USE DEF WorkerAt, front, execution
<1>t. /\ cur \in Ids \cup {0} /\ begun \in Nat /\ overrun \in 0..begun
      /\ wpc \in {"wait", "exited"} <=> cur = 0
      BY DEF ServiceInv, TypeOK, WorkerInv
\* The database of the query in hand does not change.
<1>db. ASSUME cur # 0, NEW c \in Callers, NEW d \in Databases, SubmitTakeId(c, d)
       PROVE  IsSqlite(cur)' <=> IsSqlite(cur)
  <2>1. nextId \in Ids /\ cur \in Ids /\ cur # nextId
        BY <1>db, <1>t DEF SubmitTakeId, ServiceInv, TypeOK, WorkerInv, IdsInv, Ids
  <2>2. dbOf'[cur] = dbOf[cur]
        BY <1>db, <2>1 DEF SubmitTakeId, ServiceInv, TypeOK
  <2>3. QED
        BY <1>db, <2>2 DEF SubmitTakeId, IsSqlite
<1>same. ASSUME UNCHANGED <<wpc, cur, begun, overrun, result, dbOf>>, stopReq \subseteq stopReq'
         PROVE  ScriptInv'
         BY <1>same DEF ScriptInv, CancelStopsScript, IsSqlite
<1>1. ASSUME NEW c \in Callers, NEW d \in Databases, SubmitTakeId(c, d)
      PROVE  ScriptInv'
  <2>1. UNCHANGED <<wpc, cur, begun, overrun, result, stopReq>>
        BY <1>1 DEF SubmitTakeId
  <2>2. CASE cur = 0
        BY <1>t, <2>1, <2>2 DEF ScriptInv, CancelStopsScript
  <2>3. CASE cur # 0
        BY <1>1, <1>db, <2>1, <2>3 DEF ScriptInv, CancelStopsScript
  <2>4. QED
        BY <2>2, <2>3
<1>2. ASSUME NEW c \in Callers, CallStep(c) \/ \E q \in Ids : CancelRefused(c, q) \/ CancelFound(c, q)
      PROVE  ScriptInv'
      BY <1>2, <1>same DEF CallStep, SubmitRegister, SubmitPush, CancelRequestStop,
         CancelRunCallbacks, CancelReadHandle, CancelInterrupt, CancelRefused, CancelFound, vars
<1>3. CASE WorkerPop \/ WorkerExit \/ WorkerAnnounce \/ WorkerExecute \/ ExecuteLock
  <2>1. begun = 0 /\ overrun = 0 /\ UNCHANGED <<begun, overrun>>
        BY <1>3, <1>t DEF WorkerPop, WorkerExit, WorkerAnnounce, WorkerExecute, ExecuteLock, ScriptInv
  <2>2. wpc' # "publish"
        BY <1>3 DEF WorkerPop, WorkerExit, WorkerAnnounce, WorkerExecute, ExecuteLock
  <2>3. QED
        BY <2>1, <2>2 DEF ScriptInv, CancelStopsScript
<1>4. CASE WorkerSkipCancelled \/ ExecuteRejectsExplain
  <2>1. begun = 0 /\ overrun = 0 /\ UNCHANGED <<begun, overrun>>
        BY <1>4, <1>t DEF WorkerSkipCancelled, ExecuteRejectsExplain, ScriptInv
  <2>2. wpc' = "publish"
        BY <1>4 DEF WorkerSkipCancelled, ExecuteRejectsExplain
  <2>3. QED
        BY <2>1, <2>2 DEF ScriptInv, CancelStopsScript
<1>5. ASSUME NEW m \in {"command", "query", "explain"}, ExecuteBeginStatement(m)
      PROVE  ScriptInv'
  <2>1. /\ wpc = "next" /\ wpc' = "step" /\ cur # 0
        /\ UNCHANGED <<cur, dbOf, stopReq>>
        /\ begun' = begun + 1
        /\ overrun' = IF cur \in stopReq THEN overrun + 1 ELSE overrun
        BY <1>5, <1>t DEF ExecuteBeginStatement
  <2>2. IsSqlite(cur)' <=> IsSqlite(cur)
        BY <2>1 DEF IsSqlite
  <2>3. CASE IsSqlite(cur)
        BY <1>t, <2>1, <2>2, <2>3 DEF ScriptInv, CancelStopsScript
  <2>4. CASE ~IsSqlite(cur)
        BY <1>t, <2>1, <2>2, <2>4 DEF ScriptInv, CancelStopsScript
  <2>5. QED
        BY <2>3, <2>4
<1>6. CASE ExecuteFail \/ ExecuteScriptDone
  <2>1. /\ wpc = "next" /\ wpc' = "publish" /\ cur # 0
        /\ UNCHANGED <<cur, dbOf, stopReq, begun, overrun>>
        BY <1>6, <1>t DEF ExecuteFail, ExecuteScriptDone
  <2>2. IsSqlite(cur)' <=> IsSqlite(cur)
        BY <2>1 DEF IsSqlite
  <2>3. QED
        BY <2>1, <2>2 DEF ScriptInv, CancelStopsScript
<1>7. ASSUME NEW rc \in {"done", "failed", "interrupted"}, EndStatement(rc)
      PROVE  ScriptInv'
  <2>1. /\ wpc = "step" /\ cur # 0
        /\ UNCHANGED <<cur, dbOf, stopReq, begun, overrun, mode>>
        /\ \/ wpc' = "next" /\ ~ReportsCancelled(rc) /\ ~LastStatement
           \/ wpc' = "publish" /\ (ReportsCancelled(rc) => result' = "cancelled")
        BY <1>7, <1>t DEF EndStatement
  <2>2. IsSqlite(cur)' <=> IsSqlite(cur)
        BY <2>1 DEF IsSqlite
  <2>3. CASE IsSqlite(cur)
    <3>1. overrun > 0 => ReportsCancelled(rc)
          BY <2>3 DEF ScriptInv, ReportsCancelled, SqliteReportsCancelled
    <3>2. QED
          BY <1>t, <2>1, <2>2, <2>3, <3>1 DEF ScriptInv, CancelStopsScript
  <2>4. CASE ~IsSqlite(cur)
    <3>1. begun <= 2 /\ (wpc' = "next" => begun # 2)
          BY <2>1, <2>4 DEF ScriptInv, LastStatement
    <3>2. QED
          BY <1>t, <2>1, <2>2, <2>4, <3>1 DEF ScriptInv, CancelStopsScript
  <2>5. QED
        BY <2>3, <2>4
<1>8. CASE WorkerPublish
  <2>1. /\ wpc' = "retire"
        /\ UNCHANGED <<cur, dbOf, stopReq, begun, overrun>>
        BY <1>8 DEF WorkerPublish
  <2>2. IsSqlite(cur)' <=> IsSqlite(cur)
        BY <2>1 DEF IsSqlite
  <2>3. QED
        BY <2>1, <2>2 DEF ScriptInv, CancelStopsScript
<1>9. CASE WorkerRetire
  <2>1. begun' = 0 /\ overrun' = 0 /\ wpc' = "wait"
        BY <1>9 DEF WorkerRetire, AfterRetire
  <2>2. QED
        BY <2>1 DEF ScriptInv, CancelStopsScript
<1>10. CASE Teardown \/ UNCHANGED vars
       BY <1>10, <1>same DEF Teardown, DestroyRequestStop, DestroyMembers, DestroyJoin, Gone, vars
<1>11. QED
       BY <1>1, <1>2, <1>3, <1>4, <1>5, <1>6, <1>7, <1>8, <1>9, <1>10
       DEF Next, Operate, CallBegin, WorkerStep, ExecuteNext, EngineStep,
           ExecuteEndStatement, ExecuteEndInterrupted

(***************************************************************************)
(* For scripts of any length: after a stop was requested at most one more  *)
(* statement of a SQLite script begins (two on PostgreSQL), and a script   *)
(* that began one is reported cancelled.                                   *)
(***************************************************************************)
THEOREM CancelBoundsExecution == Spec => []CancelStopsScript
<1>1. Init => ScriptInv
      BY DEF Init, ScriptInv, CancelStopsScript
<1>2. ScriptInv => CancelStopsScript
      BY DEF ScriptInv
<1>3. QED
      BY <1>1, <1>2, ScriptInvInductive, ServiceInvariant, PTL DEF Spec

-----------------------------------------------------------------------------
(***************************************************************************)
(* Which queries wait for their answer: the queued ones, each queued once, *)
(* and the one in hand until it is published.                              *)
(***************************************************************************)
QueueInv ==
  /\ \A i \in 1..Len(queue) : outcome[queue[i]] = "pending" /\ queue[i] # cur
  /\ \A i, j \in 1..Len(queue) : queue[i] = queue[j] => i = j
  /\ cur # 0 /\ wpc # "retire" => outcome[cur] = "pending"
  /\ \A q \in Ids : outcome[q] = "pending" => q = cur \/ \E i \in 1..Len(queue) : queue[i] = q

LEMMA QueueInvInductive == ServiceInv /\ QueueInv /\ [Next]_vars => QueueInv'
<1> SUFFICES ASSUME ServiceInv, QueueInv, [Next]_vars
             PROVE  QueueInv'
    OBVIOUS
<1> USE DEF WorkerAt, At, front, execution
<1>0. 0 \notin Ids
      BY ServiceAssumption DEF Ids
<1>t. /\ queue \in Seq(Ids) /\ Len(queue) \in Nat /\ \A i \in 1..Len(queue) : queue[i] \in Ids
      /\ outcome \in [Ids -> Answers \cup {"none", "pending"}]
      /\ cur \in Ids \cup {0} /\ 0 \notin Ids
      BY <1>0 DEF ServiceInv, TypeOK
<1>same. ASSUME UNCHANGED <<queue, cur, outcome>>, wpc' = wpc \/ wpc # "retire"
         PROVE  QueueInv'
         BY <1>same DEF QueueInv
<1>1. ASSUME NEW c \in Callers, SubmitPush(c)
      PROVE  QueueInv'
  <2> DEFINE q == caller[c].id
             n == Len(queue) + 1
  <2>1. q \in Ids /\ outcome[q] = "none" /\ q # cur
        BY <1>1, <1>t DEF SubmitPush, ServiceInv, TypeOK, CallsInv, WorkerInv, Submitting
  <2>2. /\ Len(queue') = n
        /\ queue'[n] = q
        /\ \A i \in 1..Len(queue) : queue'[i] = queue[i]
        BY <1>1, <1>t, <2>1 DEF SubmitPush
  <2>3. /\ UNCHANGED <<cur, wpc>>
        /\ outcome'[q] = "pending"
        /\ \A p \in Ids : p # q => outcome'[p] = outcome[p]
        BY <1>1, <1>t, <2>1 DEF SubmitPush
  <2>4. \A i \in 1..n : i = n \/ i \in 1..Len(queue)
        BY <1>t
  <2>5. \A i \in 1..Len(queue) : queue[i] # q
        BY <2>1 DEF QueueInv
  <2>6. /\ \A i \in 1..n : outcome'[queue'[i]] = "pending" /\ queue'[i] # cur'
        /\ \A i, j \in 1..n : queue'[i] = queue'[j] => i = j
        BY <1>t, <2>1, <2>2, <2>3, <2>4, <2>5 DEF QueueInv
  <2>7. cur' # 0 /\ wpc' # "retire" => outcome'[cur'] = "pending"
        BY <1>t, <2>1, <2>3 DEF QueueInv
  <2>8. ASSUME NEW p \in Ids, outcome'[p] = "pending"
        PROVE  p = cur' \/ \E i \in 1..n : queue'[i] = p
    <3>1. CASE p = q
          BY <1>t, <2>2, <3>1
    <3>2. CASE p # q
          BY <1>t, <2>2, <2>3, <2>8, <3>2 DEF QueueInv
    <3>3. QED
          BY <3>1, <3>2
  <2>9. QED
        BY <2>2, <2>6, <2>7, <2>8 DEF QueueInv
<1>2. CASE WorkerPop
  <2>1. /\ cur = 0 /\ cur' = queue[1] /\ wpc' = "announce" /\ outcome' = outcome
        /\ Len(queue) > 0
        /\ Len(queue') = Len(queue) - 1
        /\ \A i \in 1..Len(queue') : queue'[i] = queue[i + 1] /\ i + 1 \in 1..Len(queue)
        BY <1>2, <1>t DEF WorkerPop, ServiceInv, WorkerInv
  <2>2. \A i \in 1..Len(queue) : i = 1 \/ (i - 1 \in 1..Len(queue') /\ queue'[i - 1] = queue[i])
    <3> TAKE i \in 1..Len(queue)
    <3>1. CASE i # 1
      <4>1. i - 1 \in 1..Len(queue') /\ (i - 1) + 1 = i
            BY <1>t, <2>1, <3>1
      <4>2. QED
            BY <2>1, <4>1
    <3>2. QED
          BY <3>1
  <2>3. /\ \A i \in 1..Len(queue') : outcome'[queue'[i]] = "pending" /\ queue'[i] # cur'
        /\ \A i, j \in 1..Len(queue') : queue'[i] = queue'[j] => i = j
        BY <1>t, <2>1 DEF QueueInv
  <2>4. outcome'[cur'] = "pending"
        BY <1>t, <2>1 DEF QueueInv
  <2>5. \A q \in Ids : outcome'[q] = "pending" => q = cur' \/ \E i \in 1..Len(queue') : queue'[i] = q
        BY <1>t, <2>1, <2>2 DEF QueueInv
  <2>6. QED
        BY <2>3, <2>4, <2>5 DEF QueueInv
<1>3. CASE WorkerPublish
  <2>1. /\ wpc' = "retire" /\ UNCHANGED <<queue, cur>> /\ cur \in Ids
        /\ \A q \in Ids : q # cur => outcome'[q] = outcome[q]
        /\ outcome'[cur] # "pending"
        BY <1>3, <1>t DEF WorkerPublish, ServiceInv, WorkerInv, Answers
  <2>2. QED
        BY <1>t, <2>1 DEF QueueInv
<1>4. CASE WorkerRetire
  <2>1. UNCHANGED <<queue, outcome>> /\ cur' = 0 /\ outcome[cur] # "pending"
        BY <1>4 DEF WorkerRetire, ServiceInv, WorkerInv
  <2>2. QED
        BY <1>t, <2>1 DEF QueueInv
<1>5. ASSUME NEW c \in Callers, CallBegin(c) \/ (CallStep(c) /\ ~SubmitPush(c))
      PROVE  QueueInv'
      BY <1>5, <1>same DEF CallBegin, CallStep, SubmitTakeId, SubmitRegister, CancelRefused,
         CancelFound, CancelRequestStop, CancelRunCallbacks, CancelReadHandle, CancelInterrupt, vars
<1>6. CASE \/ WorkerExit \/ WorkerAnnounce \/ WorkerSkipCancelled \/ WorkerExecute
           \/ ExecuteRejectsExplain \/ ExecuteLock \/ ExecuteNext
      BY <1>6, <1>same DEF WorkerExit, WorkerAnnounce, WorkerSkipCancelled, WorkerExecute,
         ExecuteRejectsExplain, ExecuteLock, ExecuteNext, ExecuteBeginStatement, ExecuteFail,
         ExecuteScriptDone
<1>7. CASE EngineStep \/ Teardown \/ UNCHANGED vars
      BY <1>7, <1>same DEF EngineStep, ExecuteEndStatement, ExecuteEndInterrupted, EndStatement,
         Teardown, DestroyRequestStop, DestroyMembers, DestroyJoin, Gone, vars
<1>8. QED
      BY <1>1, <1>2, <1>3, <1>4, <1>5, <1>6, <1>7 DEF Next, Operate, WorkerStep

\* Nobody is in a call once the destructor has begun; the worker leaves an empty queue.
EndInv ==
  /\ life # "alive" => \A c \in Callers : caller[c] = Ready
  /\ wpc = "exited" => queue = <<>> /\ life # "alive"
  /\ life = "joined" => wpc = "exited"

LEMMA EndInvInductive == EndInv /\ [Next]_vars => EndInv'
<1> SUFFICES ASSUME EndInv, [Next]_vars
             PROVE  EndInv'
    OBVIOUS
<1> USE DEF WorkerAt, At, front, execution
<1>1. ASSUME NEW c \in Callers, CallBegin(c) \/ CallStep(c)
      PROVE  EndInv'
  <2>1. /\ wpc' = wpc /\ life' = life
        /\ life = "alive" \/ UNCHANGED <<queue, caller>>
        BY <1>1 DEF CallBegin, CallStep, SubmitTakeId, SubmitRegister, SubmitPush, CancelRefused,
           CancelFound, CancelRequestStop, CancelRunCallbacks, CancelReadHandle, CancelInterrupt,
           vars
  <2>2. wpc = "exited" => life # "alive"
        BY DEF EndInv
  <2>3. QED
        BY <2>1, <2>2 DEF EndInv
<1>2. CASE WorkerExit
      BY <1>2 DEF WorkerExit, NothingLeft, StopSeen, LeavesQuietly, EndInv
<1>3. CASE WorkerStep /\ ~WorkerExit
  <2>1. /\ caller' = caller /\ wpc # "exited" /\ wpc' # "exited"
        /\ life' = life \/ UseDestroyedMembers
        BY <1>3 DEF WorkerStep, WorkerPop, WorkerAnnounce, WorkerSkipCancelled, WorkerExecute,
           ExecuteRejectsExplain, ExecuteLock, ExecuteNext, ExecuteBeginStatement, ExecuteFail,
           ExecuteScriptDone, WorkerPublish, WorkerRetire, AfterRetire
  <2>2. QED
        BY <2>1 DEF EndInv, UseDestroyedMembers
<1>4. CASE EngineStep
      BY <1>4 DEF EngineStep, ExecuteEndStatement, ExecuteEndInterrupted, EndStatement, EndInv
<1>5. CASE Teardown \/ UNCHANGED vars
      BY <1>5 DEF Teardown, DestroyRequestStop, DestroyMembers, DestroyJoin, Gone, vars, EndInv
<1>6. QED
      BY <1>1, <1>2, <1>3, <1>4, <1>5 DEF Next, Operate

LEMMA QueueAndEndInvariant == Spec => [](ServiceInv /\ QueueInv /\ EndInv)
<1>1. Init => QueueInv /\ EndInv
  <2> SUFFICES ASSUME Init
               PROVE  QueueInv /\ EndInv
      OBVIOUS
  <2>1. Len(queue) = 0 /\ 1..0 = {}
        BY DEF Init
  <2>2. QED
        BY <2>1 DEF Init, QueueInv, EndInv
<1>2. QED
      BY <1>1, QueueInvInductive, EndInvInductive, ServiceInvariant, PTL DEF Spec

(***************************************************************************)
(* However many queries are queued when the destructor begins, none is     *)
(* without an answer when it returns: the worker that was joined had found *)
(* its queue empty, nobody could queue any more, and it held nothing.      *)
(***************************************************************************)
THEOREM JoinedServiceAnswered == Spec => []ShutdownAnswersAll
<1>1. ServiceInv /\ QueueInv /\ EndInv => ShutdownAnswersAll
  <2> SUFFICES ASSUME ServiceInv, QueueInv, EndInv, life = "joined",
                      NEW q \in Ids
               PROVE  outcome[q] # "pending"
      BY DEF ShutdownAnswersAll
  <2>1. cur = 0 /\ queue = <<>> /\ 0 \notin Ids
        BY DEF EndInv, ServiceInv, WorkerInv, Ids
  <2>2. 1..Len(queue) = {}
        BY <2>1
  <2>3. QED
        BY <2>1, <2>2 DEF QueueInv
<1>2. QED
      BY <1>1, QueueAndEndInvariant, PTL

-----------------------------------------------------------------------------
(***************************************************************************)
(* Where an interruption comes from: cancel asks the query to stop before  *)
(* it goes for the connection, so whatever is hit there shares its         *)
(* connection with a query somebody cancelled.                             *)
(***************************************************************************)
Cancelling(c) == caller[c].op \in {"stop", "callbacks", "lock", "interrupt"}

CancelledBeside(q) == \E p \in stopReq : dbOf[p] = dbOf[q]

CallersCancel ==
  /\ \A c \in Callers : Submitting(c) => dbOf[caller[c].id] \in Databases
  /\ \A c \in Callers : Cancelling(c) => outcome[caller[c].id] # "none"
  /\ \A c \in Callers : Cancelling(c) /\ caller[c].op # "stop" => caller[c].id \in stopReq
  /\ \A q \in stopReq : outcome[q] # "none"

WorkerCancels ==
  /\ armed => wpc = "step"
  /\ hit => wpc = "step" /\ CancelledBeside(cur)
  /\ result = "cancelled" => wpc \in {"publish", "retire"} /\ CancelledBeside(cur)

CancelInv == CallersCancel /\ WorkerCancels

LEMMA CallStepsKeepCancel ==
  ASSUME ServiceInv, CancelInv, NEW c \in Callers, CallBegin(c) \/ CallStep(c)
  PROVE  CancelInv'
<1> USE DEF CancelInv, At, Goto, Return, Ready, front, execution
<1>0. 0 \notin Ids
      BY ServiceAssumption DEF Ids
<1>t. /\ caller \in [Callers -> [op : CallerPlaces, id : Ids \cup {0}]]
      /\ outcome \in [Ids -> Answers \cup {"none", "pending"}]
      /\ dbOf \in [Ids -> Databases \cup {NoDatabase}]
      /\ stopReq \subseteq Ids
      /\ \A d \in Callers : caller[d].op = "ready" <=> caller[d].id = 0
      /\ cur \in Ids \cup {0}
      BY DEF ServiceInv, TypeOK, CallsInv
<1>1. ASSUME NEW d \in Databases, SubmitTakeId(c, d)
      PROVE  CancelInv'
  <2>1. nextId \in Ids /\ outcome[nextId] = "none"
        BY <1>1 DEF SubmitTakeId, ServiceInv, TypeOK, IdsInv, Ids
  <2>2. /\ \A q \in Ids : q # nextId => dbOf'[q] = dbOf[q]
        /\ dbOf'[nextId] = d
        /\ caller'[c] = [op |-> "register", id |-> nextId]
        /\ \A e \in Callers : e # c => caller'[e] = caller[e]
        /\ UNCHANGED <<stopReq, outcome, wpc, cur, armed, hit, result>>
        BY <1>1, <1>t, <2>1 DEF SubmitTakeId
  <2>3. \A e \in Callers : Submitting(e) => caller[e].id \in Ids /\ caller[e].id # nextId
        BY <1>t, <2>1 DEF ServiceInv, CallsInv, TypeOK, Submitting, Ids
  <2>4. CallersCancel'
        BY <1>t, <2>1, <2>2, <2>3 DEF CallersCancel, Submitting, Cancelling
  <2>5. ASSUME cur # 0, CancelledBeside(cur)
        PROVE  CancelledBeside(cur)'
    <3>1. cur \in Ids /\ cur # nextId
          BY <1>t, <2>1, <2>5 DEF ServiceInv, WorkerInv
    <3>2. QED
          BY <1>t, <2>1, <2>2, <2>5, <3>1 DEF CancelledBeside, CallersCancel
  <2>6. wpc \in {"step", "publish", "retire"} => cur # 0
        BY DEF ServiceInv, WorkerInv
  <2>7. WorkerCancels'
        BY <2>2, <2>5, <2>6 DEF WorkerCancels
  <2>8. QED
        BY <2>4, <2>7
<1>2. CASE SubmitRegister(c)
      BY <1>2, <1>t DEF SubmitRegister, CallersCancel, WorkerCancels, Submitting, Cancelling,
         CancelledBeside
<1>3. CASE SubmitPush(c)
  <2>1. caller[c].id \in Ids
        BY <1>3, <1>t DEF SubmitPush
  <2>2. CallersCancel'
        BY <1>3, <1>t, <2>1 DEF SubmitPush, CallersCancel, Submitting, Cancelling
  <2>3. WorkerCancels'
        BY <1>3 DEF SubmitPush, WorkerCancels, CancelledBeside
  <2>4. QED
        BY <2>2, <2>3
<1>4. ASSUME NEW q \in Ids, CancelRefused(c, q)
      PROVE  CancelInv'
      BY <1>4 DEF CancelRefused, vars, CallersCancel, WorkerCancels, Submitting, Cancelling,
         CancelledBeside
<1>5. ASSUME NEW q \in Ids, CancelFound(c, q)
      PROVE  CancelInv'
      BY <1>5, <1>t DEF CancelFound, Submitted, CallersCancel, WorkerCancels, Submitting,
         Cancelling, CancelledBeside
<1>6. CASE CancelRequestStop(c)
  <2>1. caller[c].id \in Ids
        BY <1>6, <1>t DEF CancelRequestStop
  <2>2. CallersCancel'
        BY <1>6, <1>t, <2>1 DEF CancelRequestStop, CallersCancel, Submitting, Cancelling
  <2>3. WorkerCancels'
        BY <1>6 DEF CancelRequestStop, WorkerCancels, CancelledBeside
  <2>4. QED
        BY <2>2, <2>3
<1>7. CASE CancelRunCallbacks(c)
  <2>1. caller[c].id \in stopReq
        BY <1>7 DEF CancelRunCallbacks, CallersCancel, Cancelling
  <2>2. CallersCancel'
        BY <1>7, <1>t, <2>1 DEF CancelRunCallbacks, CallersCancel, Submitting, Cancelling
  <2>3. hit' => hit \/ (armed /\ CancelledBeside(cur))
        BY <1>7, <2>1 DEF CancelRunCallbacks, CancelledBeside
  <2>4. armed' => armed
        BY <1>7 DEF CancelRunCallbacks
  <2>5. UNCHANGED <<wpc, cur, result, stopReq, dbOf>>
        BY <1>7 DEF CancelRunCallbacks
  <2>6. WorkerCancels'
        BY <2>3, <2>4, <2>5 DEF WorkerCancels, CancelledBeside
  <2>7. QED
        BY <2>2, <2>6
<1>8. CASE CancelReadHandle(c)
      BY <1>8, <1>t DEF CancelReadHandle, CallersCancel, WorkerCancels, Submitting, Cancelling,
         CancelledBeside
<1>9. CASE CancelInterrupt(c)
  <2>1. caller[c].id \in stopReq
        BY <1>9 DEF CancelInterrupt, CallersCancel, Cancelling
  <2>2. CallersCancel'
        BY <1>9, <1>t DEF CancelInterrupt, CallersCancel, Submitting, Cancelling
  <2>3. hit' => hit \/ (wpc = "step" /\ CancelledBeside(cur))
        BY <1>9, <2>1 DEF CancelInterrupt, Running, CancelledBeside
  <2>4. UNCHANGED <<wpc, cur, result, stopReq, dbOf, armed>>
        BY <1>9 DEF CancelInterrupt
  <2>5. WorkerCancels'
        BY <2>3, <2>4 DEF WorkerCancels, CancelledBeside
  <2>6. QED
        BY <2>2, <2>5
<1>10. QED
       BY <1>1, <1>2, <1>3, <1>4, <1>5, <1>6, <1>7, <1>8, <1>9 DEF CallBegin, CallStep

LEMMA OtherStepsKeepCancel ==
  ASSUME ServiceInv, CancelInv, WorkerStep \/ EngineStep \/ Teardown \/ UNCHANGED vars
  PROVE  CancelInv'
<1> USE DEF CancelInv, WorkerAt, front, execution
<1>callers. ASSUME UNCHANGED <<caller, dbOf, stopReq>>,
                   \A q \in Ids : outcome[q] # "none" => outcome'[q] # "none"
            PROVE  CallersCancel'
  <2>1. \A c \in Callers : Cancelling(c) => caller[c].id \in Ids
        BY DEF ServiceInv, TypeOK, CallsInv, Cancelling
  <2>2. stopReq \subseteq Ids
        BY DEF ServiceInv, TypeOK
  <2>3. CASE \A c \in Callers : Submitting(c)' <=> Submitting(c)
        BY <1>callers, <2>1, <2>2 DEF CallersCancel, Submitting, Cancelling
  <2>4. QED
        BY <1>callers, <2>3 DEF Submitting
<1>same. ASSUME UNCHANGED <<dbOf, stopReq, cur, armed, hit, result>>,
                wpc \notin {"step", "publish", "retire"} \/ wpc' = wpc
         PROVE  WorkerCancels'
         BY <1>same DEF WorkerCancels, CancelledBeside
<1>1. CASE WorkerPop
  <2>1. ~armed /\ ~hit /\ result # "cancelled" /\ UNCHANGED <<armed, hit, result>>
        BY <1>1 DEF WorkerPop, WorkerCancels
  <2>2. QED
        BY <1>1, <1>callers, <2>1 DEF WorkerPop, WorkerCancels
<1>2. CASE WorkerExit \/ WorkerAnnounce \/ WorkerExecute \/ ExecuteLock
      BY <1>2, <1>callers, <1>same DEF WorkerExit, WorkerAnnounce, WorkerExecute, ExecuteLock
<1>3. CASE WorkerSkipCancelled
  <2>1. CancelledBeside(cur)' /\ wpc' = "publish" /\ ~armed' /\ ~hit'
        BY <1>3 DEF WorkerSkipCancelled, CancelledBeside, WorkerCancels
  <2>2. QED
        BY <1>3, <1>callers, <2>1 DEF WorkerSkipCancelled, WorkerCancels
<1>4. CASE ExecuteRejectsExplain \/ ExecuteFail \/ ExecuteScriptDone
  <2>1. wpc' = "publish" /\ ~armed' /\ ~hit' /\ result' # "cancelled"
        BY <1>4 DEF ExecuteRejectsExplain, ExecuteFail, ExecuteScriptDone, WorkerCancels
  <2>2. QED
        BY <1>4, <1>callers, <2>1
        DEF ExecuteRejectsExplain, ExecuteFail, ExecuteScriptDone, WorkerCancels
<1>5. ASSUME NEW m \in {"command", "query", "explain"}, ExecuteBeginStatement(m)
      PROVE  CancelInv'
  <2>1. /\ wpc' = "step" /\ result' = result /\ result # "cancelled"
        /\ hit' => CancelledBeside(cur)'
        BY <1>5 DEF ExecuteBeginStatement, HitFromStart, WorkerCancels, CancelledBeside
  <2>2. QED
        BY <1>5, <1>callers, <2>1 DEF ExecuteBeginStatement, WorkerCancels
<1>6. CASE WorkerPublish
  <2>1. \A q \in Ids : outcome[q] # "none" => outcome'[q] # "none"
        BY <1>6 DEF WorkerPublish, ServiceInv, TypeOK, WorkerInv, Answers
  <2>2. ~armed /\ ~hit
        BY <1>6 DEF WorkerPublish, WorkerCancels
  <2>3. WorkerCancels'
        BY <1>6, <2>2 DEF WorkerPublish, WorkerCancels, CancelledBeside
  <2>4. QED
        BY <1>6, <1>callers, <2>1, <2>3 DEF WorkerPublish
<1>7. CASE WorkerRetire
  <2>1. ~armed' /\ ~hit' /\ result' = "none"
        BY <1>7 DEF WorkerRetire, WorkerCancels
  <2>2. QED
        BY <1>7, <1>callers, <2>1 DEF WorkerRetire, WorkerCancels
<1>8. ASSUME NEW rc \in {"done", "failed", "interrupted"}, EndStatement(rc),
             rc = "interrupted" => hit
      PROVE  CancelInv'
  <2>1. ReportsCancelled(rc) => CancelledBeside(cur)
        BY <1>8 DEF ReportsCancelled, SqliteReportsCancelled, PostgresReportsCancelled,
           WorkerCancels, CancelledBeside
  <2>2. /\ ~armed' /\ ~hit'
        /\ result # "cancelled"
        /\ \/ wpc' = "next" /\ result' = result
           \/ wpc' = "publish" /\ (result' = "cancelled" => ReportsCancelled(rc))
        BY <1>8 DEF EndStatement, WorkerCancels
  <2>3. WorkerCancels'
        BY <1>8, <2>1, <2>2 DEF EndStatement, WorkerCancels, CancelledBeside
  <2>4. QED
        BY <1>8, <1>callers, <2>3 DEF EndStatement
<1>9. CASE Teardown \/ UNCHANGED vars
      BY <1>9, <1>callers, <1>same
      DEF Teardown, DestroyRequestStop, DestroyMembers, DestroyJoin, Gone, vars
<1>10. QED
       BY <1>1, <1>2, <1>3, <1>4, <1>5, <1>6, <1>7, <1>8, <1>9
       DEF WorkerStep, ExecuteNext, EngineStep, ExecuteEndStatement, ExecuteEndInterrupted

LEMMA CancelInvInductive == ServiceInv /\ CancelInv /\ [Next]_vars => CancelInv'
  BY CallStepsKeepCancel, OtherStepsKeepCancel DEF Next, Operate

-----------------------------------------------------------------------------
\* The waiting list of the ledger is the query in hand before the queue.
LEMMA AppendBehind ==
  ASSUME NEW S, NEW s \in Seq(S), NEW t \in Seq(S), NEW q \in S
  PROVE  s \o Append(t, q) = Append(s \o t, q)
  OBVIOUS

LEMMA HeadBeforeTail ==
  ASSUME NEW S, NEW s \in Seq(S), s # <<>>
  PROVE  <<Head(s)>> \o Tail(s) = s
  OBVIOUS

LEMMA FirstOfConcat ==
  ASSUME NEW S, NEW s \in Seq(S), NEW q \in S
  PROVE  /\ <<q>> \o s # <<>>
         /\ Head(<<q>> \o s) = q
         /\ Tail(<<q>> \o s) = s
  OBVIOUS

LEMMA EmptyBefore ==
  ASSUME NEW S, NEW s \in Seq(S)
  PROVE  <<>> \o s = s
  OBVIOUS

Waiting == InHand \o queue
Target == [q \in Ids |-> IF outcome[q] = "none" THEN NoDatabase ELSE dbOf[q]]

LedgerInv == ServiceInv /\ QueueInv /\ CancelInv

LEMMA LedgerStep == LedgerInv /\ [Next]_vars => [Ledger!Next]_(Ledger!vars)
<1> SUFFICES ASSUME LedgerInv, [Next]_vars
             PROVE  [Ledger!Next]_(Ledger!vars)
    OBVIOUS
<1> USE DEF LedgerInv, WorkerAt, At, front, execution
<1>0. 0 \notin Ids
      BY ServiceAssumption DEF Ids
<1>t. /\ queue \in Seq(Ids)
      /\ outcome \in [Ids -> Answers \cup {"none", "pending"}]
      /\ dbOf \in [Ids -> Databases \cup {NoDatabase}]
      /\ cur \in Ids \cup {0}
      /\ stopReq \subseteq Ids
      BY DEF ServiceInv, TypeOK
<1>hand. InHand \in Seq(Ids)
         BY <1>t DEF InHand
\* A step that the ledger does not see.
<1>still. ASSUME UNCHANGED <<Waiting, Target, stopReq, outcome>>
          PROVE  [Ledger!Next]_(Ledger!vars)
          BY <1>still DEF Waiting, Target, Ledger!vars
<1>same. ASSUME UNCHANGED <<queue, cur, outcome, dbOf, stopReq>>
         PROVE  [Ledger!Next]_(Ledger!vars)
         BY <1>same, <1>still DEF Waiting, Target, InHand
<1>1. ASSUME NEW c \in Callers, NEW d \in Databases, SubmitTakeId(c, d)
      PROVE  [Ledger!Next]_(Ledger!vars)
  <2>1. nextId \in Ids /\ outcome[nextId] = "none"
        BY <1>1 DEF SubmitTakeId, ServiceInv, TypeOK, IdsInv, Ids
  <2>2. /\ \A q \in Ids : q # nextId => dbOf'[q] = dbOf[q]
        /\ UNCHANGED <<queue, cur, outcome, stopReq>>
        BY <1>1, <1>t DEF SubmitTakeId
  <2>3. Target' = Target
        BY <2>1, <2>2 DEF Target
  <2>4. QED
        BY <1>still, <2>2, <2>3 DEF Waiting, InHand
<1>2. ASSUME NEW c \in Callers, SubmitPush(c)
      PROVE  [Ledger!Next]_(Ledger!vars)
  <2> DEFINE q == caller[c].id
             d == dbOf[q]
  <2>1. q \in Ids /\ outcome[q] = "none" /\ q # cur /\ d \in Databases
        BY <1>2, <1>t
        DEF SubmitPush, ServiceInv, TypeOK, CallsInv, WorkerInv, Submitting, CancelInv, CallersCancel
  <2>2. /\ queue' = Append(queue, q)
        /\ outcome' = [outcome EXCEPT ![q] = "pending"]
        /\ UNCHANGED <<cur, dbOf, stopReq>>
        BY <1>2 DEF SubmitPush
  <2>3. InHand' = InHand
        BY <1>t, <2>1, <2>2 DEF InHand
  <2>4. Waiting' = Append(Waiting, q)
        BY <1>t, <1>hand, <2>1, <2>2, <2>3, AppendBehind DEF Waiting
  <2>5. Target' = [Target EXCEPT ![q] = d]
        BY <1>t, <2>1, <2>2 DEF Target
  <2>6. \E p \in Ids, e \in Databases : Ledger!Accept(p, e)
        BY <2>1, <2>2, <2>4, <2>5 DEF Ledger!Accept, Waiting, Target
  <2>7. QED
        BY <2>6 DEF Ledger!Next
<1>3. ASSUME NEW c \in Callers, CancelRequestStop(c)
      PROVE  [Ledger!Next]_(Ledger!vars)
  <2>1. caller[c].id \in Ids /\ outcome[caller[c].id] # "none"
        BY <1>3 DEF CancelRequestStop, ServiceInv, TypeOK, CallsInv, CancelInv, CallersCancel,
           Cancelling
  <2>2. UNCHANGED <<Waiting, Target, outcome>>
        BY <1>3 DEF CancelRequestStop, Waiting, Target, InHand
  <2>3. Ledger!RequestCancel(caller[c].id)
        BY <1>3, <2>1, <2>2 DEF CancelRequestStop, Ledger!RequestCancel, Waiting, Target
  <2>4. QED
        BY <2>1, <2>3 DEF Ledger!Next
<1>4. CASE WorkerPop
  <2>1. /\ cur = 0 /\ queue # <<>> /\ Head(queue) \in Ids /\ Head(queue) = queue[1]
        /\ 1 \in 1..Len(queue)
        /\ cur' = Head(queue) /\ queue' = Tail(queue)
        /\ UNCHANGED <<outcome, dbOf, stopReq>>
        BY <1>4, <1>t DEF WorkerPop, ServiceInv, WorkerInv
  <2>2. InHand = <<>> /\ InHand' = <<Head(queue)>>
        BY <1>0, <2>1 DEF InHand, QueueInv
  <2>3. Waiting' = Waiting
        BY <1>t, <2>1, <2>2, HeadBeforeTail, EmptyBefore DEF Waiting
  <2>4. QED
        BY <1>still, <2>1, <2>3 DEF Target
<1>5. CASE WorkerPublish
  <2>1. /\ cur \in Ids /\ outcome[cur] = "pending" /\ result \in Answers
        /\ outcome' = [outcome EXCEPT ![cur] = result]
        /\ UNCHANGED <<queue, cur, dbOf, stopReq>>
        BY <1>5, <1>0, <1>t DEF WorkerPublish, ServiceInv, WorkerInv, QueueInv
  <2>2. Waiting = <<cur>> \o queue
        BY <1>0, <2>1 DEF Waiting, InHand
  <2>3. InHand' = <<>>
        BY <1>t, <2>1 DEF InHand, Answers
  <2>4. Waiting' = queue
        BY <1>t, <2>1, <2>3, EmptyBefore DEF Waiting
  <2>5. Waiting # <<>> /\ Head(Waiting) = cur /\ Tail(Waiting) = queue
        BY <1>t, <2>1, <2>2, FirstOfConcat
  <2>6. Target' = Target
        BY <1>t, <2>1 DEF Target, Answers
  <2>7. result = "cancelled" => \E p \in stopReq : Target[p] = Target[cur]
    <3>1. \A p \in stopReq : Target[p] = dbOf[p]
          BY <1>t DEF Target, CancelInv, CallersCancel
    <3>2. Target[cur] = dbOf[cur]
          BY <2>1 DEF Target
    <3>3. QED
          BY <3>1, <3>2 DEF CancelInv, WorkerCancels, CancelledBeside
  <2>8. Ledger!Answer(result)
        BY <2>1, <2>4, <2>5, <2>6, <2>7 DEF Ledger!Answer, Ledger!CancelledFairly, Waiting, Target
  <2>9. QED
        BY <2>1, <2>8 DEF Ledger!Next, Ledger!Answers, Answers
<1>6. CASE WorkerRetire
  <2>1. /\ InHand = <<>> /\ InHand' = <<>>
        /\ UNCHANGED <<queue, outcome, dbOf, stopReq>>
        BY <1>6 DEF WorkerRetire, InHand, ServiceInv, WorkerInv
  <2>2. QED
        BY <1>still, <2>1 DEF Waiting, Target
<1>7. ASSUME NEW c \in Callers,
             \/ \E q \in Ids : CancelRefused(c, q) \/ CancelFound(c, q)
             \/ SubmitRegister(c) \/ CancelRunCallbacks(c)
             \/ CancelReadHandle(c) \/ CancelInterrupt(c)
      PROVE  [Ledger!Next]_(Ledger!vars)
      BY <1>7, <1>same DEF CancelRefused, CancelFound, SubmitRegister, CancelRunCallbacks,
         CancelReadHandle, CancelInterrupt, vars
<1>8. CASE \/ WorkerExit \/ WorkerAnnounce \/ WorkerSkipCancelled \/ WorkerExecute
           \/ ExecuteRejectsExplain \/ ExecuteLock \/ ExecuteNext
      BY <1>8, <1>same DEF WorkerExit, WorkerAnnounce, WorkerSkipCancelled, WorkerExecute,
         ExecuteRejectsExplain, ExecuteLock, ExecuteNext, ExecuteBeginStatement, ExecuteFail,
         ExecuteScriptDone
<1>9. CASE EngineStep \/ Teardown \/ UNCHANGED vars
      BY <1>9, <1>same DEF EngineStep, ExecuteEndStatement, ExecuteEndInterrupted, EndStatement,
         Teardown, DestroyRequestStop, DestroyMembers, DestroyJoin, Gone, vars
<1>10. QED
       BY <1>1, <1>2, <1>3, <1>4, <1>5, <1>6, <1>7, <1>8, <1>9
       DEF Next, Operate, CallBegin, CallStep, WorkerStep

(***************************************************************************)
(* The threads, the registry and the cancel race refine QueryLedger: for   *)
(* any callers and connections every accepted query is answered once, in   *)
(* the order of the pushes, and "cancelled" only beside a cancel.          *)
(***************************************************************************)
THEOREM ServiceKeepsTheLedger == Spec => ImplementsLedger
<1>1. Init => Ledger!Init
  <2> SUFFICES ASSUME Init
               PROVE  Ledger!Init
      OBVIOUS
  <2>1. InHand = <<>> /\ queue = <<>>
        BY DEF Init, InHand
  <2>2. InHand \o queue = <<>>
        BY <2>1
  <2>3. \A q \in Ids : outcome[q] = "none"
        BY DEF Init
  <2>4. QED
        BY <2>2, <2>3 DEF Init, Ledger!Init
<1>2. Init => CancelInv
      BY DEF Init, CancelInv, CallersCancel, WorkerCancels, Submitting, Cancelling, Ready
<1>3. Spec => []LedgerInv
      BY <1>2, QueueAndEndInvariant, CancelInvInductive, PTL DEF Spec, LedgerInv
<1>4. QED
      BY <1>1, <1>3, LedgerStep, PTL DEF Spec, ImplementsLedger, Ledger!Spec
=============================================================================
