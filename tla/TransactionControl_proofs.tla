--------------------- MODULE TransactionControl_proofs ---------------------
(***************************************************************************)
(* The flags of TransactionControl, for either engine and any number of    *)
(* writes.  The three action properties need nothing of the state before   *)
(* the step but its type: every button decides from its own flags and from *)
(* the results of its statements.                                          *)
(***************************************************************************)
EXTENDS TransactionControl, TLAPS

\* What a statement comes to, whichever engine runs it.
OutcomeSet == [ok : BOOLEAN, engine : EngineStates, pending : Fates]

LEMMA OutcomeTyped ==
  ASSUME NEW b \in BOOLEAN, NEW e \in EngineStates, NEW p \in Fates
  PROVE  Outcome(b, e, p) \in OutcomeSet
BY DEF Outcome, OutcomeSet

LEMMA OutcomesTyped ==
  ASSUME NEW s, NEW e \in EngineStates, NEW out \in Outcomes(s, e)
  PROVE  out \in OutcomeSet
<1>1. Refused(e) \subseteq OutcomeSet
      BY OutcomeTyped DEF Refused, Fates
<1>2. RolledBack \subseteq OutcomeSet
      BY OutcomeTyped DEF RolledBack, EngineStates, Fates
<1>3. {Outcome(TRUE, "active", "pending"), Outcome(TRUE, "idle", "durable"),
       Outcome(TRUE, "idle", "undone")} \subseteq OutcomeSet
      BY OutcomeTyped DEF EngineStates, Fates
<1>4. SqliteOutcomes(s, e) \subseteq OutcomeSet
      BY <1>1, <1>2, <1>3 DEF SqliteOutcomes
<1>5. PostgresOutcomes(s, e) \subseteq OutcomeSet
      BY <1>1, <1>2, <1>3 DEF PostgresOutcomes
<1>6. QED
      BY <1>4, <1>5 DEF Outcomes

\* A BEGIN that succeeds opens a transaction, one that fails changes nothing.
LEMMA BeginOutcome ==
  ASSUME NEW e \in EngineStates, NEW out \in Outcomes("BEGIN", e)
  PROVE  /\ out.ok => out.engine = "active"
         /\ ~out.ok => out.engine = e
BY DEF Outcomes, SqliteOutcomes, PostgresOutcomes, Refused, Outcome, EngineStates

\* A COMMIT or ROLLBACK that succeeds leaves the engine idle.
LEMMA EndOutcome ==
  ASSUME NEW s \in {"COMMIT", "ROLLBACK"}, NEW e \in EngineStates, NEW out \in Outcomes(s, e)
  PROVE  out.ok => out.engine = "idle"
BY DEF Outcomes, SqliteOutcomes, PostgresOutcomes, RolledBack, Refused, Outcome, EngineStates

\* One that fails leaves the transaction as it was, or a COMMIT ended it.
LEMMA EndRefused ==
  ASSUME NEW s \in {"COMMIT", "ROLLBACK"}, NEW e \in EngineStates, NEW out \in Outcomes(s, e),
         ~out.ok
  PROVE  out.engine = e \/ (s = "COMMIT" /\ out.engine = "idle")
BY DEF Outcomes, SqliteOutcomes, PostgresOutcomes, RolledBack, Refused, Outcome, EngineStates

-----------------------------------------------------------------------------
LEMMA SettleTyped ==
  ASSUME TypeOK, NEW p \in Fates, Settle(p)
  PROVE  fate' \in [Writes -> Fates]
BY DEF TypeOK, Settle

LEMMA ReturnsTyped ==
  ASSUME NEW step \in Steps, NEW r \in Results, Returns(step, r)
  PROVE  last' \in [op : Steps, result : Results]
BY DEF Returns

LEMMA BeginTyped ==
  ASSUME TypeOK, UNCHANGED database, open, open' = open, NEW step \in Steps,
         NEW out \in Outcomes("BEGIN", engine), BeginWith(out, step),
         autocommit_enabled' \in BOOLEAN
  PROVE  TypeOK'
<1>1. out.ok \in BOOLEAN /\ out.engine \in EngineStates
      BY OutcomesTyped DEF TypeOK, OutcomeSet
<1>2. last' \in [op : Steps, result : Results]
      BY <1>1, ReturnsTyped DEF BeginWith, Result, Results
<1>3. QED
      BY <1>1, <1>2 DEF BeginWith, TypeOK

LEMMA EndTyped ==
  ASSUME TypeOK, UNCHANGED database, NEW step \in {"commit", "rollback"}, NEW s, EndTransaction(step, s)
  PROVE  TypeOK'
<1>1. step \in Steps
      BY DEF Steps
<1>2. CASE ~in_transaction
  <2>1. last' \in [op : Steps, result : Results]
        BY <1>1, <1>2, ReturnsTyped DEF EndTransaction, Results
  <2>2. QED
        BY <1>2, <2>1 DEF EndTransaction, TypeOK
<1>3. CASE in_transaction
  <2>1. PICK ended \in Outcomes(s, engine) :
               \E reopened \in Reopenings(ended) : EndWith(ended, reopened, step)
        BY <1>3 DEF EndTransaction
  <2>2. PICK reopened \in Reopenings(ended) : EndWith(ended, reopened, step)
        BY <2>1
  <2>3. ended.ok \in BOOLEAN /\ ended.engine \in EngineStates /\ ended.pending \in Fates
        BY OutcomesTyped DEF TypeOK, OutcomeSet
  <2>4. reopened.ok \in BOOLEAN /\ reopened.engine \in EngineStates
    <3>1. CASE ended.ok /\ ~autocommit_enabled
          BY <2>3, <3>1, OutcomesTyped DEF Reopenings, OutcomeSet
    <3>2. CASE ~(ended.ok /\ ~autocommit_enabled)
      <4>1. reopened = Outcome(FALSE, ended.engine, "pending")
            BY <3>2 DEF Reopenings
      <4>2. QED
            BY <2>3, <4>1 DEF Outcome
    <3>3. QED
          BY <3>1, <3>2
  <2>5. fate' \in [Writes -> Fates]
        BY <2>2, <2>3, SettleTyped DEF EndWith
  <2>6. last' \in [op : Steps, result : Results]
        BY <1>1, <2>2, ReturnsTyped DEF EndWith, Result, Results
  <2>7. QED
        BY <2>2, <2>3, <2>4, <2>5, <2>6
        DEF EndTransaction, EndWith, InTransactionAfter, TypeOK
<1>4. QED
      BY <1>2, <1>3

LEMMA ExecuteTyped ==
  ASSUME TypeOK, UNCHANGED database, Execute
  PROVE  TypeOK'
<1>1. ASSUME NEW w \in Fresh, ExecuteWrite(w) \/ ExecuteWriteFails(w)
      PROVE  TypeOK'
  <2>1. last' \in [op : Steps, result : Results]
        BY <1>1, ReturnsTyped DEF ExecuteWrite, ExecuteWriteFails, Steps, Results
  <2>2. fate' \in [Writes -> Fates]
        BY <1>1 DEF ExecuteWrite, ExecuteWriteFails, WriteTo, Fates, TypeOK
  <2>3. /\ engine' \in EngineStates
        /\ UNCHANGED <<open, autocommit_enabled, in_transaction>>
        BY <1>1 DEF ExecuteWrite, ExecuteWriteFails, EngineStates, flags, TypeOK
  <2>4. QED
        BY <2>1, <2>2, <2>3 DEF TypeOK
<1>2. ASSUME NEW s, ExecuteControl(s)
      PROVE  TypeOK'
  <2>1. PICK out \in Outcomes(s, engine) :
                engine' = out.engine /\ Settle(out.pending) /\ Returns("control", Result(out.ok))
        BY <1>2 DEF ExecuteControl
  <2>2. out.engine \in EngineStates /\ out.pending \in Fates
        BY OutcomesTyped DEF TypeOK, OutcomeSet
  <2>3. fate' \in [Writes -> Fates]
        BY <2>1, <2>2, SettleTyped
  <2>4. last' \in [op : Steps, result : Results]
        BY <2>1, ReturnsTyped DEF Result, Steps, Results
  <2>5. UNCHANGED <<open, autocommit_enabled, in_transaction>>
        BY <1>2 DEF ExecuteControl, flags
  <2>6. QED
        BY <2>1, <2>2, <2>3, <2>4, <2>5 DEF TypeOK
<1>3. QED
      BY <1>1, <1>2 DEF Execute

LEMMA TypeStep == TypeOK /\ [Next]_vars => TypeOK'
<1> SUFFICES ASSUME TypeOK, [Next]_vars
             PROVE  TypeOK'
    OBVIOUS
<1>0. UNCHANGED database
      BY DEF Next, vars
<1>1. CASE Begin
  <2>1. CASE in_transaction
    <3>1. last' \in [op : Steps, result : Results]
          BY <1>1, <2>1, ReturnsTyped DEF Begin, Steps, Results
    <3>2. QED
          BY <1>0, <1>1, <2>1, <3>1 DEF Begin, TypeOK
  <2>2. CASE ~in_transaction
    <3>1. PICK out \in Outcomes("BEGIN", engine) : BeginWith(out, "begin")
          BY <1>1, <2>2 DEF Begin
    <3>2. "begin" \in Steps /\ autocommit_enabled' \in BOOLEAN /\ open /\ open' = open
          BY <1>1 DEF Begin, Steps, TypeOK
    <3>3. QED
          BY <1>0, <3>1, <3>2, BeginTyped
  <2>3. QED
        BY <2>1, <2>2
<1>2. CASE AutocommitOff
  <2>1. PICK out \in Outcomes("BEGIN", engine) :
                BeginWith(out, "autocommit off") /\ autocommit_enabled' = ~out.ok
        BY <1>2 DEF AutocommitOff
  <2>2. "autocommit off" \in Steps /\ autocommit_enabled' \in BOOLEAN /\ open /\ open' = open
        BY <1>2, <2>1 DEF AutocommitOff, Steps
  <2>3. QED
        BY <1>0, <2>1, <2>2, BeginTyped
<1>3. CASE AutocommitOn
  <2>1. CASE in_transaction
    <3>1. PICK out \in Outcomes("COMMIT", engine) :
                  /\ in_transaction' = ~out.ok
                  /\ autocommit_enabled' = out.ok
                  /\ engine' = out.engine
                  /\ Settle(out.pending)
                  /\ Returns("autocommit on", Result(out.ok))
          BY <1>3, <2>1 DEF AutocommitOn
    <3>2. out.ok \in BOOLEAN /\ out.engine \in EngineStates /\ out.pending \in Fates
          BY OutcomesTyped DEF TypeOK, OutcomeSet
    <3>3. fate' \in [Writes -> Fates]
          BY <3>1, <3>2, SettleTyped
    <3>4. last' \in [op : Steps, result : Results]
          BY <3>1, ReturnsTyped DEF Result, Steps, Results
    <3>5. QED
          BY <1>0, <1>3, <3>1, <3>2, <3>3, <3>4 DEF AutocommitOn, TypeOK
  <2>2. CASE ~in_transaction
    <3>1. last' \in [op : Steps, result : Results]
          BY <1>3, <2>2, ReturnsTyped DEF AutocommitOn, Steps, Results
    <3>2. QED
          BY <1>0, <1>3, <2>2, <3>1 DEF AutocommitOn, TypeOK
  <2>3. QED
        BY <2>1, <2>2
<1>4. CASE Commit \/ Rollback
      BY <1>0, <1>4, EndTyped DEF Commit, Rollback
<1>5. CASE Execute
      BY <1>0, <1>5, ExecuteTyped
<1>6. CASE LoseConnection
  <2>1. fate' \in [Writes -> Fates]
        BY <1>6, SettleTyped DEF LoseConnection, Fates
  <2>2. last' \in [op : Steps, result : Results]
        BY <1>6, ReturnsTyped DEF LoseConnection, Steps, Results
  <2>3. QED
        BY <1>0, <1>6, <2>1, <2>2 DEF LoseConnection, TypeOK, EngineStates, flags
<1>7. CASE Close
  <2>1. fate' \in [Writes -> Fates]
        BY <1>7, SettleTyped DEF Close, Fates
  <2>2. last' \in [op : Steps, result : Results]
        BY <1>7, ReturnsTyped DEF Close, Steps, Results
  <2>3. QED
        BY <1>0, <1>7, <2>1, <2>2 DEF Close, TypeOK, EngineStates
<1>8. CASE UNCHANGED vars
      BY <1>8 DEF vars, flags, TypeOK
<1>9. QED
      BY <1>1, <1>2, <1>3, <1>4, <1>5, <1>6, <1>7, <1>8 DEF Next, Operation, Buttons, Closed

LEMMA TypeInit == Init => TypeOK
<1> SUFFICES ASSUME Init
             PROVE  TypeOK
    OBVIOUS
<1>1. last \in [op : Steps, result : Results]
      BY DEF Init, Steps, Results
<1>2. fate \in [Writes -> Fates]
      BY DEF Init, Fates
<1>3. engine \in EngineStates
      BY DEF Init, EngineStates
<1>4. QED
      BY <1>1, <1>2, <1>3 DEF Init, TypeOK

\* The flags, the engine's state and the fate of every write have their types.
THEOREM TransactionsTyped == Spec => []TypeOK
BY TypeInit, TypeStep, PTL DEF Spec
-----------------------------------------------------------------------------
LEMMA EndTransactionInSync ==
  ASSUME TypeOK,
         NEW step \in {"commit", "rollback"}, NEW s \in {"COMMIT", "ROLLBACK"},
         step = "commit" <=> s = "COMMIT",
         EndTransaction(step, s)
  PROVE  /\ InSync => InSync' \/ CommitRolledBack
         /\ (last'.result = "ok" /\ in_transaction) => InSync'
<1> USE DEF Returns, Result, InSync, InTransaction
<1>1. CASE ~in_transaction
      BY <1>1 DEF EndTransaction
<1>2. CASE in_transaction
  <2>1. PICK ended \in Outcomes(s, engine) :
               \E reopened \in Reopenings(ended) : EndWith(ended, reopened, step)
        BY <1>2 DEF EndTransaction
  <2>2. PICK reopened \in Reopenings(ended) : EndWith(ended, reopened, step)
        BY <2>1
  <2>0. /\ ended.ok \in BOOLEAN /\ ended.engine \in EngineStates
        /\ ended.ok => ended.engine = "idle"
        /\ ~ended.ok => ended.engine = engine \/ (s = "COMMIT" /\ ended.engine = "idle")
        BY OutcomesTyped, EndOutcome, EndRefused DEF TypeOK, OutcomeSet
  <2>3. CASE ~ended.ok
    <3>1. /\ in_transaction' /\ engine' = ended.engine
          /\ last' = [op |-> step, result |-> "failed"]
          BY <2>2, <2>3 DEF EndWith, Reopenings, Outcome, InTransactionAfter
    <3>2. QED
          BY <1>2, <2>0, <2>3, <3>1 DEF CommitRolledBack
  <2>4. CASE ended.ok /\ autocommit_enabled
    <3>1. ~reopened.ok /\ reopened.engine = "idle"
          BY <2>0, <2>4 DEF Reopenings, Outcome
    <3>2. QED
          BY <2>2, <2>4, <3>1 DEF EndWith, InTransactionAfter
  <2>5. CASE ended.ok /\ ~autocommit_enabled
    <3>1. /\ reopened.ok \in BOOLEAN
          /\ reopened.ok => reopened.engine = "active"
          /\ ~reopened.ok => reopened.engine = "idle"
          BY <2>0, <2>5, OutcomesTyped, BeginOutcome DEF Reopenings, OutcomeSet
    <3>2. QED
          BY <2>2, <2>5, <3>1 DEF EndWith, InTransactionAfter
  <2>6. QED
        BY <2>0, <2>3, <2>4, <2>5
<1>3. QED
      BY <1>1, <1>2 DEF TypeOK

LEMMA StepInSync ==
  ASSUME TypeOK, [Next]_vars
  PROVE  /\ InSync => \/ InSync'
                      \/ last'.op \in {"write", "control", "lose"}
                      \/ CommitRolledBack
                      \/ UNCHANGED vars
         /\ (last'.op \in {"commit", "rollback"} /\ last'.result = "ok" /\ in_transaction)
              => InSync' \/ UNCHANGED vars
<1> USE DEF Returns, Result, InSync, InTransaction
<1>0. engine \in EngineStates
      BY DEF TypeOK
<1>1. CASE Begin
  <2>1. CASE in_transaction
        BY <1>1, <2>1 DEF Begin
  <2>2. CASE ~in_transaction
    <3>1. PICK out \in Outcomes("BEGIN", engine) : BeginWith(out, "begin")
          BY <1>1, <2>2 DEF Begin
    <3>2. /\ out.ok \in BOOLEAN
          /\ out.ok => out.engine = "active"
          /\ ~out.ok => out.engine = engine
          BY <1>0, OutcomesTyped, BeginOutcome DEF OutcomeSet
    <3>3. QED
          BY <2>2, <3>1, <3>2 DEF BeginWith, TypeOK
  <2>3. QED
        BY <2>1, <2>2
<1>2. CASE AutocommitOff
  <2>1. PICK out \in Outcomes("BEGIN", engine) : BeginWith(out, "autocommit off")
        BY <1>2 DEF AutocommitOff
  <2>2. /\ out.ok \in BOOLEAN
        /\ out.ok => out.engine = "active"
        /\ ~out.ok => out.engine = engine
        BY <1>0, OutcomesTyped, BeginOutcome DEF OutcomeSet
  <2>3. CASE out.ok
        BY <2>1, <2>2, <2>3 DEF BeginWith
  <2>4. CASE ~out.ok
    <3>1. engine' = engine /\ (in_transaction' <=> in_transaction)
          BY <2>1, <2>2, <2>4 DEF BeginWith, TypeOK
    <3>2. last'.op = "autocommit off"
          BY <2>1 DEF BeginWith
    <3>3. QED
          BY <3>1, <3>2
  <2>5. QED
        BY <2>2, <2>3, <2>4
<1>3. CASE AutocommitOn
  <2>1. CASE in_transaction
    <3>1. PICK out \in Outcomes("COMMIT", engine) :
                  /\ in_transaction' = ~out.ok
                  /\ engine' = out.engine
                  /\ last' = [op |-> "autocommit on", result |-> Result(out.ok)]
          BY <1>3, <2>1 DEF AutocommitOn
    <3>2. /\ out.ok \in BOOLEAN
          /\ out.ok => out.engine = "idle"
          /\ ~out.ok => out.engine = engine \/ out.engine = "idle"
          BY <1>0, OutcomesTyped, EndOutcome, EndRefused DEF OutcomeSet
    <3>3. last'.op = "autocommit on"
          BY <3>1
    <3>4. CASE out.ok
          BY <3>1, <3>2, <3>3, <3>4
    <3>5. CASE ~out.ok
      <4>1. last'.result = "failed" /\ in_transaction'
            BY <3>1, <3>5
      <4>2. QED
            BY <2>1, <3>1, <3>2, <3>3, <3>5, <4>1 DEF CommitRolledBack
    <3>6. QED
          BY <3>2, <3>4, <3>5
  <2>2. CASE ~in_transaction
        BY <1>3, <2>2 DEF AutocommitOn
  <2>3. QED
        BY <2>1, <2>2 DEF TypeOK
<1>4. CASE Commit
      BY <1>4, EndTransactionInSync DEF Commit
<1>5. CASE Rollback
      BY <1>5, EndTransactionInSync DEF Rollback
<1>6. CASE Execute \/ LoseConnection
  <2>1. last'.op \in {"write", "control", "lose"}
        BY <1>6 DEF Execute, ExecuteWrite, ExecuteWriteFails, ExecuteControl, LoseConnection
  <2>2. QED
        BY <2>1
<1>7. CASE Close
      BY <1>7 DEF Close
<1>8. CASE UNCHANGED vars
      BY <1>8
<1>9. QED
      BY <1>1, <1>2, <1>3, <1>4, <1>5, <1>6, <1>7, <1>8 DEF Next, Operation, Buttons, Closed

(***************************************************************************)
(* The buttons keep the flags in agreement with the engine, whatever fails *)
(* on the way.                                                             *)
(***************************************************************************)
THEOREM ButtonsKeepSync == Spec => ButtonsStayInSync
<1>1. TypeOK /\ [Next]_vars =>
        [InSync => \/ InSync'
                   \/ last'.op \in {"write", "control", "lose"}
                   \/ CommitRolledBack]_vars
      BY StepInSync
<1>2. QED
      BY <1>1, TransactionsTyped, PTL DEF Spec, ButtonsStayInSync

\* A successful end of a transaction brings flags and engine together again.
THEOREM EndsResync == Spec => SuccessResyncs
<1>1. TypeOK /\ [Next]_vars =>
        [(last'.op \in {"commit", "rollback"} /\ last'.result = "ok" /\ in_transaction)
           => InSync']_vars
      BY StepInSync
<1>2. QED
      BY <1>1, TransactionsTyped, PTL DEF Spec, SuccessResyncs
-----------------------------------------------------------------------------
\* A pending write that is undone, or stays pending, is not durable.
LEMMA SettleUndoes ==
  ASSUME TypeOK, NEW p \in {"pending", "undone"}, Settle(p)
  PROVE  DurableWrites' = DurableWrites
<1>1. \A w \in Writes : fate'[w] = "durable" <=> fate[w] = "durable"
      BY DEF Settle
<1>2. QED
      BY <1>1 DEF DurableWrites

\* In a transaction a rollback makes nothing durable, and a BEGIN leaves the writes alone.
LEMMA RollbackOutcome ==
  ASSUME NEW e \in {"active", "aborted"}, NEW out \in Outcomes("ROLLBACK", e)
  PROVE  out.pending \in {"pending", "undone"}
BY DEF Outcomes, SqliteOutcomes, PostgresOutcomes, Refused, Outcome

LEMMA StepHoldsWrites ==
  ASSUME TypeOK, [Next]_vars, in_transaction, InTransaction
  PROVE  \/ DurableWrites' = DurableWrites
         \/ last'.op \in {"commit", "autocommit on", "control"}
<1>0. engine \in {"active", "aborted"}
      BY DEF InTransaction
<1>1. CASE Begin
      BY <1>1 DEF Begin, DurableWrites
<1>2. CASE AutocommitOff
      BY <1>2 DEF AutocommitOff, BeginWith, DurableWrites
<1>3. CASE AutocommitOn
  <2>1. PICK out \in Outcomes("COMMIT", engine) : Returns("autocommit on", Result(out.ok))
        BY <1>3 DEF AutocommitOn
  <2>2. QED
        BY <2>1 DEF Returns
<1>4. CASE Commit
  <2>1. last'.op = "commit"
        BY <1>4 DEF Commit, EndTransaction, EndWith, Returns
  <2>2. QED
        BY <2>1
<1>5. CASE Rollback
  <2>1. PICK ended \in Outcomes("ROLLBACK", engine) : Settle(ended.pending)
        BY <1>5 DEF Rollback, EndTransaction, EndWith
  <2>2. QED
        BY <1>0, <2>1, RollbackOutcome, SettleUndoes
<1>6. ASSUME NEW w \in Fresh, ExecuteWrite(w)
      PROVE  DurableWrites' = DurableWrites
  <2>1. fate' = [fate EXCEPT ![w] = "pending"] /\ fate[w] = "none"
        BY <1>0, <1>6 DEF ExecuteWrite, WriteTo, Fresh
  <2>2. QED
        BY <2>1 DEF DurableWrites, TypeOK
<1>7. ASSUME NEW w \in Fresh, ExecuteWriteFails(w)
      PROVE  DurableWrites' = DurableWrites
  <2>1. fate[w] = "none" /\ w \in Writes
        BY DEF Fresh
  <2>2. CASE fate' = [fate EXCEPT ![w] = "undone"]
        BY <2>1, <2>2 DEF DurableWrites, TypeOK
  <2>3. CASE fate' = [v \in Writes |-> IF v = w \/ fate[v] = "pending" THEN "undone" ELSE fate[v]]
    <3>1. \A v \in Writes : fate'[v] = "durable" <=> fate[v] = "durable"
          BY <2>1, <2>3
    <3>2. QED
          BY <3>1 DEF DurableWrites
  <2>4. QED
        BY <1>7, <2>2, <2>3 DEF ExecuteWriteFails, WriteTo
<1>8. ASSUME NEW s, ExecuteControl(s)
      PROVE  last'.op = "control"
      BY <1>8 DEF ExecuteControl, Returns
<1>9. CASE LoseConnection \/ Close
      BY <1>9, SettleUndoes DEF LoseConnection, Close
<1>10. CASE UNCHANGED vars
      BY <1>10 DEF vars, DurableWrites
<1>11. QED
      BY <1>1, <1>2, <1>3, <1>4, <1>5, <1>6, <1>7, <1>8, <1>9, <1>10
      DEF Next, Operation, Buttons, Execute, Closed

(***************************************************************************)
(* While flags and engine agree that a transaction is open, a write waits  *)
(* for somebody to ask for a commit, whichever statements fail meanwhile.  *)
(***************************************************************************)
THEOREM WritesWait == Spec => WritesWaitForCommit
<1>1. TypeOK /\ [Next]_vars =>
        [(in_transaction /\ InTransaction) =>
           \/ DurableWrites' = DurableWrites
           \/ last'.op \in {"commit", "autocommit on", "control"}]_vars
      BY StepHoldsWrites
<1>2. QED
      BY <1>1, TransactionsTyped, PTL DEF Spec, WritesWaitForCommit
=============================================================================
