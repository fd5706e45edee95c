----------------------- MODULE ThreadSafeQueue_proofs -----------------------
(***************************************************************************)
(* Proofs about ThreadSafeQueue, for any finite sets of producers and      *)
(* consumers and any number of pushes: its type invariant, that the deque  *)
(* holds the pushed items in order, that no wakeup is lost, and that every *)
(* step is a step of BlockingFifo.                                         *)
(***************************************************************************)
EXTENDS ThreadSafeQueue, FiniteSetTheorems, TLAPS

(***************************************************************************)
(* The counters are bounded because the deque lies between them, so the    *)
(* type invariant needs the contents of the deque to be inductive.         *)
(***************************************************************************)
QueueInv == TypeOK /\ FifoOrder

\* What Append and Tail do to a sequence, element by element.
LEMMA AppendElements ==
  ASSUME NEW S, NEW s \in Seq(S), NEW e \in S
  PROVE  /\ Append(s, e) \in Seq(S)
         /\ Len(Append(s, e)) = Len(s) + 1
         /\ \A i \in 1..Len(s) : Append(s, e)[i] = s[i]
         /\ Append(s, e)[Len(s) + 1] = e
  OBVIOUS

LEMMA TailElements ==
  ASSUME NEW S, NEW s \in Seq(S), s # <<>>
  PROVE  /\ Tail(s) \in Seq(S)
         /\ Len(s) \in Nat \ {0}
         /\ Len(Tail(s)) = Len(s) - 1
         /\ \A i \in 1..Len(Tail(s)) : Tail(s)[i] = s[i + 1]
         /\ Head(s) = s[1]
         /\ Head(s) \in S
  OBVIOUS

LEMMA QueueInvInductive == QueueInv /\ [Next]_vars => QueueInv'
<1> SUFFICES ASSUME QueueInv, [Next]_vars
             PROVE  QueueInv'
    OBVIOUS
<1> USE QueueAssumption
<1>len. Len(queue) \in Nat
    BY DEF QueueInv, TypeOK
<1>1. ASSUME NEW p \in Producers, PushCriticalSection(p)
      PROVE  QueueInv'
  <2>1. pushes + 1 \in 1..MaxItems
        BY <1>1 DEF PushCriticalSection, QueueInv, TypeOK
  <2>2. /\ queue' \in Seq(1..MaxItems)
        /\ Len(queue') = Len(queue) + 1
        /\ \A i \in 1..Len(queue) : queue'[i] = queue[i]
        /\ queue'[Len(queue) + 1] = pushes + 1
        BY <1>1, <2>1, AppendElements DEF PushCriticalSection, QueueInv, TypeOK
  <2>3. TypeOK'
        BY <1>1, <2>1, <2>2 DEF PushCriticalSection, OwesNotify, QueueInv, TypeOK
  <2>4. pushes' = taken' + Len(queue')
        BY <1>1, <1>len, <2>2 DEF PushCriticalSection, QueueInv, TypeOK, FifoOrder
  <2>5. ASSUME NEW i \in 1..Len(queue')
        PROVE  queue'[i] = taken' + i
    <3>1. CASE i = Len(queue) + 1
          BY <1>1, <1>len, <2>2, <3>1 DEF PushCriticalSection, QueueInv, TypeOK, FifoOrder
    <3>2. CASE i # Len(queue) + 1
      <4>1. i \in 1..Len(queue)
            BY <1>len, <2>2, <3>2
      <4>2. QED
            BY <1>1, <2>2, <4>1 DEF PushCriticalSection, QueueInv, FifoOrder
    <3>3. QED
          BY <3>1, <3>2
  <2>6. QED
        BY <2>3, <2>4, <2>5 DEF QueueInv, FifoOrder
<1>2. ASSUME NEW p \in Producers, PushNotifyOne(p)
      PROVE  QueueInv'
      BY <1>2 DEF PushNotifyOne, Waiting, QueueInv, TypeOK, FifoOrder, ConsumerState
<1>3. ASSUME NEW c \in Consumers, WaitPopItem(c)
      PROVE  QueueInv'
  <2>1. /\ queue' \in Seq(1..MaxItems)
        /\ Len(queue) \in Nat \ {0}
        /\ Len(queue') = Len(queue) - 1
        /\ \A i \in 1..Len(queue') : queue'[i] = queue[i + 1]
        /\ Head(queue) \in 1..MaxItems
        BY <1>3, TailElements DEF WaitPopItem, Popped, QueueInv, TypeOK
  <2>2. taken + 1 \in 0..MaxItems
        BY <2>1 DEF QueueInv, TypeOK, FifoOrder
  <2>3. TypeOK'
        BY <1>3, <2>1, <2>2 DEF WaitPopItem, QueueInv, TypeOK, ConsumerState
  <2>4. pushes' = taken' + Len(queue')
        BY <1>3, <2>1 DEF WaitPopItem, QueueInv, TypeOK, FifoOrder
  <2>5. ASSUME NEW i \in 1..Len(queue')
        PROVE  queue'[i] = taken' + i
    <3>1. i + 1 \in 1..Len(queue) /\ i \in Nat
          BY <2>1
    <3>2. queue[i + 1] = taken + (i + 1)
          BY <3>1 DEF QueueInv, FifoOrder
    <3>3. QED
          BY <1>3, <2>1, <3>1, <3>2 DEF WaitPopItem, QueueInv, TypeOK
  <2>6. QED
        BY <2>3, <2>4, <2>5 DEF QueueInv, FifoOrder
<1>4. ASSUME NEW c \in Consumers, WaitPopSleep(c)
      PROVE  QueueInv'
      BY <1>4 DEF WaitPopSleep, QueueInv, TypeOK, FifoOrder, ConsumerState
<1>5. ASSUME NEW c \in Consumers, WaitPopNullopt(c)
      PROVE  QueueInv'
      BY <1>5 DEF WaitPopNullopt, QueueInv, TypeOK, FifoOrder, ConsumerState
<1>6. ASSUME NEW c \in Consumers, SpuriousWakeup(c)
      PROVE  QueueInv'
      BY <1>6 DEF SpuriousWakeup, QueueInv, TypeOK, FifoOrder, ConsumerState
<1>7. CASE RequestStop
      BY <1>7 DEF RequestStop, WokenByStop, QueueInv, TypeOK, FifoOrder, ConsumerState
<1>8. CASE Terminated \/ UNCHANGED vars
      BY <1>8 DEF Terminated, vars, QueueInv, TypeOK, FifoOrder
<1>9. QED
      BY <1>1, <1>2, <1>3, <1>4, <1>5, <1>6, <1>7, <1>8 DEF Next, WaitPop

LEMMA QueueInvInit == Init => QueueInv
<1>1. <<>> \in Seq(1..MaxItems) /\ Len(<<>>) = 0 /\ 1..0 = {}
      OBVIOUS
<1>0. 0 \in 0..MaxItems
      BY QueueAssumption
<1>2. Init => TypeOK
      BY <1>0, <1>1 DEF Init, TypeOK, ConsumerState
<1>3. Init => FifoOrder
      BY <1>1 DEF Init, FifoOrder
<1>4. QED
      BY <1>2, <1>3 DEF QueueInv

(***************************************************************************)
(* The variables of the queue always have their types, and the deque       *)
(* always holds exactly the pushed and not yet popped items, in order.     *)
(***************************************************************************)
THEOREM QueueTyped == Spec => [](TypeOK /\ FifoOrder)
<1>1. Spec => []QueueInv
      BY QueueInvInit, QueueInvInductive, PTL DEF Spec
<1>2. QED
      BY <1>1, PTL DEF QueueInv

-----------------------------------------------------------------------------
\* The awake waiters and the owed notifications are finite, and so countable.
Countable == /\ IsFiniteSet(Woken)
             /\ IsFiniteSet(notifying)
             /\ Cardinality(Woken) \in Nat
             /\ Cardinality(notifying) \in Nat
             /\ Len(queue) \in Nat

LEMMA FiniteWaiters == TypeOK => Countable
<1> SUFFICES ASSUME TypeOK
             PROVE  Countable
    OBVIOUS
<1>1. Woken \in SUBSET Consumers /\ notifying \in SUBSET Producers
      BY DEF Woken, TypeOK
<1>2. IsFiniteSet(Woken) /\ IsFiniteSet(notifying)
      BY <1>1, QueueAssumption, FS_Subset
<1>3. QED
      BY <1>2, FS_CardinalityType DEF TypeOK, Countable

(***************************************************************************)
(* NoLostWakeup is inductive relative to the type invariant: push adds an  *)
(* item and an owed notification; notify_one moves one sleeper to the      *)
(* awake ones; an awake consumer that pops takes an item with it, and one  *)
(* that goes back to sleep does so on an empty deque.                      *)
(***************************************************************************)
LEMMA NoLostWakeupInductive ==
  QueueInv /\ QueueInv' /\ NoLostWakeup /\ [Next]_vars => NoLostWakeup'
<1> SUFFICES ASSUME QueueInv, QueueInv', NoLostWakeup, [Next]_vars
             PROVE  NoLostWakeup'
    OBVIOUS
<1> DEFINE N == Cardinality(notifying)
           W == Cardinality(Woken)
<1>f. Countable
      BY FiniteWaiters DEF QueueInv
<1>g. Countable'
  <2>1. (TypeOK => Countable)'
        BY FiniteWaiters, PTL
  <2>2. QED
        BY <2>1 DEF QueueInv
<1>n. /\ N \in Nat /\ W \in Nat /\ Len(queue) \in Nat
      /\ N' \in Nat /\ W' \in Nat /\ Len(queue') \in Nat
      BY <1>f, <1>g DEF Countable
<1>h. Waiting = {} \/ Len(queue) <= N + W
      BY DEF NoLostWakeup
<1>s. SUFFICES Waiting' = {} \/ Len(queue') <= N' + W'
      BY DEF NoLostWakeup
<1>same. ASSUME cpc' = cpc
         PROVE  Waiting' = Waiting /\ Woken' = Woken /\ W' = W
         BY <1>same DEF Waiting, Woken
<1>1. ASSUME NEW p \in Producers, PushCriticalSection(p)
      PROVE  Waiting' = {} \/ Len(queue') <= N' + W'
  <2>1. N' = N + 1
        BY <1>1, <1>f, FS_AddElement DEF PushCriticalSection, OwesNotify, Countable
  <2>2. Len(queue') = Len(queue) + 1
        BY <1>1, AppendElements DEF PushCriticalSection, QueueInv, TypeOK
  <2>3. Waiting' = Waiting /\ W' = W
        BY <1>1, <1>same DEF PushCriticalSection
  <2> HIDE DEF N, W
  <2>4. QED
        BY <1>h, <1>n, <2>1, <2>2, <2>3
<1>2. ASSUME NEW p \in Producers, PushNotifyOne(p)
      PROVE  Waiting' = {} \/ Len(queue') <= N' + W'
  <2>1. N' = N - 1
        BY <1>2, <1>f, FS_RemoveElement DEF PushNotifyOne, Countable
  <2>2. queue' = queue
        BY <1>2 DEF PushNotifyOne
  <2>3. CASE Waiting = {} /\ UNCHANGED cpc
        BY <1>same, <2>3
  <2>4. ASSUME NEW c \in Waiting, cpc' = [cpc EXCEPT ![c] = "woken"]
        PROVE  Waiting' = {} \/ Len(queue') <= N' + W'
    <3>1. Woken' = Woken \cup {c} /\ c \notin Woken
          BY <2>4 DEF Waiting, Woken, QueueInv, TypeOK
    <3>2. W' = W + 1
          BY <3>1, <1>f, FS_AddElement DEF Countable
    <3> HIDE DEF N, W
    <3>3. Waiting # {}
          BY <2>4
    <3>4. QED
          BY <1>h, <1>n, <2>1, <2>2, <3>2, <3>3
  <2>5. QED
        BY <1>2, <2>3, <2>4 DEF PushNotifyOne
<1>3. ASSUME NEW c \in Consumers, WaitPopItem(c)
      PROVE  Waiting' = {} \/ Len(queue') <= N' + W'
  <2>1. Len(queue') = Len(queue) - 1
        BY <1>3, TailElements DEF WaitPopItem, Popped, QueueInv, TypeOK
  <2>2. N' = N
        BY <1>3 DEF WaitPopItem
  <2>3. Waiting' = Waiting /\ Woken' = Woken \ {c}
        BY <1>3 DEF WaitPopItem, InWaitPop, Waiting, Woken, QueueInv, TypeOK
  <2>4. W' = IF c \in Woken THEN W - 1 ELSE W
        BY <1>f, <2>3, FS_RemoveElement DEF Countable
  <2> HIDE DEF N, W
  <2>5. QED
        BY <1>h, <1>n, <2>1, <2>2, <2>3, <2>4
<1>4. ASSUME NEW c \in Consumers, WaitPopSleep(c)
      PROVE  Waiting' = {} \/ Len(queue') <= N' + W'
  <2>1. Len(queue') = 0
        BY <1>4 DEF WaitPopSleep
  <2>2. 0 <= N' + W'
        BY <1>n
  <2>3. QED
        BY <2>1, <2>2
<1>5. ASSUME NEW c \in Consumers, WaitPopNullopt(c)
      PROVE  Waiting' = {} \/ Len(queue') <= N' + W'
  <2>1. Len(queue') = 0
        BY <1>5 DEF WaitPopNullopt, MayGiveUp
  <2>2. 0 <= N' + W'
        BY <1>n
  <2>3. QED
        BY <2>1, <2>2
<1>6. ASSUME NEW c \in Consumers, SpuriousWakeup(c)
      PROVE  Waiting' = {} \/ Len(queue') <= N' + W'
  <2>1. Woken' = Woken \cup {c} /\ c \notin Woken
        BY <1>6 DEF SpuriousWakeup, Waiting, Woken, QueueInv, TypeOK
  <2>2. W' = W + 1
        BY <2>1, <1>f, FS_AddElement DEF Countable
  <2>3. N' = N /\ queue' = queue /\ Waiting # {}
        BY <1>6 DEF SpuriousWakeup
  <2> HIDE DEF N, W
  <2>4. QED
        BY <1>h, <1>n, <2>2, <2>3
<1>7. CASE RequestStop
  <2>1. Waiting' = {}
        BY <1>7 DEF RequestStop, WokenByStop, Waiting
  <2>2. QED
        BY <2>1
<1>8. CASE Terminated \/ UNCHANGED vars
      BY <1>8, <1>h, <1>same DEF Terminated, vars
<1>9. QED
      BY <1>1, <1>2, <1>3, <1>4, <1>5, <1>6, <1>7, <1>8 DEF Next, WaitPop

(***************************************************************************)
(* No wakeup is ever lost, for any number of producers and consumers.      *)
(***************************************************************************)
THEOREM QueueLosesNoWakeup == Spec => []NoLostWakeup
<1>1. Spec => []QueueInv
      BY QueueInvInit, QueueInvInductive, PTL DEF Spec
<1>2. Init => NoLostWakeup
      BY DEF Init, NoLostWakeup, Waiting
<1>3. QED
      BY <1>1, <1>2, NoLostWakeupInductive, PTL DEF Spec

-----------------------------------------------------------------------------
(***************************************************************************)
(* Every behaviour of the queue is, step by step, a behaviour of the       *)
(* abstract FIFO: its initial states are, and each step is a step of       *)
(* BlockingFifo or leaves its variables unchanged.                         *)
(***************************************************************************)
THEOREM QueueStepsAreFifoSteps == Spec => Fifo!Init /\ [][Fifo!Next]_(Fifo!vars)
<1>1. Init => Fifo!Init
      BY DEF Init, Fifo!Init
<1>2. QueueInv /\ [Next]_vars => [Fifo!Next]_(Fifo!vars)
  <2> SUFFICES ASSUME QueueInv, [Next]_vars
               PROVE  [Fifo!Next]_(Fifo!vars)
      OBVIOUS
  <2> DEFINE Left == {c \in Consumers : cpc[c] # "ended"}
  <2>1. ASSUME NEW p \in Producers, PushCriticalSection(p)
        PROVE  Fifo!Put
        BY <2>1 DEF PushCriticalSection, Fifo!Put
  <2>2. ASSUME NEW p \in Producers, PushNotifyOne(p)
        PROVE  UNCHANGED Fifo!vars
    <3>1. Left' = Left
          BY <2>2 DEF PushNotifyOne, Waiting, QueueInv, TypeOK
    <3>2. QED
          BY <2>2, <3>1 DEF PushNotifyOne, Fifo!vars
  <2>3. ASSUME NEW c \in Consumers, WaitPopItem(c)
        PROVE  Fifo!Take(c)
    <3>1. Left' = Left /\ c \in Left
          BY <2>3 DEF WaitPopItem, InWaitPop, QueueInv, TypeOK
    <3>2. Len(queue) \in Nat \ {0} /\ Head(queue) = queue[1]
          BY <2>3, TailElements DEF WaitPopItem, QueueInv, TypeOK
    <3>3. Head(queue) = taken + 1 /\ taken < pushes
          BY <3>2 DEF QueueInv, FifoOrder, TypeOK
    <3>4. QED
          BY <2>3, <3>1, <3>3 DEF WaitPopItem, Fifo!Take
  <2>4. ASSUME NEW c \in Consumers, WaitPopSleep(c) \/ SpuriousWakeup(c)
        PROVE  UNCHANGED Fifo!vars
    <3>1. Left' = Left
          BY <2>4 DEF WaitPopSleep, SpuriousWakeup, InWaitPop, Waiting, QueueInv, TypeOK
    <3>2. QED
          BY <2>4, <3>1 DEF WaitPopSleep, SpuriousWakeup, Fifo!vars
  <2>5. ASSUME NEW c \in Consumers, WaitPopNullopt(c)
        PROVE  Fifo!Leave(c)
    <3>1. Left' = Left \ {c} /\ c \in Left
          BY <2>5 DEF WaitPopNullopt, InWaitPop, QueueInv, TypeOK
    <3>2. taken = pushes
          BY <2>5 DEF WaitPopNullopt, MayGiveUp, QueueInv, FifoOrder, TypeOK
    <3>3. QED
          BY <2>5, <3>1, <3>2 DEF WaitPopNullopt, MayGiveUp, Fifo!Leave
  <2>6. ASSUME RequestStop
        PROVE  Fifo!Close
    <3>1. Left' = Left
          BY <2>6 DEF RequestStop, WokenByStop
    <3>2. QED
          BY <2>6, <3>1 DEF RequestStop, Fifo!Close
  <2>7. CASE Terminated \/ UNCHANGED vars
        BY <2>7 DEF Terminated, vars, Fifo!vars
  <2>8. QED
        BY <2>1, <2>2, <2>3, <2>4, <2>5, <2>6, <2>7
        DEF Next, WaitPop, Fifo!Next
<1>3. QED
      BY <1>1, <1>2, QueueInvInit, QueueInvInductive, PTL DEF Spec
=============================================================================
