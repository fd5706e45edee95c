-------------------------- MODULE ThreadSafeQueue --------------------------
(***************************************************************************)
(* core/common/ThreadSafeQueue.hpp: a deque under a mutex, and one         *)
(* condition variable that wait_pop sleeps on and push signals AFTER it    *)
(* has released the mutex.  A step is one critical section, or one call on *)
(* the condition variable.                                                 *)
(*                                                                         *)
(* The condition variable (std::condition_variable_any) is external: a     *)
(* thread in its wait set runs again only when it is notified, when the    *)
(* stop token is triggered, or spuriously.                                 *)
(***************************************************************************)
EXTENDS Naturals, Sequences, FiniteSets

CONSTANTS Producers,  \* threads that push
          Consumers,  \* threads that loop on wait_pop with one stop token
          MaxItems    \* bound on the number of pushes

ASSUME QueueAssumption == /\ IsFiniteSet(Producers)
                          /\ IsFiniteSet(Consumers)
                          /\ MaxItems \in Nat

VARIABLES queue,      \* the deque; the n-th item pushed is the number n
          pushes,     \* how many items were pushed
          taken,      \* how many items were popped
          got,        \* got[c]: the item wait_pop returned to c last, or 0
          notifying,  \* producers between the unlock and notify_one
          cpc,        \* what each consumer is doing
          stop        \* was a stop requested on the consumers' token?

vars == <<queue, pushes, taken, got, notifying, cpc, stop>>

(***************************************************************************)
(* "busy": outside wait_pop, or in it and about to test the predicate for  *)
(* the first time; "waiting": asleep in cv_.wait; "woken": awake in        *)
(* cv_.wait, about to retake the mutex and test the predicate; "ended":    *)
(* wait_pop returned nullopt, the consumer's loop is over.                 *)
(***************************************************************************)
ConsumerState == {"busy", "waiting", "woken", "ended"}

Waiting == {c \in Consumers : cpc[c] = "waiting"}
Woken   == {c \in Consumers : cpc[c] = "woken"}

Init == /\ queue = <<>>
        /\ pushes = 0
        /\ taken = 0
        /\ got = [c \in Consumers |-> 0]
        /\ notifying = {}
        /\ cpc = [c \in Consumers |-> "busy"]
        /\ stop = FALSE

\* Mutant: push signals only when the deque was empty.
OwesNotifyIfEmpty(p) == IF queue = <<>> THEN notifying \cup {p} ELSE notifying

\* Every push owes one notify_one, made after the unlock.
OwesNotify(p) == notifying \cup {p}

PushCriticalSection(p) ==
  /\ p \notin notifying
  /\ pushes < MaxItems
  /\ pushes' = pushes + 1
  /\ queue' = Append(queue, pushes + 1)
  /\ notifying' = OwesNotify(p)
  /\ UNCHANGED <<taken, got, cpc, stop>>

PushNotifyOne(p) ==
  /\ p \in notifying
  /\ notifying' = notifying \ {p}
  /\ \/ \E c \in Waiting : cpc' = [cpc EXCEPT ![c] = "woken"]
     \/ Waiting = {} /\ UNCHANGED cpc
  /\ UNCHANGED <<queue, pushes, taken, got, stop>>

\* A consumer holds the mutex and tests the predicate of cv_.wait.
InWaitPop(c) == cpc[c] \in {"busy", "woken"}

Popped == Tail(queue)

WaitPopItem(c) ==
  /\ InWaitPop(c)
  /\ queue # <<>>
  /\ got' = [got EXCEPT ![c] = Head(queue)]
  /\ queue' = Popped
  /\ taken' = taken + 1
  /\ cpc' = [cpc EXCEPT ![c] = "busy"]
  /\ UNCHANGED <<pushes, notifying, stop>>

WaitPopSleep(c) ==
  /\ InWaitPop(c)
  /\ queue = <<>>
  /\ ~stop
  /\ cpc' = [cpc EXCEPT ![c] = "waiting"]
  /\ UNCHANGED <<queue, pushes, taken, got, notifying, stop>>

\* wait_pop gives up only on an empty deque, even when a stop was requested.
MayGiveUp == stop /\ queue = <<>>

WaitPopNullopt(c) ==
  /\ InWaitPop(c)
  /\ MayGiveUp
  /\ cpc' = [cpc EXCEPT ![c] = "ended"]
  /\ UNCHANGED <<queue, pushes, taken, got, notifying, stop>>

WaitPop(c) == WaitPopItem(c) \/ WaitPopSleep(c) \/ WaitPopNullopt(c)

SpuriousWakeup(c) ==
  /\ c \in Waiting
  /\ cpc' = [cpc EXCEPT ![c] = "woken"]
  /\ UNCHANGED <<queue, pushes, taken, got, notifying, stop>>

\* Mutant: cv_.wait without the stop token, so a stop wakes nobody.
WokenWithoutToken == cpc

(***************************************************************************)
(* request_stop on the token: the stop callback cv_.wait installed wakes   *)
(* the whole wait set.                                                     *)
(***************************************************************************)
WokenByStop == [c \in Consumers |-> IF cpc[c] = "waiting" THEN "woken" ELSE cpc[c]]

RequestStop ==
  /\ ~stop
  /\ stop' = TRUE
  /\ cpc' = WokenByStop
  /\ UNCHANGED <<queue, pushes, taken, got, notifying>>

\* Every push was made, every consumer has left: nothing is left to do.
Terminated == /\ pushes = MaxItems
              /\ notifying = {}
              /\ \A c \in Consumers : cpc[c] = "ended"
              /\ UNCHANGED vars

Next == \/ \E p \in Producers : PushCriticalSection(p) \/ PushNotifyOne(p)
        \/ \E c \in Consumers : WaitPop(c) \/ SpuriousWakeup(c)
        \/ RequestStop
        \/ Terminated

(***************************************************************************)
(* A producer that has pushed goes on to notify_one, and a consumer that   *)
(* is not asleep goes on.  Nothing makes a producer push, a stop be        *)
(* requested or a spurious wakeup happen.                                  *)
(***************************************************************************)
Fairness == /\ \A p \in Producers : WF_vars(PushNotifyOne(p))
            /\ \A c \in Consumers : WF_vars(WaitPop(c))

Spec == Init /\ [][Next]_vars /\ Fairness

-----------------------------------------------------------------------------
\* The type invariant; that counters stay in range needs every item popped once.
TypeOK == /\ queue \in Seq(1..MaxItems)
          /\ pushes \in 0..MaxItems
          /\ taken \in 0..MaxItems
          /\ got \in [Consumers -> 0..MaxItems]
          /\ notifying \subseteq Producers
          /\ cpc \in [Consumers -> ConsumerState]
          /\ stop \in BOOLEAN

(***************************************************************************)
(* No wakeup is lost although push signals outside the mutex (line 19) and *)
(* notify_one wakes one thread: while a consumer sleeps, every item in the *)
(* deque is matched by a producer that has still to notify or by a         *)
(* consumer that is already awake inside wait_pop.                         *)
(***************************************************************************)
NoLostWakeup ==
  Waiting = {} \/ Len(queue) <= Cardinality(notifying) + Cardinality(Woken)

\* The n-th item of the deque is the (taken+n)-th item pushed.
FifoOrder == /\ pushes = taken + Len(queue)
             /\ \A i \in 1..Len(queue) : queue[i] = taken + i

(***************************************************************************)
(* The queue implements BlockingFifo: every item goes to exactly one       *)
(* consumer, in push order; a consumer leaves only a stopped and drained   *)
(* queue; and a pushed item is taken as long as a consumer is left.  So    *)
(* stopping drains the queue, it does not discard it.                      *)
(***************************************************************************)
Fifo == INSTANCE BlockingFifo
          WITH Takers <- Consumers, put <- pushes, closed <- stop,
               active <- {c \in Consumers : cpc[c] # "ended"}
ImplementsBlockingFifo == Fifo!Spec
=============================================================================
