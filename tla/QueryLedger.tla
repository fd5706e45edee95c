---------------------------- MODULE QueryLedger ----------------------------
(***************************************************************************)
(* What the query service promises its callers, with no threads: queries   *)
(* are answered once each, in the order they were accepted, and a query is *)
(* answered "cancelled" only when somebody asked to cancel a query of the  *)
(* same database.                                                          *)
(***************************************************************************)
EXTENDS Sequences

CONSTANTS Ids,         \* query identifiers
          Databases,   \* connections a query may be submitted for
          NoDatabase   \* the database of an identifier not accepted yet

VARIABLES waiting,    \* accepted and unanswered queries, oldest first
          target,     \* target[q]: the database of q
          requested,  \* queries whose cancellation was requested
          outcome     \* outcome[q]: the answer of q

vars == <<waiting, target, requested, outcome>>

Answers == {"ok", "error", "cancelled"}

Init == /\ waiting = <<>>
        /\ target = [q \in Ids |-> NoDatabase]
        /\ requested = {}
        /\ outcome = [q \in Ids |-> "none"]

Accept(q, d) ==
  /\ outcome[q] = "none"
  /\ waiting' = Append(waiting, q)
  /\ target' = [target EXCEPT ![q] = d]
  /\ outcome' = [outcome EXCEPT ![q] = "pending"]
  /\ UNCHANGED requested

\* A request may still arrive when the answer is already given.
RequestCancel(q) ==
  /\ outcome[q] # "none"
  /\ requested' = requested \cup {q}
  /\ UNCHANGED <<waiting, target, outcome>>

CancelledFairly(q) == \E p \in requested : target[p] = target[q]

Answer(a) ==
  /\ waiting # <<>>
  /\ a = "cancelled" => CancelledFairly(Head(waiting))
  /\ outcome' = [outcome EXCEPT ![Head(waiting)] = a]
  /\ waiting' = Tail(waiting)
  /\ UNCHANGED <<target, requested>>

Next == \/ \E q \in Ids, d \in Databases : Accept(q, d)
        \/ \E q \in Ids : RequestCancel(q)
        \/ \E a \in Answers : Answer(a)

Spec == Init /\ [][Next]_vars
=============================================================================
