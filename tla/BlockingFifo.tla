---------------------------- MODULE BlockingFifo ----------------------------
(***************************************************************************)
(* What a closable blocking queue promises, with no lock and no condition  *)
(* variable: items are handed out in the order they were put, each to one  *)
(* taker; a taker leaves only after the queue was closed and drained.      *)
(* The n-th item put is the number n.                                      *)
(***************************************************************************)
EXTENDS Naturals

CONSTANTS Takers,   \* the threads that take items
          MaxItems  \* bound on the number of items ever put

VARIABLES put,      \* number of items put so far
          taken,    \* number of items taken so far
          got,      \* got[t]: the item t took last, 0 before the first
          closed,   \* has the queue been closed?
          active    \* the takers that have not left

vars == <<put, taken, got, closed, active>>

Init == /\ put = 0
        /\ taken = 0
        /\ got = [t \in Takers |-> 0]
        /\ closed = FALSE
        /\ active = Takers

Put == /\ put < MaxItems
       /\ put' = put + 1
       /\ UNCHANGED <<taken, got, closed, active>>

Take(t) == /\ t \in active
           /\ taken < put
           /\ taken' = taken + 1
           /\ got' = [got EXCEPT ![t] = taken + 1]
           /\ UNCHANGED <<put, closed, active>>

Close == /\ ~closed
         /\ closed' = TRUE
         /\ UNCHANGED <<put, taken, got, active>>

Leave(t) == /\ t \in active
            /\ closed
            /\ taken = put
            /\ active' = active \ {t}
            /\ UNCHANGED <<put, taken, got, closed>>

Next == \/ Put
        \/ Close
        \/ \E t \in Takers : Take(t) \/ Leave(t)

(***************************************************************************)
(* Some taker always takes a waiting item, and after Close every taker     *)
(* leaves a queue that stays empty.                                        *)
(***************************************************************************)
Fairness == /\ WF_vars(\E t \in Takers : Take(t))
            /\ \A t \in Takers : WF_vars(Leave(t))

Spec == Init /\ [][Next]_vars /\ Fairness
=============================================================================
