--------------------------- MODULE ExecutionLedger ---------------------------
(***************************************************************************)
(* What Database::execute promises of one request, whichever engine is     *)
(* behind it: its statements take effect, each at most once, in any        *)
(* selection; then the request is answered, once; from then on only a      *)
(* statement that may be read again runs again, for the pages of its       *)
(* result.                                                                 *)
(***************************************************************************)
EXTENDS Naturals, Sequences, SequencesExt, Functions

CONSTANT Rereadable  \* the kinds of statement that may be evaluated again

VARIABLES
  statements,  \* the kinds of the statements of the request
  answer,      \* "none", then the answer
  effects      \* positions of the statements that took effect, in order

vars == <<statements, answer, effects>>

Init == answer = "none" /\ effects = <<>>

\* Some statements, or none, take effect, and possibly the answer is given.
Execute ==
  /\ answer = "none"
  /\ answer' \in {"none", "ok", "error", "cancelled"}
  /\ IsPrefix(effects, effects')
  /\ Range(effects') \subseteq DOMAIN statements
  /\ IsInjective(effects')
  /\ UNCHANGED statements

\* A page of the result of a statement that was evaluated before.
ReadAgain ==
  /\ answer = "ok"
  /\ \E p \in Range(effects) : /\ statements[p] \in Rereadable
                               /\ effects' = Append(effects, p)
  /\ UNCHANGED <<statements, answer>>

Next == Execute \/ ReadAgain

Spec == Init /\ [][Next]_vars
=============================================================================
