---------------------------- MODULE MCQueryEditor ----------------------------
(***************************************************************************)
(* The editor for TLC: everything that can be typed with up to five atoms  *)
(* (a newline is the only blank, delete the only write), and two texts     *)
(* that are run: one with a line in front that is trimmed; one of two      *)
(* statements, the first with a letter of two bytes, the second a write on *)
(* a line of its own to select.                                            *)
(***************************************************************************)
EXTENDS QueryEditor

MCAlphabet == {"\n", "delete", "where", "select", "x", "trail"} \cup Quotes \cup Marks
MCTexts == {<<"\n", "delete">>, <<"x", "trail", ";", "\n", "delete">>}
=============================================================================
