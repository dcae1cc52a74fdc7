------------------------------ MODULE OneAnswer ------------------------------
(***************************************************************************)
(* What a caller of an asynchronous call with a completion relies on: the  *)
(* completion is called, and called once.                                  *)
(***************************************************************************)
CONSTANT Answer          \* what it may be called with
VARIABLE answers         \* what it was called with so far

Init == answers = <<>>

Complete == answers = <<>> /\ \E a \in Answer : answers' = <<a>>

\* Asked, it answers in the end.
Spec == Init /\ [][Complete]_answers /\ WF_answers(Complete)
=============================================================================
