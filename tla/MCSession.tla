------------------------------ MODULE MCSession ------------------------------
(* Instances of Session for TLC. *)
EXTENDS Session

CONSTANTS a1, a2, s1, s2, s3
=============================================================================
