--------------------------- MODULE MCWritePipeline ---------------------------
(* Instances of WritePipeline for TLC. *)
EXTENDS WritePipeline

\* Nothing tells one user from another.
Symmetry == Permutations(User)
=============================================================================
