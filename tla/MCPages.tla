------------------------------- MODULE MCPages -------------------------------
(***************************************************************************)
(* Pages for TLC.                                                          *)
(***************************************************************************)
EXTENDS Pages

CONSTANTS p1, p2, some, none

\* Two places; one text finds both, another nothing.
Lats == [p \in {p1, p2} |-> IF p = p1 THEN 1 ELSE 2]
Lons == [p \in {p1, p2} |-> IF p = p1 THEN 3 ELSE 4]
Found == [t \in {some, none} |-> IF t = some THEN {p1, p2} ELSE {}]

\* Two events; the second comes first by date.
SecondFirst == <<2, 1>>
=============================================================================
