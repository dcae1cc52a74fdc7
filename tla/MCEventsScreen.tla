--------------------------- MODULE MCEventsScreen ---------------------------
(* Instances of EventsScreen for TLC. *)
EXTENDS EventsScreen, TLC

CONSTANTS e1, e2, f1, f2, s1, s2

\* Two events on two days, or on one.
TwoDays == e1 :> 1 @@ e2 :> 2
OneDay == e1 :> 1 @@ e2 :> 1

CallSymmetry == Permutations({f1, f2}) \cup Permutations({s1, s2})
=============================================================================
