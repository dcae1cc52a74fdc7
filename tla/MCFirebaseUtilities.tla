------------------------ MODULE MCFirebaseUtilities ------------------------
(***************************************************************************)
(* Small instances of FirebaseUtilities for TLC.                           *)
(***************************************************************************)
EXTENDS FirebaseUtilities, TLC

CONSTANTS c1, c2, u1, u2, e1, s1, s2

\* Two people with a device each, and one person with two devices.
TwoPeople == c1 :> u1 @@ c2 :> u2
TwoDevices == c1 :> u1 @@ c2 :> u1

Slots == {s1, s2}
SlotSymmetry == Permutations(Slots)
DeviceSymmetry == Permutations({c1, c2}) \cup SlotSymmetry
=============================================================================
