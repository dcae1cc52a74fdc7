----------------------------- MODULE WriteQueue -----------------------------
(***************************************************************************)
(* What the app relies on when it writes: the writes a user makes reach    *)
(* the backend as that user's, in the order they were made, and each is    *)
(* settled once, after the backend took or refused it. A write may be      *)
(* taken more than once (the answer may have been lost).                   *)
(***************************************************************************)
EXTENDS Naturals

CONSTANT User
VARIABLES
    made,      \* how many writes each user has made; they are numbered
    taken,     \* those the backend has taken as this user's
    refused,   \* those it has refused
    settled    \* how many are off the device's queue

vars == <<made, taken, refused, settled>>

Init ==
    /\ made = [u \in User |-> 0] /\ settled = [u \in User |-> 0]
    /\ taken = [u \in User |-> {}] /\ refused = [u \in User |-> {}]

Make(u) == made' = [made EXCEPT ![u] = @ + 1] /\ UNCHANGED <<taken, refused, settled>>

Judged(u, n) == n <= settled[u] \/ n \in taken[u] \cup refused[u]

\* The backend sees a write after all those before it.
Judge(u, n) ==
    /\ n \in (settled[u] + 1)..made[u] /\ \A k \in 1..(n - 1) : Judged(u, k)
    /\ \/ taken' = [taken EXCEPT ![u] = @ \cup {n}] /\ UNCHANGED refused
       \/ refused' = [refused EXCEPT ![u] = @ \cup {n}] /\ UNCHANGED taken
    /\ UNCHANGED <<made, settled>>

Settle(u) ==
    /\ settled[u] < made[u] /\ Judged(u, settled[u] + 1)
    /\ settled' = [settled EXCEPT ![u] = @ + 1]
    /\ UNCHANGED <<made, taken, refused>>

Next == \E u \in User : Make(u) \/ Settle(u) \/ \E n \in 1..made[u] : Judge(u, n)

Spec == Init /\ [][Next]_vars
=============================================================================
