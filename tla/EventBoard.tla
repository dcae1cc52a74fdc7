----------------------------- MODULE EventBoard -----------------------------
(***************************************************************************)
(* What CubHub promises about its two Firestore collections, users and     *)
(* events, once the network, the callback chains and the write queues are  *)
(* forgotten: every change is one step, is made only because the right     *)
(* user asked for it, and a deleted event stays deleted.                   *)
(***************************************************************************)
EXTENDS EventDocs

VARIABLES users,     \* uids that have a document in the users collection
          events,    \* the document of every event
          asked      \* history: the requests made so far

boardVars == <<users, events, asked>>

BoardInit ==
    /\ users \in SUBSET Columbia
    /\ events = [e \in Event |-> Unborn]
    /\ asked = {}

MakeRequest ==
    /\ \E r \in Request : asked' = asked \cup {r}
    /\ UNCHANGED <<users, events>>

\* Only people of the Columbia domain get an account, and none loses it.
Register ==
    /\ \E u \in Columbia : users' = users \cup {u}
    /\ UNCHANGED <<events, asked>>

\* An id is used for one event only, by the user who asked for that event.
Create(e) ==
    /\ events[e] = Unborn
    /\ \E u \in UserId : /\ Ask("create", u, e) \in asked
                         /\ events' = [events EXCEPT ![e] = NewEvent(u)]
    /\ UNCHANGED <<users, asked>>

\* Nobody attends without an account, nor without having asked to.
Join(e) ==
    /\ IsLive(events[e])
    /\ \E u \in users :
          /\ asked \cap {Ask("join", u, e), Ask("create", u, e)} # {}
          /\ events' = [events EXCEPT ![e].attendees = @ \cup {u}]
    /\ UNCHANGED <<users, asked>>

Leave(e) ==
    /\ IsLive(events[e])
    /\ \E u \in User :
          /\ Ask("leave", u, e) \in asked
          /\ events' = [events EXCEPT ![e].attendees = @ \ {u}]
    /\ UNCHANGED <<users, asked>>

\* Only a request made under the owner's uid deletes an event.
Delete(e) ==
    /\ IsLive(events[e])
    /\ Ask("delete", events[e].ownerID, e) \in asked
    /\ events' = [events EXCEPT ![e] = Deleted]
    /\ UNCHANGED <<users, asked>>

BoardNext ==
    \/ MakeRequest
    \/ Register
    \/ \E e \in Event : Create(e) \/ Join(e) \/ Leave(e) \/ Delete(e)

BoardSpec == BoardInit /\ [][BoardNext]_boardVars

-----------------------------------------------------------------------------
(* The same board, if a write may be applied once more before its answer    *)
(* arrives.                                                                 *)

\* The document of an event is set again: it loses its attendees, or comes
\* back although its owner had it deleted. It stays its owner's.
SetAgain(e) ==
    /\ events[e].state # "unborn"
    /\ \E u \in UserId :
          /\ Ask("create", u, e) \in asked
          /\ IsLive(events[e]) => events[e].ownerID = u
          /\ ~IsLive(events[e]) => Ask("delete", u, e) \in asked
          /\ events' = [events EXCEPT ![e] = NewEvent(u)]
    /\ UNCHANGED <<users, asked>>

RepeatingNext == BoardNext \/ \E e \in Event : SetAgain(e)

RepeatingSpec == BoardInit /\ [][RepeatingNext]_boardVars
=============================================================================
