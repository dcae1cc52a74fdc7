------------------------------ MODULE EventDocs ------------------------------
(***************************************************************************)
(* The documents of the events collection and the requests people make     *)
(* about them: the vocabulary shared by what is promised (EventBoard) and  *)
(* what the code does (FirebaseUtilities).                                 *)
(***************************************************************************)
CONSTANTS User,      \* Firebase uids of the people using the app
          Event,     \* event ids (UUIDs)
          NoUser,    \* the empty uid "" of a UserData not filled in yet
          Columbia   \* the users whose e-mail ends in @columbia.edu

ASSUME DocsAssumption == NoUser \notin User /\ Columbia \subseteq User

UserId == User \cup {NoUser}

\* The document of an event: who owns it and the users its attendees array
\* refers to. arrayUnion keeps that array free of duplicates, so it is a set.
\* "deleted" is a tombstone, kept only to say that the event existed before:
\* to a read it is as absent as "unborn", and its ownerID reads as "".
Doc == [state : {"unborn", "live", "deleted"},
        ownerID : UserId, attendees : SUBSET UserId]

Unborn == [state |-> "unborn", ownerID |-> NoUser, attendees |-> {}]
Deleted == [state |-> "deleted", ownerID |-> NoUser, attendees |-> {}]
NewEvent(u) == [state |-> "live", ownerID |-> u, attendees |-> {}]

IsLive(doc) == doc.state = "live"

\* What a person can ask for: op on an event, under the uid the app shows.
Request == [op : {"create", "join", "leave", "delete"},
            uid : UserId, event : Event]

Ask(op, u, e) == [op |-> op, uid |-> u, event |-> e]
=============================================================================
