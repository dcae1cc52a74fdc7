-------------------------- MODULE FirebaseUtilities --------------------------
(***************************************************************************)
(* Accounts, events and attendance as the app changes them: the callback   *)
(* chains of FirebaseUtilities (SQLDatabaseManager.swift), the screens     *)
(* that start them, and the Firestore client they run on.                  *)
(*                                                                         *)
(* A client is one installation of the app with one Firebase user; a user  *)
(* may have several. A write does not go to the server when it is made: it *)
(* joins a queue, kept on the device across restarts, which is pipelined   *)
(* to the server: the server handles the writes in order and may be ahead  *)
(* of the answers the client has seen. A read shows the server's           *)
(* documents with the client's own queue laid over them. Callbacks live in *)
(* memory and are lost when the app is killed.                             *)
(***************************************************************************)
EXTENDS EventDocs, Naturals, Sequences

CONSTANTS Client,
          UserOf,      \* the Firebase user of each client
          Slot,        \* callback chains a client may have in flight
          MayFail,     \* "read" and the kinds of write the backend may refuse
          Redelivery,  \* may a write whose answer was lost be applied again?
          MaxQueue,    \* bound: writes waiting on a client
          MaxTaps,     \* bound: requests made in the UI
          MaxCrashes   \* bound: times an app is killed

WriteKind == {"user", "event", "union", "remove", "delete"}

ASSUME ClientAssumption ==
    /\ UserOf \in [Client -> User]
    /\ MayFail \subseteq WriteKind \cup {"read"}
    /\ Redelivery \in BOOLEAN
    /\ MaxQueue \in Nat /\ MaxTaps \in Nat /\ MaxCrashes \in Nat

VARIABLES
    users,     \* server: uids with a document in the users collection
    events,    \* server: the document of every event
    queue,     \* per client: mutation queue, oldest write first
    answers,   \* per client: the server's answers on their way, for as many
               \* writes from the head of the queue on
    calls,     \* per client and slot: a callback chain in flight
    loggedIn,  \* per client: LoginState.isLoggedIn
    uid,       \* per client: userData.uid
    asked,     \* history: the requests made so far
    taps, crashes

serverVars == <<users, events>>
clientVars == <<queue, answers, calls, loggedIn, uid>>
vars == <<serverVars, clientVars, asked, taps, crashes>>

-----------------------------------------------------------------------------
(* The data of the client *)

\* A write of a user's document, or one of the four writes to an event's.
Mutation == [kind : {"user"}, uid : User]
            \cup [kind : WriteKind \ {"user"}, event : Event, uid : UserId]

NewUser(u) == [kind |-> "user", uid |-> u]
Write(k, e, u) == [kind |-> k, event |-> e, uid |-> u]

\* A chain: the function it belongs to, the answer or step it waits for, and
\* the arguments its closures captured.
Call == [op : {"addUser"}, at : {"user", "write"}]
        \cup [op : {"addEvent"}, at : {"ack"}, event : Event, uid : UserId]
        \cup [op : {"addAttendee"}, at : {"user", "event", "write"},
              event : Event, uid : User]
        \cup [op : {"deleteEvent"}, at : {"event", "write"},
              event : Event, uid : UserId]

NoCall == [op |-> "none"]

EventCall(op, at, e, u) == [op |-> op, at |-> at, event |-> e, uid |-> u]

TypeOK ==
    /\ users \in SUBSET User
    /\ events \in [Event -> Doc]
    /\ queue \in [Client -> Seq(Mutation)]
    /\ answers \in [Client -> Seq({"ok", "error"})]
    /\ \A c \in Client : Len(answers[c]) <= Len(queue[c])
    /\ calls \in [Client -> [Slot -> Call \cup {NoCall}]]
    /\ loggedIn \in [Client -> BOOLEAN]
    /\ uid \in [Client -> UserId]
    /\ asked \in SUBSET Request
    /\ taps \in 0..MaxTaps /\ crashes \in 0..MaxCrashes

-----------------------------------------------------------------------------
(* Reads: the server's documents under the client's pending writes *)

Pending(c, k, e) ==
    \E i \in DOMAIN queue[c] : queue[c][i].kind = k /\ queue[c][i].event = e

\* DocumentSnapshot.exists of users/u, as client c sees it.
UserExists(c, u) ==
    u \in users \/ \E i \in DOMAIN queue[c] : queue[c][i] = NewUser(u)

\* DocumentSnapshot.exists of events/e: this app sets a document only when it
\* creates the event, so no pending set follows a pending delete.
EventExists(c, e) ==
    /\ IsLive(events[e]) \/ Pending(c, "event", e)
    /\ ~Pending(c, "delete", e)

\* Mutant: anyone passes for the owner.
OwnerIsUnchecked(c, e, u) == TRUE

\* data?["ownerID"] ?? "" of events/e equals u.
OwnerIs(c, e, u) ==
    \/ ~EventExists(c, e) /\ u = NoUser
    \/ EventExists(c, e) /\ \E i \in DOMAIN queue[c] : queue[c][i] = Write("event", e, u)
    \/ EventExists(c, e) /\ ~Pending(c, "event", e) /\ events[e].ownerID = u

\* Mutant: a pending union counts, a pending remove does not.
SeenAttendingNoRemove(c, e, u) ==
    \/ \E i \in DOMAIN queue[c] : queue[c][i] = Write("union", e, u)
    \/ u \in events[e].attendees /\ ~Pending(c, "event", e)

\* Is users/u in the attendees of events/e: the last pending union or remove
\* decides, and without one the document below.
SeenAttending(c, e, u) ==
    LET LastTouch(k) == \E i \in DOMAIN queue[c] :
                           /\ queue[c][i] = Write(k, e, u)
                           /\ \A j \in DOMAIN queue[c] :
                                 queue[c][j] \in {Write("union", e, u), Write("remove", e, u)}
                                    => j <= i
    IN  \/ LastTouch("union")
        \/ /\ ~LastTouch("remove")
           /\ u \in events[e].attendees
           /\ ~Pending(c, "event", e)

\* An event some fetch has shown to this client. Its row may outlive it.
Listed(c, e) == events[e].state # "unborn" \/ Pending(c, "event", e)

\* getDocument may end in an error; the code then sees a nil document.
ReadFails == "read" \in MayFail

-----------------------------------------------------------------------------
(* Steps every handler is made of *)

Init ==
    /\ users \in SUBSET Columbia
    /\ events = [e \in Event |-> Unborn]
    /\ queue = [c \in Client |-> <<>>]
    /\ answers = [c \in Client |-> <<>>]
    /\ calls = [c \in Client |-> [s \in Slot |-> NoCall]]
    /\ loggedIn = [c \in Client |-> FALSE]
    /\ uid = [c \in Client |-> NoUser]
    /\ asked = {}
    /\ taps = 0 /\ crashes = 0

\* The chain in a slot becomes call.
SetCall(c, s, call) == calls' = [calls EXCEPT ![c][s] = call]

StartCall(c, call) ==
    \E s \in Slot : calls[c][s] = NoCall /\ SetCall(c, s, call)

At(c, s, op, at) == calls[c][s].op = op /\ calls[c][s].at = at

\* The chain moves on to its next step, or ends.
Continue(c, s, at) == SetCall(c, s, [calls[c][s] EXCEPT !.at = at])
End(c, s) == SetCall(c, s, NoCall)

Enqueue(c, m) ==
    /\ Len(queue[c]) < MaxQueue
    /\ queue' = [queue EXCEPT ![c] = Append(@, m)]

\* A request made in the UI under the uid the app has at that moment.
Tap(c, op, e) ==
    /\ loggedIn[c]
    /\ taps < MaxTaps
    /\ taps' = taps + 1
    /\ asked' = asked \cup {Ask(op, uid[c], e)}

-----------------------------------------------------------------------------
(* Signing in *)

\* ContentView.handleSignInButton: the tabs open at once, the profile is asked
\* for, and addUsertoFirestore starts for a Columbia address.
SignIn(c) ==
    /\ ~loggedIn[c]
    /\ loggedIn' = [loggedIn EXCEPT ![c] = TRUE]
    /\ IF UserOf[c] \in Columbia
       THEN StartCall(c, [op |-> "addUser", at |-> "user"])
       ELSE UNCHANGED calls
    /\ UNCHANGED <<serverVars, queue, answers, uid, asked, taps, crashes>>

\* MyPageView.logout: userData stays filled in, and what is in flight goes on.
Logout(c) ==
    /\ loggedIn[c]
    /\ taps < MaxTaps
    /\ taps' = taps + 1
    /\ loggedIn' = [loggedIn EXCEPT ![c] = FALSE]
    /\ UNCHANGED <<serverVars, queue, answers, calls, uid, asked, crashes>>

\* The answer of retrieveUserFromFirestore: a profile either way, with the uid.
UserDataArrives(c) ==
    /\ loggedIn[c] /\ uid[c] = NoUser
    /\ uid' = [uid EXCEPT ![c] = UserOf[c]]
    /\ UNCHANGED <<serverVars, queue, answers, calls, loggedIn, asked, taps, crashes>>

\* Mutant: only an account that exists is written.
AddUserReadInverted(c, s) ==
    /\ At(c, s, "addUser", "user")
    /\ \/ ~UserExists(c, UserOf[c]) /\ End(c, s)
       \/ UserExists(c, UserOf[c]) /\ Continue(c, s, "write")
    /\ UNCHANGED <<serverVars, queue, answers, loggedIn, uid, asked, taps, crashes>>

\* addUsertoFirestore, the existence check: a failed read counts as absent.
AddUserRead(c, s) ==
    /\ At(c, s, "addUser", "user")
    /\ \/ UserExists(c, UserOf[c]) /\ End(c, s)
       \/ (ReadFails \/ ~UserExists(c, UserOf[c])) /\ Continue(c, s, "write")
    /\ UNCHANGED <<serverVars, queue, answers, loggedIn, uid, asked, taps, crashes>>

AddUserWrite(c, s) ==
    /\ At(c, s, "addUser", "write")
    /\ Enqueue(c, NewUser(UserOf[c]))
    /\ End(c, s)
    /\ UNCHANGED <<serverVars, answers, loggedIn, uid, asked, taps, crashes>>

-----------------------------------------------------------------------------
(* Creating an event *)

\* AddEventView's Done button and addEventToFirestore: a fresh UUID, owned by
\* userData.uid, written with no attendees; the chain waits for the answer.
AddEvent(c, e) ==
    /\ \A u \in UserId : Ask("create", u, e) \notin asked
    /\ Tap(c, "create", e)
    /\ Enqueue(c, Write("event", e, uid[c]))
    /\ StartCall(c, EventCall("addEvent", "ack", e, uid[c]))
    /\ UNCHANGED <<serverVars, answers, loggedIn, uid, crashes>>

-----------------------------------------------------------------------------
(* Attending *)

\* EventView's Add button, always shown because the rows carry no attendees;
\* addAttendeeToEvent gives up at once on an empty uid.
TapAdd(c, e) ==
    /\ Listed(c, e)
    /\ uid[c] # NoUser
    /\ Tap(c, "join", e)
    /\ StartCall(c, EventCall("addAttendee", "user", e, uid[c]))
    /\ UNCHANGED <<serverVars, queue, answers, loggedIn, uid, crashes>>

\* Mutant: the account is read but not required.
AttendeeUserReadUnchecked(c, s) ==
    /\ At(c, s, "addAttendee", "user")
    /\ Continue(c, s, "event")
    /\ UNCHANGED <<serverVars, queue, answers, loggedIn, uid, asked, taps, crashes>>

\* Its read of the user: no document (or an error) ends the chain.
AttendeeUserRead(c, s) ==
    /\ At(c, s, "addAttendee", "user")
    /\ \/ UserExists(c, calls[c][s].uid) /\ Continue(c, s, "event")
       \/ (ReadFails \/ ~UserExists(c, calls[c][s].uid)) /\ End(c, s)
    /\ UNCHANGED <<serverVars, queue, answers, loggedIn, uid, asked, taps, crashes>>

\* Its read of the event: only an event without this attendee is updated, and
\* what was read is already old when the update is made.
AttendeeEventRead(c, s) ==
    LET e == calls[c][s].event
        mayJoin == EventExists(c, e) /\ ~SeenAttending(c, e, calls[c][s].uid)
    IN  /\ At(c, s, "addAttendee", "event")
        /\ \/ mayJoin /\ Continue(c, s, "write")
           \/ (ReadFails \/ ~mayJoin) /\ End(c, s)
        /\ UNCHANGED <<serverVars, queue, answers, loggedIn, uid, asked, taps, crashes>>

AttendeeWrite(c, s) ==
    /\ At(c, s, "addAttendee", "write")
    /\ Enqueue(c, Write("union", calls[c][s].event, calls[c][s].uid))
    /\ End(c, s)
    /\ UNCHANGED <<serverVars, answers, loggedIn, uid, asked, taps, crashes>>

\* Swiping a row of My Plans away: deleteAttendeeFromEvent, with no read first.
LeaveEvent(c, e) ==
    /\ uid[c] # NoUser
    /\ EventExists(c, e) /\ SeenAttending(c, e, uid[c])
    /\ Tap(c, "leave", e)
    /\ Enqueue(c, Write("remove", e, uid[c]))
    /\ UNCHANGED <<serverVars, answers, calls, loggedIn, uid, crashes>>

-----------------------------------------------------------------------------
(* Deleting an event *)

\* Swiping a row of Events away starts deleteEventFromFirestore.
TapDelete(c, e) ==
    /\ Listed(c, e)
    /\ Tap(c, "delete", e)
    /\ StartCall(c, EventCall("deleteEvent", "event", e, uid[c]))
    /\ UNCHANGED <<serverVars, queue, answers, loggedIn, uid, crashes>>

\* Mutant: the comparison is the wrong way round.
DeleteReadInverted(c, s) ==
    /\ At(c, s, "deleteEvent", "event")
    /\ IF OwnerIs(c, calls[c][s].event, calls[c][s].uid)
       THEN End(c, s) ELSE Continue(c, s, "write")
    /\ UNCHANGED <<serverVars, queue, answers, loggedIn, uid, asked, taps, crashes>>

\* Its ownership check. The check takes a missing document for one owned by
\* the empty uid; on an error the completion is never called.
DeleteRead(c, s) ==
    LET isOwner == OwnerIs(c, calls[c][s].event, calls[c][s].uid)
    IN  /\ At(c, s, "deleteEvent", "event")
        /\ \/ isOwner /\ Continue(c, s, "write")
           \/ (ReadFails \/ ~isOwner) /\ End(c, s)
        /\ UNCHANGED <<serverVars, queue, answers, loggedIn, uid, asked, taps, crashes>>

DeleteWrite(c, s) ==
    /\ At(c, s, "deleteEvent", "write")
    /\ Enqueue(c, Write("delete", calls[c][s].event, calls[c][s].uid))
    /\ End(c, s)
    /\ UNCHANGED <<serverVars, answers, loggedIn, uid, asked, taps, crashes>>

-----------------------------------------------------------------------------
(* The Firestore client and the server *)

\* Mutant: updateData without its precondition, like a merging setData.
AcceptedAlways(m, doc) == TRUE

\* May a write be applied to a document: updateData requires it to exist.
Accepted(m, doc) == m.kind \in {"union", "remove"} => IsLive(doc)

\* The document an accepted write leaves. Deleting nothing leaves nothing.
Applied(m, doc) ==
    CASE m.kind = "event" -> NewEvent(m.uid)
      [] m.kind = "union" -> [doc EXCEPT !.attendees = @ \cup {m.uid}]
      [] m.kind = "remove" -> [doc EXCEPT !.attendees = @ \ {m.uid}]
      [] m.kind = "delete" -> IF IsLive(doc) THEN Deleted ELSE doc

\* Of a client's queue, the server has handled the writes it has answers for;
\* an error ends the stream, so nothing behind it is handled before it arrives.
Unhandled(c) == /\ Len(answers[c]) < Len(queue[c])
                /\ \A i \in DOMAIN answers[c] : answers[c][i] = "ok"
NextWrite(c) == queue[c][Len(answers[c]) + 1]

\* The server handles the next write of a client.
CommitUser(c, m) ==
    /\ m.kind = "user"
    /\ users' = users \cup {m.uid}
    /\ UNCHANGED events

CommitEvent(c, m) ==
    /\ m.kind # "user" /\ Accepted(m, events[m.event])
    /\ events' = [events EXCEPT ![m.event] = Applied(m, @)]
    /\ UNCHANGED users

Commit(c) ==
    /\ Unhandled(c)
    /\ CommitUser(c, NextWrite(c)) \/ CommitEvent(c, NextWrite(c))
    /\ answers' = [answers EXCEPT ![c] = Append(@, "ok")]
    /\ UNCHANGED <<queue, calls, loggedIn, uid, asked, taps, crashes>>

\* A permanent error: the precondition fails, or the backend refuses.
Refuse(c) ==
    /\ Unhandled(c)
    /\ LET m == NextWrite(c)
       IN  m.kind \in MayFail \/ (m.kind # "user" /\ ~Accepted(m, events[m.event]))
    /\ answers' = [answers EXCEPT ![c] = Append(@, "error")]
    /\ UNCHANGED <<serverVars, queue, calls, loggedIn, uid, asked, taps, crashes>>

\* The stream breaks before the answers arrive and the whole pipeline is resent.
Resend(c) ==
    /\ Redelivery
    /\ answers[c] # <<>>
    /\ answers' = [answers EXCEPT ![c] = <<>>]
    /\ UNCHANGED <<serverVars, queue, calls, loggedIn, uid, asked, taps, crashes>>

\* The chains whose closure waits for the answer to write m.
Waiting(c, m) == {s \in Slot : /\ m.kind = "event"
                              /\ At(c, s, "addEvent", "ack")
                              /\ calls[c][s].event = m.event}

\* Mutant: the attendees of a new event are not added after all.
AfterAckNothing(c, m) == NoCall

\* Mutant: addAttendeeToEvent without its guard against an empty uid.
AfterAckUnguarded(c, m) ==
    IF Head(answers[c]) = "ok" THEN EventCall("addAttendee", "user", m.event, m.uid) ELSE NoCall

\* The completion of addEventToFirestore: on success addAttendeeToEvent for
\* the creator, who is its one attendee; that gives up on an empty uid.
AfterAck(c, m) ==
    IF Head(answers[c]) = "ok" /\ m.uid # NoUser
    THEN EventCall("addAttendee", "user", m.event, m.uid) ELSE NoCall

\* An answer arrives, its write leaves the queue and its completion runs; the
\* completions of the other writes only report.
Acknowledge(c) ==
    LET m == Head(queue[c])
    IN  /\ answers[c] # <<>>
        /\ queue' = [queue EXCEPT ![c] = Tail(@)]
        /\ answers' = [answers EXCEPT ![c] = Tail(@)]
        /\ calls' = [calls EXCEPT ![c] = [s \in Slot |->
                        IF s \in Waiting(c, m) THEN AfterAck(c, m) ELSE @[s]]]
        /\ UNCHANGED <<serverVars, loggedIn, uid, asked, taps, crashes>>

\* The app is killed: its memory goes, the persisted queue stays. The next
\* start opens the sign-in page (ContentView.checkState restores nobody).
Crash(c) ==
    /\ crashes < MaxCrashes
    /\ crashes' = crashes + 1
    /\ calls' = [calls EXCEPT ![c] = [s \in Slot |-> NoCall]]
    /\ loggedIn' = [loggedIn EXCEPT ![c] = FALSE]
    /\ uid' = [uid EXCEPT ![c] = NoUser]
    /\ UNCHANGED <<serverVars, queue, answers, asked, taps>>

-----------------------------------------------------------------------------
(* The specification *)

\* What a person does, and what may go wrong: nothing makes these happen.
Environment(c) ==
    \/ SignIn(c) \/ Logout(c) \/ Refuse(c) \/ Resend(c) \/ Crash(c)
    \/ \E e \in Event : \/ AddEvent(c, e) \/ TapAdd(c, e)
                        \/ LeaveEvent(c, e) \/ TapDelete(c, e)

\* The next step of a chain.
Chain(c, s) ==
    \/ AddUserRead(c, s) \/ AddUserWrite(c, s)
    \/ AttendeeUserRead(c, s) \/ AttendeeEventRead(c, s) \/ AttendeeWrite(c, s)
    \/ DeleteRead(c, s) \/ DeleteWrite(c, s)

\* The next answer of the network.
Network(c) == UserDataArrives(c) \/ Commit(c) \/ Acknowledge(c)

Next == \E c \in Client : \/ Environment(c) \/ Network(c)
                          \/ \E s \in Slot : Chain(c, s)

Spec == Init /\ [][Next]_vars

\* The Firestore client retries for as long as it takes, so an answer arrives
\* in the end for every read and every queued write, and callbacks then run.
Fairness ==
    \A c \in Client :
       /\ WF_vars(UserDataArrives(c))
       /\ WF_vars(Commit(c) \/ Refuse(c))
       /\ WF_vars(Acknowledge(c))
       /\ \A s \in Slot : WF_vars(Chain(c, s))

FairSpec == Spec /\ Fairness

-----------------------------------------------------------------------------
(* Properties *)

Board == INSTANCE EventBoard WITH users <- users, events <- events, asked <- asked

\* Whatever the interleaving of chains, queues and devices, each change of the
\* two collections is a change EventBoard allows: an account only for a
\* Columbia user, an id used once and never again after a deletion, attendance
\* only with an account and on request, a deletion only at its owner's request.
ImplementsBoard == Board!BoardSpec

\* What is left of that when the stream breaks and writes are applied again:
\* only the set of an event does harm, and only to that event. It may lose its
\* attendees, or outlive its deletion; but it never changes hands, and whoever
\* finds it back had asked for its deletion.
ImplementsRepeatingBoard == Board!RepeatingSpec

\* addAttendeeToEvent checks the account on the client, possibly against a
\* write of its own still on its way; at the server every attendee has one.
AttendeesHaveAccounts ==
    \A e \in Event : events[e].attendees \subseteq users

\* Why they do, if the backend never refuses an account: on every device the
\* write of the account is ahead of the writes and chains that count on it.
JoinsAreBacked ==
    \A c \in Client : \A i \in DOMAIN queue[c] :
        queue[c][i].kind = "union" =>
            \/ queue[c][i].uid \in users
            \/ \E j \in 1..(i - 1) : queue[c][j] = NewUser(queue[c][i].uid)

JoinersAreUsers ==
    \A c \in Client, s \in Slot :
        (calls[c][s].op = "addAttendee" /\ calls[c][s].at # "user") =>
            UserExists(c, calls[c][s].uid)

AccountsAreTaken ==
    \A c \in Client : \A i \in 1..Len(answers[c]) :
        queue[c][i].kind = "user" => queue[c][i].uid \in users

AccountsInv ==
    JoinsAreBacked /\ JoinersAreUsers /\ AccountsAreTaken /\ AttendeesHaveAccounts

\* What the next of a client's writes makes of the document of event e, as far
\* as it is about e and may be applied.
Laid(m, doc, e) ==
    IF m.kind # "user" /\ m.event = e /\ Accepted(m, doc) THEN Applied(m, doc) ELSE doc

\* The documents that come of laying writes over doc one after the other.
Layers(doc, writes, e) ==
    LET layer[n \in 0..Len(writes)] ==
            IF n = 0 THEN doc ELSE Laid(writes[n], layer[n - 1], e)
    IN  layer

\* What a read shows, by definition: the server's document under all of the
\* client's pending writes.
Overlay(c, e) == Layers(events[e], queue[c], e)[Len(queue[c])]

\* The three questions the code asks of a read (does it exist, who owns it,
\* am I on the list) are answered as that overlay answers them, in every state
\* of the queue the chains can produce.
ReadsShowPendingWrites ==
    \A c \in Client, e \in Event, u \in UserId :
        LET doc == Overlay(c, e)
        IN  /\ EventExists(c, e) <=> IsLive(doc)
            /\ OwnerIs(c, e, u) <=> doc.ownerID = u
            /\ IsLive(doc) => (SeenAttending(c, e, u) <=> u \in doc.attendees)

\* A Columbia student who signs in has an account in the end, although its
\* existence is checked and its document written in two steps.
SignInGivesAccount ==
    \A c \in Client : (loggedIn[c] /\ UserOf[c] \in Columbia) ~> UserOf[c] \in users

\* The creator of an event, if the account exists by the time the event is
\* written, comes to attend it: the attendees are added after the event.
CreatorAttends ==
    \A e \in Event, u \in User :
        (u \in users /\ \E c \in Client : \E i \in DOMAIN queue[c] :
                            queue[c][i] = Write("event", e, u))
        ~> (u \in events[e].attendees \/ events[e] = Deleted)

\* An owner's request to delete an event takes effect in the end.
OwnerCanDelete ==
    \A e \in Event, u \in UserId :
        (Ask("delete", u, e) \in asked /\ IsLive(events[e]) /\ events[e].ownerID = u)
        ~> events[e] = Deleted
=============================================================================
