---------------------------- MODULE EventsScreen ----------------------------
(***************************************************************************)
(* The Events tab of one device (EventsView) and the event page it opens   *)
(* (EventView). The list is refetched as a whole, shown through a search   *)
(* filter, and edited by swipes: a swipe starts a deletion that is         *)
(* answered later, and the answer uses the row index of the swipe again.   *)
(* Indices here start at 1, the code's at 0.                               *)
(***************************************************************************)
EXTENDS Naturals, FiniteSets, SequencesExt

CONSTANTS Event,
          Me,          \* userData.uid
          Mine,        \* the events whose ownerID is Me
          Date,        \* the day of each event
          Matches,     \* the events whose name contains the search text
          Fetch,       \* getDocuments calls that may overlap
          Swipe,       \* deletions that may overlap
          MaxChanges   \* bound: events made or deleted, people coming or going

ASSUME ScreenAssumption ==
    /\ IsFiniteSet(Event)
    /\ Mine \subseteq Event /\ Matches \subseteq Event
    /\ Date \in [Event -> Nat] /\ MaxChanges \in Nat

VARIABLES
    docs,       \* server: the state of each event's document
    going,      \* the events whose attendees array refers to me
    rows,       \* EventsView.events
    searching,  \* is there a search text
    fetches,    \* per Fetch: the getDocuments in flight
    swipes,     \* per Swipe: the deletion in flight
    alert,      \* showErrorAlert
    page,       \* the open EventView: its row and isUserAttendee
    trapped,    \* history: an array was indexed out of its bounds
    changes

vars == <<docs, going, rows, searching, fetches, swipes, alert, page, trapped, changes>>

\* The attendees array of a document holds references to users; to say how the
\* code decodes it, a row keeps what was stored next to what was read.
UserRef(u) == [collection |-> "users", id |-> u]
Row == [id : Event, stored : SUBSET {UserRef(Me)}, attendees : SUBSET {Me}]

None == [at |-> "none"]
FetchCall == [at : {"asked"}] \cup [at : {"served"}, rows : Seq(Row)]
SwipeCall == [at : {"begin", "read", "write", "deleting", "true", "false"},
              event : Event, index : Nat \ {0}]
Page == [row : Row, appeared : BOOLEAN, isUserAttendee : BOOLEAN]

TypeOK ==
    /\ docs \in [Event -> {"unborn", "live", "deleted"}]
    /\ going \in SUBSET Event
    /\ rows \in Seq(Row)
    /\ searching \in BOOLEAN
    /\ fetches \in [Fetch -> FetchCall \cup {None}]
    /\ swipes \in [Swipe -> SwipeCall \cup {None}]
    /\ alert \in BOOLEAN
    /\ page \in Page \cup {None}
    /\ trapped \in BOOLEAN
    /\ changes \in 0..MaxChanges

\* The documents a read of this device finds: its own pending deletions hide
\* theirs, whether the backend will accept them or not.
Live == {e \in Event : docs[e] = "live"
                       /\ \A s \in Swipe : swipes[s].at = "deleting" => swipes[s].event # e}

Init ==
    /\ docs \in [Event -> {"unborn", "live"}]
    /\ going \in SUBSET {e \in Event : docs[e] = "live"}
    /\ rows = <<>>
    /\ searching = FALSE
    /\ fetches = [f \in Fetch |-> None]
    /\ swipes = [s \in Swipe |-> None]
    /\ alert = FALSE
    /\ page = None
    /\ trapped = FALSE
    /\ changes = 0

-----------------------------------------------------------------------------
(* What happens to the documents *)

Change == changes < MaxChanges /\ changes' = changes + 1

SetDoc(e, s) == docs' = [docs EXCEPT ![e] = s]

\* Other people create and delete their events, and so do I elsewhere.
RemoteChange(e) ==
    /\ Change
    /\ \/ docs[e] = "unborn" /\ SetDoc(e, "live") /\ UNCHANGED going
       \/ docs[e] = "live" /\ SetDoc(e, "deleted") /\ going' = going \ {e}
    /\ UNCHANGED <<rows, searching, fetches, swipes, alert, page, trapped>>

\* My Plans: I stop going. (Joining is AddMe, from the page.)
StopGoing(e) ==
    /\ Change
    /\ e \in going
    /\ going' = going \ {e}
    /\ UNCHANGED <<docs, rows, searching, fetches, swipes, alert, page, trapped>>

-----------------------------------------------------------------------------
(* fetchEvents *)

\* Mutant: the references are kept as they are stored.
DecodedRaw(refs) == refs

\* `data["attendees"] as? [String] ?? []`: the cast fails as soon as one
\* element is not a string, and references to users are not.
Decoded(refs) == IF refs \subseteq {Me} THEN refs ELSE {}

RowOf(e) ==
    LET stored == IF e \in going THEN {UserRef(Me)} ELSE {}
    IN  [id |-> e, stored |-> stored, attendees |-> Decoded(stored)]

ByDate(s) == \A i, j \in DOMAIN s : i < j => Date[s[i].id] <= Date[s[j].id]

\* The rows of the documents there are, sorted by date, in any order on a day.
Listings == {s \in SetToSeqs({RowOf(e) : e \in Live}) : ByDate(s)}

\* On appearing, on a pull, and when the sheet for a new event is closed.
FetchEvents(f) ==
    /\ fetches[f] = None
    /\ fetches' = [fetches EXCEPT ![f] = [at |-> "asked"]]
    /\ UNCHANGED <<docs, going, rows, searching, swipes, alert, page, trapped, changes>>

\* The snapshot is taken here; what it says may be old when it is delivered.
FetchServed(f) ==
    /\ fetches[f].at = "asked"
    /\ \E s \in Listings : fetches' = [fetches EXCEPT ![f] = [at |-> "served", rows |-> s]]
    /\ UNCHANGED <<docs, going, rows, searching, swipes, alert, page, trapped, changes>>

\* Mutant: the documents are appended to the rows there are.
ShownAppended(s) == rows \o s

\* The rows a delivered snapshot leaves: they replace those there are.
Shown(s) == s

FetchDelivered(f) ==
    /\ fetches[f].at = "served"
    /\ rows' = Shown(fetches[f].rows)
    /\ fetches' = [fetches EXCEPT ![f] = None]
    /\ UNCHANGED <<docs, going, searching, swipes, alert, page, trapped, changes>>

\* An error only reports: the rows stay.
FetchFailed(f) ==
    /\ fetches[f].at = "asked"
    /\ fetches' = [fetches EXCEPT ![f] = None]
    /\ UNCHANGED <<docs, going, rows, searching, swipes, alert, page, trapped, changes>>

-----------------------------------------------------------------------------
(* Swiping a row away *)

SetSwipe(s, call) == swipes' = [swipes EXCEPT ![s] = call]
SwipeOn(s, at) == SetSwipe(s, [swipes[s] EXCEPT !.at = at])

ToggleSearch ==
    /\ searching' = ~searching
    /\ UNCHANGED <<docs, going, rows, fetches, swipes, alert, page, trapped, changes>>

\* filteredEvents
Found(r) == searching => r.id \in Matches
Filtered == SelectSeq(rows, Found)

\* onDelete: the index counts the rows on screen, and the code looks it up
\* among all of them. The call itself waits for the main queue.
SwipeAway(s, i) ==
    /\ swipes[s] = None
    /\ i \in DOMAIN Filtered
    /\ i \in DOMAIN rows
    /\ SetSwipe(s, [at |-> "begin", event |-> rows[i].id, index |-> i])
    /\ UNCHANGED <<docs, going, rows, searching, fetches, alert, page, trapped, changes>>

DeleteBegin(s) ==
    /\ swipes[s].at = "begin"
    /\ SwipeOn(s, "read")
    /\ UNCHANGED <<docs, going, rows, searching, fetches, alert, page, trapped, changes>>

\* Mutant: the owner is not compared.
IsOwnerUnchecked(e) == TRUE

\* The ownerID of a missing document reads as "", which is not Me.
IsOwner(e) == e \in Live \cap Mine

\* deleteEventFromFirestore's read: on an error the completion is never called.
DeleteRead(s) ==
    /\ swipes[s].at = "read"
    /\ \/ IsOwner(swipes[s].event) /\ SwipeOn(s, "write")
       \/ ~IsOwner(swipes[s].event) /\ SwipeOn(s, "false")
       \/ SetSwipe(s, None)
    /\ UNCHANGED <<docs, going, rows, searching, fetches, alert, page, trapped, changes>>

\* delete(): from now on this device sees no document.
DeleteWrite(s) ==
    /\ swipes[s].at = "write"
    /\ SwipeOn(s, "deleting")
    /\ UNCHANGED <<docs, going, rows, searching, fetches, alert, page, trapped, changes>>

\* The backend deletes it, or refuses and this device sees what there is again.
DeleteAnswered(s) ==
    LET e == swipes[s].event
    IN  /\ swipes[s].at = "deleting"
        /\ \/ SwipeOn(s, "true") /\ SetDoc(e, "deleted") /\ going' = going \ {e}
           \/ SwipeOn(s, "false") /\ UNCHANGED <<docs, going>>
        /\ UNCHANGED <<rows, searching, fetches, alert, page, trapped, changes>>

\* The completion: events.remove(at: index), or the alert.
Completion(s) ==
    /\ \/ /\ swipes[s].at = "true" /\ swipes[s].index \in DOMAIN rows
          /\ rows' = RemoveAt(rows, swipes[s].index)
          /\ UNCHANGED alert
       \/ /\ swipes[s].at = "false"
          /\ alert' = TRUE
          /\ UNCHANGED rows
    /\ SetSwipe(s, None)
    /\ UNCHANGED <<docs, going, searching, fetches, page, trapped, changes>>

\* remove(at:) traps when there is no such row: the app is gone and is started
\* anew, the documents as they are.
CompletionTraps(s) ==
    /\ swipes[s].at = "true" /\ swipes[s].index \notin DOMAIN rows
    /\ trapped' = TRUE
    /\ rows' = <<>>
    /\ searching' = FALSE
    /\ fetches' = [f \in Fetch |-> None]
    /\ swipes' = [t \in Swipe |-> None]
    /\ alert' = FALSE
    /\ page' = None
    /\ UNCHANGED <<docs, going, changes>>

DismissAlert ==
    /\ alert
    /\ alert' = FALSE
    /\ UNCHANGED <<docs, going, rows, searching, fetches, swipes, page, trapped, changes>>

-----------------------------------------------------------------------------
(* The event page *)

OpenPage(i) ==
    /\ page = None
    /\ i \in DOMAIN rows /\ Found(rows[i])
    /\ page' = [row |-> rows[i], appeared |-> FALSE, isUserAttendee |-> FALSE]
    /\ UNCHANGED <<docs, going, rows, searching, fetches, swipes, alert, trapped, changes>>

\* onAppear, through the main queue.
PageAppears ==
    /\ page # None /\ ~page.appeared
    /\ page' = [page EXCEPT !.appeared = TRUE, !.isUserAttendee = Me \in page.row.attendees]
    /\ UNCHANGED <<docs, going, rows, searching, fetches, swipes, alert, trapped, changes>>

\* The Add button, and what addAttendeeToEvent comes to in the end; its chain
\* is FirebaseUtilities.TapAdd.
AddMe ==
    /\ page # None /\ ~page.isUserAttendee
    /\ Me \notin page.row.attendees
    /\ page.row.id \in Live
    /\ going' = going \cup {page.row.id}
    /\ UNCHANGED <<docs, rows, searching, fetches, swipes, alert, page, trapped, changes>>

ClosePage ==
    /\ page # None
    /\ page' = None
    /\ UNCHANGED <<docs, going, rows, searching, fetches, swipes, alert, trapped, changes>>

-----------------------------------------------------------------------------

Next ==
    \/ \E e \in Event : RemoteChange(e) \/ StopGoing(e)
    \/ \E f \in Fetch : FetchEvents(f) \/ FetchServed(f) \/ FetchDelivered(f) \/ FetchFailed(f)
    \/ \E s \in Swipe : \/ \E i \in DOMAIN rows : SwipeAway(s, i)
                        \/ DeleteBegin(s) \/ DeleteRead(s) \/ DeleteWrite(s)
                        \/ DeleteAnswered(s) \/ Completion(s) \/ CompletionTraps(s)
    \/ \E i \in DOMAIN rows : OpenPage(i)
    \/ ToggleSearch \/ DismissAlert \/ PageAppears \/ AddMe \/ ClosePage

Spec == Init /\ [][Next]_vars

-----------------------------------------------------------------------------
(* Properties *)

\* What ForEach and the date column need of the rows, whatever overlaps:
\* no two rows with one id, dates in order, and only events that existed.
RowsWellFormed ==
    /\ \A i, j \in DOMAIN rows : rows[i].id = rows[j].id => i = j
    /\ ByDate(rows)
    /\ \A i \in DOMAIN rows : docs[rows[i].id] # "unborn"

\* A swipe may hit another row than the one swiped (the search filter shifts
\* the indices), but this screen never deletes somebody else's event.
OthersEventsSurvive ==
    [][\A e \in Event \ Mine :
          (docs[e] = "live" /\ docs'[e] = "deleted") => changes' = changes + 1]_vars

\* `guard events.indices.contains(index) else { continue }`: a row index is
\* used only while there is such a row.
IndexInRange == ~trapped
=============================================================================
