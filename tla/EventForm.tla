------------------------------ MODULE EventForm ------------------------------
(***************************************************************************)
(* The sheet for a new event (AddEventView.swift) with its address search  *)
(* (SearchAddressView.swift), and the events it makes as the tabs decode   *)
(* them.                                                                   *)
(*                                                                         *)
(* Searches overlap: each answers on a thread of its own, and its list     *)
(* goes through the main queue. A sheet that is shown again starts with    *)
(* fresh state, and what comes for an earlier one is lost.                 *)
(***************************************************************************)
EXTENDS Integers, Sequences, SequencesExt

CONSTANTS Place,        \* what a search may find, by address
          Lat, Lon,     \* the coordinates of a place
          Text,         \* what may be searched for
          Results,      \* the places a text finds
          Image,
          NoPlace, NoImage,   \* "Event Location"; nil
          MaxSearches,  \* bound: searches in one sheet
          MaxEvents     \* bound: events made

ASSUME FormAssumption ==
    /\ Lat \in [Place -> Int] /\ Lon \in [Place -> Int]
    /\ Results \in [Text -> SUBSET Place]
    /\ NoPlace \notin Place /\ NoImage \notin Image
    /\ MaxSearches \in Nat /\ MaxEvents \in Nat

VARIABLES
    screen,     \* "tab", "form", "search", or "picker"
    form,       \* the fields of the form
    asked,      \* searches on their way
    searches,   \* how many this sheet has made
    found,       \* decoded results on the main queue
    locations,  \* SearchAddressView.locations
    alert,      \* its alert
    events,     \* the events made, as documents
    picked      \* history: what was picked in this form

sheet == <<asked, searches, found, locations, alert>>
formVars == <<screen, form, sheet, events, picked>>

Fields == [address : Place \cup {NoPlace}, lat : Int, lon : Int, image : Image \cup {NoImage}]
Empty == [address |-> NoPlace, lat |-> 0, lon |-> 0, image |-> NoImage]

FormTypeOK ==
    /\ screen \in {"tab", "form", "search", "picker"}
    /\ form \in Fields
    /\ asked \in Seq(Text) /\ searches \in 0..MaxSearches
    /\ found \in Seq(SUBSET Place) /\ Len(asked) + Len(found) <= searches
    /\ locations \in SUBSET Place /\ alert \in BOOLEAN
    /\ events \in Seq([doc : Fields, picks : Fields]) /\ Len(events) <= MaxEvents
    /\ picked \in Fields

\* Mutant: what an earlier search sheet asked comes to this one.
NewSheetAnswered == UNCHANGED <<asked, found>> /\ searches' = 0 /\ locations' = {} /\ alert' = FALSE

NewSheet == asked' = <<>> /\ searches' = 0 /\ found' = <<>> /\ locations' = {} /\ alert' = FALSE

FormInit ==
    /\ screen = "tab" /\ form = Empty /\ picked = Empty
    /\ asked = <<>> /\ searches = 0 /\ found = <<>> /\ locations = {} /\ alert = FALSE
    /\ events = <<>>

-----------------------------------------------------------------------------
(* The form *)

\* Mutant: the sheet has the state it was left with.
FreshKept == form

\* The sheet's content is made anew each time it is shown.
Fresh == Empty

Open ==
    /\ screen = "tab" /\ Len(events) < MaxEvents
    /\ screen' = "form" /\ form' = Fresh /\ picked' = Empty
    /\ UNCHANGED <<sheet, events>>

\* Swiped away.
Dismiss == screen = "form" /\ screen' = "tab" /\ UNCHANGED <<form, sheet, events, picked>>

\* What the Done button clears: the address, not the coordinates or the image.
Cleared == [form EXCEPT !.address = NoPlace]

Done ==
    /\ screen = "form" /\ screen' = "tab"
    /\ events' = Append(events, [doc |-> form, picks |-> picked])
    /\ form' = Cleared
    /\ UNCHANGED <<sheet, picked>>

OpenPicker == screen = "form" /\ screen' = "picker" /\ UNCHANGED <<form, sheet, events, picked>>

\* The image picker picks or is cancelled.
ClosePicker ==
    /\ screen = "picker" /\ screen' = "form"
    /\ \E i \in Image \cup {form.image} :
          form' = [form EXCEPT !.image = i] /\ picked' = [picked EXCEPT !.image = i]
    /\ UNCHANGED <<sheet, events>>

-----------------------------------------------------------------------------
(* The search *)

OpenSearch ==
    /\ screen = "form" /\ screen' = "search"
    /\ NewSheet
    /\ UNCHANGED <<form, events, picked>>

\* searchAddress; a text that makes no URL is ignored.
Search(t) ==
    /\ screen = "search" /\ ~alert
    /\ searches < MaxSearches /\ searches' = searches + 1
    /\ asked' = Append(asked, t)
    /\ UNCHANGED <<screen, form, found, locations, alert, events, picked>>

\* The service answers, in any order; an error shows the alert.
Answer(i) ==
    /\ screen = "search"
    /\ asked' = RemoveAt(asked, i)
    /\ \/ found' = Append(found, Results[asked[i]]) /\ UNCHANGED alert
       \/ alert' = TRUE /\ UNCHANGED found
    /\ UNCHANGED <<screen, form, searches, locations, events, picked>>

\* Mutant: an empty list says nothing.
NothingFoundSilent == UNCHANGED alert

NothingFound == alert' = (alert \/ locations' = {})

\* The results replace the list, whichever search they are of.
ShowLocations ==
    /\ screen = "search" /\ found # <<>>
    /\ found' = Tail(found)
    /\ locations' = Head(found)
    /\ NothingFound
    /\ UNCHANGED <<screen, form, asked, searches, events, picked>>

DismissAlert ==
    /\ alert /\ alert' = FALSE
    /\ UNCHANGED <<screen, form, asked, searches, found, locations, events, picked>>

\* A row is tapped: the form's three bindings are set and the sheet goes.
Pick(p) ==
    /\ screen = "search" /\ ~alert /\ p \in locations
    /\ screen' = "form"
    /\ form' = [form EXCEPT !.address = p, !.lat = Lat[p], !.lon = Lon[p]]
    /\ picked' = [picked EXCEPT !.address = p, !.lat = Lat[p], !.lon = Lon[p]]
    /\ NewSheet /\ UNCHANGED events

CloseSearch ==
    /\ screen = "search" /\ ~alert /\ screen' = "form"
    /\ NewSheet
    /\ UNCHANGED <<form, events, picked>>

-----------------------------------------------------------------------------

FormNext ==
    \/ Open \/ Dismiss \/ Done \/ OpenPicker \/ ClosePicker
    \/ OpenSearch \/ ShowLocations \/ DismissAlert \/ CloseSearch
    \/ \E t \in Text : Search(t)
    \/ \E i \in DOMAIN asked : Answer(i)
    \/ \E p \in Place : Pick(p)

\* The search service answers or times out, and the main queue is served.
FormFairness == /\ WF_formVars(\E i \in DOMAIN asked : Answer(i))
                /\ WF_formVars(ShowLocations)

FormSpec == FormInit /\ [][FormNext]_formVars /\ FormFairness

-----------------------------------------------------------------------------
(* Properties *)

\* Whatever is searched, picked, and left in between, and although Done clears
\* only some fields: an event carries the address, the coordinates and the
\* image picked in its own form, nothing of an event made before.
EventHasItsOwnPicks == \A i \in DOMAIN events : events[i].doc = events[i].picks

\* While the sheet stays open a search ends in places or in an alert.
SearchEnds == asked # <<>> ~> (locations # {} \/ alert \/ screen # "search")
=============================================================================
