---------------------------- MODULE AttendeesList ----------------------------
(***************************************************************************)
(* The attendees of one event (attendeesView.swift) and the page of one of *)
(* them (attendeeView.swift).                                              *)
(*                                                                         *)
(* A load reads the event, clears the list on the main queue, and asks for *)
(* the profile of every attendee; each answer appends a name. Appearing,   *)
(* pulling and coming back from a person's page each start a load, while   *)
(* earlier ones may still be answering.                                    *)
(***************************************************************************)
EXTENDS Naturals, Sequences, FiniteSets, SequencesExt

CONSTANTS Person,
          Nobody,
          Profiles,    \* the people with a document in the users collection
          ReadsFail,   \* may a getDocument end in an error?
          MaxLoads,    \* bound: loads started
          MaxChanges   \* bound: people joining or leaving meanwhile

AttendeesAssumption ==
    /\ Profiles \subseteq Person /\ Nobody \notin Person
    /\ ReadsFail \in BOOLEAN /\ MaxLoads \in Nat /\ MaxChanges \in Nat

VARIABLES
    attending,  \* server: the attendees in the event's document
    stage,      \* per load: "event" asked, "clear" on the main queue, "names"
    ids,        \* per load: the attendees it found
    pending,    \* per load: those whose profile it waits for
    attendees,  \* attendeesView.attendees
    page,       \* whose page is open, and whether its profile has come
    overlaps,   \* history: loads started while another was going on
    changes

vars == <<attending, stage, ids, pending, attendees, page, overlaps, changes>>

\* Loads are numbered as they are started.
Loads == DOMAIN stage
Busy(l) == stage[l] # "names" \/ pending[l] # {}

TypeOK ==
    /\ attending \subseteq Person
    /\ stage \in Seq({"event", "clear", "names"}) /\ Len(stage) <= MaxLoads
    /\ ids \in [Loads -> SUBSET Person]
    /\ pending \in [Loads -> SUBSET Person]
    /\ attendees \in Seq(Profiles)
    /\ page \in [of : Person \cup {Nobody}, shown : BOOLEAN]
    /\ overlaps \in 0..MaxLoads /\ changes \in 0..MaxChanges

Closed == [of |-> Nobody, shown |-> FALSE]

Init ==
    /\ attending \in SUBSET Person
    /\ stage = <<>> /\ ids = <<>> /\ pending = <<>>
    /\ attendees = <<>>
    /\ page = Closed
    /\ overlaps = 0 /\ changes = 0

\* Somebody joins or leaves.
Change(p) ==
    /\ changes < MaxChanges /\ changes' = changes + 1
    /\ attending' = IF p \in attending THEN attending \ {p} ELSE attending \cup {p}
    /\ UNCHANGED <<stage, ids, pending, attendees, page, overlaps>>

-----------------------------------------------------------------------------
(* The list *)

\* fetchEventAttendees asks for the event.
Begin ==
    /\ Len(stage) < MaxLoads
    /\ stage' = Append(stage, "event")
    /\ ids' = Append(ids, {}) /\ pending' = Append(pending, {})
    /\ overlaps' = overlaps + (IF \E l \in Loads : Busy(l) THEN 1 ELSE 0)

\* The list appears, or is pulled.
Load == page = Closed /\ Begin /\ UNCHANGED <<attending, attendees, page, changes>>

\* retrieveAttendeesFromEvent answers, reads of one document in the order they
\* were asked; an error is no attendees. What follows goes to the main queue.
EventRead(l) ==
    /\ stage[l] = "event" /\ \A k \in 1..(l - 1) : stage[k] # "event"
    /\ stage' = [stage EXCEPT ![l] = "clear"]
    /\ \E found \in {attending} \cup (IF ReadsFail THEN {{}} ELSE {}) :
          ids' = [ids EXCEPT ![l] = found]
    /\ UNCHANGED <<attending, pending, attendees, page, overlaps, changes>>

\* Mutant: the list is not cleared.
ClearedNot == attendees

Cleared == <<>>

\* The main queue: the list is cleared, and every profile asked for.
Clear(l) ==
    /\ stage[l] = "clear" /\ \A k \in 1..(l - 1) : stage[k] # "clear"
    /\ stage' = [stage EXCEPT ![l] = "names"]
    /\ attendees' = Cleared
    /\ pending' = [pending EXCEPT ![l] = ids[l]]
    /\ UNCHANGED <<attending, ids, page, overlaps, changes>>

\* Mutants: a name that is there replaces the list; people without a document
\* are listed, too.
NamedAlone(p) == IF p \in Profiles THEN <<p>> ELSE attendees
NamedAll(p) == Append(attendees, p)

Named(p) == IF p \in Profiles THEN Append(attendees, p) ELSE attendees

\* A profile arrives, in any order with the others, and goes to the end of
\* whatever the list is by now; without a document there is no name.
NameArrives(l, p) ==
    /\ p \in pending[l]
    /\ pending' = [pending EXCEPT ![l] = @ \ {p}]
    /\ attendees' = Named(p) \/ (ReadsFail /\ UNCHANGED attendees)
    /\ UNCHANGED <<attending, stage, ids, page, overlaps, changes>>

-----------------------------------------------------------------------------
(* A person's page *)

OpenPerson(i) ==
    /\ page = Closed
    /\ page' = [of |-> attendees[i], shown |-> FALSE]
    /\ UNCHANGED <<attending, stage, ids, pending, attendees, overlaps, changes>>

\* fetchAttendeeData: without a profile, "Loading user data..." stays.
PersonArrives ==
    /\ page.of \in Profiles /\ ~page.shown
    /\ page' = [page EXCEPT !.shown = TRUE]
    /\ UNCHANGED <<attending, stage, ids, pending, attendees, overlaps, changes>>

\* The Back button, there once the profile is: the list appears again and
\* loads again.
Back ==
    /\ page.shown
    /\ page' = Closed
    /\ Begin
    /\ UNCHANGED <<attending, attendees, changes>>

-----------------------------------------------------------------------------

LoadStep(l) == EventRead(l) \/ Clear(l) \/ \E p \in Person : NameArrives(l, p)

Next ==
    \/ Load \/ Back \/ PersonArrives
    \/ \E l \in Loads : LoadStep(l)
    \/ \E i \in DOMAIN attendees : OpenPerson(i)
    \/ \E p \in Person : Change(p)

Spec == Init /\ [][Next]_vars

\* Every getDocument is answered, from the cache if need be.
Fairness == WF_vars(\E l \in Loads : LoadStep(l)) /\ WF_vars(PersonArrives)

FairSpec == Spec /\ Fairness

-----------------------------------------------------------------------------
(* Properties *)

Copies(p) == Cardinality({i \in DOMAIN attendees : attendees[i] = p})
Listed == {attendees[i] : i \in DOMAIN attendees}

\* The load that cleared the list last.
Newest == {l \in Loads : stage[l] = "names" /\ \A k \in Loads : k > l => stage[k] # "names"}

\* However loads overlap, nobody is lost: whoever the newest load found is
\* listed, or the answer is still to come (when reads do not fail).
NobodyIsMissing ==
    \A l \in Newest : ids[l] \cap Profiles \subseteq Listed \cup pending[l]

\* A name is twice on the list only if loads overlapped, and no more often
\* than that (the rows of the list are told apart by the person's id).
TwiceOnlyByOverlap == \A p \in Person : Copies(p) <= 1 + overlaps

\* Whoever attends while a load has yet to read the event, and has a profile, is
\* on the list when no load is busy any more, unless that person has left. (Who
\* joins after the last load's read is not: the list does not listen.)
ListFills ==
    \A p \in Profiles :
        (p \in attending /\ \E l \in Loads : stage[l] = "event")
            ~> \/ p \in Listed /\ \A l \in Loads : ~Busy(l)
               \/ p \notin attending
=============================================================================
