------------------------------- MODULE MyPlans -------------------------------
(***************************************************************************)
(* The My Plans tab of one device (MyPlansView.swift): the events whose    *)
(* attendees contain me, kept up to date by snapshot listeners on one      *)
(* query. Every appearance and every pull adds a listener; none goes.      *)
(*                                                                         *)
(* A listener is told of each change of the device's view of the query,    *)
(* by a block on the main queue that replaces the list. The view is what   *)
(* the backend last told the device with the device's own writes laid over *)
(* it, so a swipe is echoed at once and taken back if it is refused.       *)
(***************************************************************************)
EXTENDS Integers, Sequences, SequencesExt

CONSTANTS Event,         \* document ids, in their order
          DateOf,        \* the day of each event
          MayFail,       \* what the backend may refuse: "write", "listen"
          MaxPulls,      \* bound: appearances and pulls
          MaxTaps,       \* bound: rows swiped and events added
          MaxRemote      \* bound: changes made on other devices

PlansAssumption ==
    /\ Event \subseteq Int /\ IsFiniteSet(Event) /\ DateOf \in [Event -> Int]
    /\ MayFail \subseteq {"write", "listen"}
    /\ MaxPulls \in Nat /\ MaxTaps \in Nat /\ MaxRemote \in Nat

VARIABLES
    going,      \* server: events I attend
    known,      \* what the backend told this device of them
    synced,     \* has it told anything since the first listener?
    queue,      \* this device's writes, oldest first
    result,     \* the server's answer to the oldest
    listeners,  \* how many there are
    main,       \* snapshots on the main queue, oldest first
    rows,       \* MyPlansView.events
    arrived,    \* has userData a uid?
    taps, pulls, remote

client == <<known, synced, queue, result, listeners, main>>
vars == <<going, client, rows, arrived, taps, pulls, remote>>

\* addAttendeeToEvent's and deleteAttendeeFromEvent's update of an event.
Mutation == [kind : {"union", "remove"}, event : Event]
Join(e) == [kind |-> "union", event |-> e]
Leave(e) == [kind |-> "remove", event |-> e]

\* The rows: each event once.
TypeOK ==
    /\ {going, known} \subseteq SUBSET Event
    /\ synced \in BOOLEAN /\ arrived \in BOOLEAN
    /\ queue \in Seq(Mutation)
    /\ result \in {"none", "ok", "error"} /\ (result # "none" => queue # <<>>)
    /\ listeners \in 0..pulls /\ pulls \in 0..MaxPulls
    /\ main \in Seq(SUBSET Event)
    /\ rows \in Seq(Event) /\ IsInjective(rows)
    /\ taps \in 0..MaxTaps /\ remote \in 0..MaxRemote

Init ==
    /\ going \in SUBSET Event
    /\ known = {} /\ synced = FALSE
    /\ queue = <<>> /\ result = "none"
    /\ listeners = 0 /\ main = <<>> /\ rows = <<>>
    /\ arrived = FALSE
    /\ taps = 0 /\ pulls = 0 /\ remote = 0

-----------------------------------------------------------------------------
(* The query as the device sees it *)

\* The last pending write of an event decides, and without one the backend.
View == {e \in Event :
           \/ \E i \in DOMAIN queue : /\ queue[i] = Join(e)
                                      /\ \A j \in (i + 1)..Len(queue) : queue[j] # Leave(e)
           \/ e \in known /\ \A i \in DOMAIN queue : queue[i] # Leave(e)}

Copies(n, s) == [i \in 1..n |-> s]

\* Mutant: only the backend's snapshots are raised.
RaiseRemote == main' = IF known' = known THEN main ELSE main \o Copies(listeners, View')

\* Each listener is told of a view that has changed.
Raise == main' = IF ~synced' \/ (synced /\ View' = View)
                 THEN main ELSE main \o Copies(listeners, View')

\* The backend's watch stream reports how things stand.
Watch ==
    /\ listeners > 0
    /\ known' = going /\ synced' = TRUE
    /\ known' # known \/ ~synced
    /\ UNCHANGED <<going, queue, result, listeners, rows, arrived, taps, pulls, remote>>
    /\ Raise

\* It reports an error: the query and all its listeners are gone.
ListenFails ==
    /\ "listen" \in MayFail /\ listeners > 0
    /\ listeners' = 0 /\ synced' = FALSE
    /\ UNCHANGED <<going, known, queue, result, main, rows, arrived, taps, pulls, remote>>

Write(w) == queue' = Append(queue, w) /\ taps < MaxTaps /\ taps' = taps + 1

Effect(w, s) == IF w.kind = "union" THEN s \cup {w.event} ELSE s \ {w.event}

Commit ==
    /\ queue # <<>> /\ result = "none"
    /\ \/ going' = Effect(Head(queue), going) /\ result' = "ok"
       \/ "write" \in MayFail /\ UNCHANGED going /\ result' = "error"
    /\ UNCHANGED <<known, synced, queue, listeners, main, rows, arrived, taps, pulls, remote>>

\* The answer: a taken write becomes part of what the device knows, a refused
\* one leaves the view.
Acknowledge ==
    /\ result # "none"
    /\ queue' = Tail(queue) /\ result' = "none"
    /\ known' = IF result = "ok" THEN Effect(Head(queue), known) ELSE known
    /\ UNCHANGED <<going, synced, listeners, rows, arrived, taps, pulls, remote>>
    /\ Raise

\* I join or leave on another device, or an event is deleted.
RemoteChange(e) ==
    /\ remote < MaxRemote /\ remote' = remote + 1
    /\ going' = IF e \in going THEN going \ {e} ELSE going \cup {e}
    /\ UNCHANGED <<client, rows, arrived, taps, pulls>>

-----------------------------------------------------------------------------
(* The tab *)

Earlier(a, b) == DateOf[a] < DateOf[b] \/ (DateOf[a] = DateOf[b] /\ a < b)

\* Mutant: a snapshot's rows join those that are there.
ParsedAppended(s) == rows \o SetToSortSeq(s, Earlier)

\* The documents of a snapshot, by date; they come in the order of their ids.
Parsed(s) == CHOOSE r \in SetToSeqs(s) : \A i, j \in DOMAIN r : i < j => Earlier(r[i], r[j])

UserDataArrives ==
    /\ ~arrived /\ arrived' = TRUE
    /\ UNCHANGED <<going, client, rows, taps, pulls, remote>>

\* fetchUserEvents: one more listener, told at once what there is.
FetchUserEvents ==
    /\ arrived
    /\ pulls < MaxPulls /\ pulls' = pulls + 1
    /\ listeners' = listeners + 1
    /\ main' = IF synced THEN Append(main, View) ELSE main
    /\ UNCHANGED <<going, known, synced, queue, result, rows, arrived, taps, remote>>

\* The listener's block: the list is replaced.
SnapshotArrives ==
    /\ main # <<>>
    /\ rows' = Parsed(Head(main))
    /\ main' = Tail(main)
    /\ UNCHANGED <<going, known, synced, queue, result, listeners, arrived, taps, pulls, remote>>

\* Mutant: the row goes, the attendance stays.
SwipeRowOnly(i) ==
    /\ rows' = RemoveAt(rows, i)
    /\ UNCHANGED <<going, client, arrived, taps, pulls, remote>>

\* onDelete: the update is made and its row removed before the echo comes.
Swipe(i) ==
    /\ Write(Leave(rows[i]))
    /\ rows' = RemoveAt(rows, i)
    /\ UNCHANGED <<going, known, synced, result, listeners, arrived, pulls, remote>>
    /\ Raise

\* The Add button of an event's page ends in an arrayUnion.
Add(e) ==
    /\ arrived /\ e \notin View
    /\ Write(Join(e))
    /\ UNCHANGED <<going, known, synced, result, listeners, rows, arrived, pulls, remote>>
    /\ Raise

-----------------------------------------------------------------------------

Next ==
    \/ Watch \/ ListenFails \/ Commit \/ Acknowledge
    \/ UserDataArrives \/ FetchUserEvents \/ SnapshotArrives
    \/ \E i \in DOMAIN rows : Swipe(i)
    \/ \E e \in Event : Add(e) \/ RemoteChange(e)

Spec == Init /\ [][Next]_vars

\* The client keeps its streams open and retries; the main queue is served.
Fairness == WF_vars(Watch) /\ WF_vars(Commit) /\ WF_vars(Acknowledge) /\ WF_vars(SnapshotArrives)

FairSpec == Spec /\ Fairness

-----------------------------------------------------------------------------
(* Properties *)

\* The hand-written removal of a swiped row and the listeners' replacements
\* never leave the list apart from the query: with every snapshot delivered it
\* is the device's view, by date, and until then the last one will make it so.
ListFollowsView ==
    (synced /\ listeners > 0) =>
        IF main = <<>> THEN rows = Parsed(View) ELSE Last(main) = View

\* However many listeners there are and whichever swipes are refused, when
\* people and other devices rest the list comes to show what I attend.
ListSettles == <>[](listeners > 0 => rows = Parsed(going))
=============================================================================
