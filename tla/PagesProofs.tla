----------------------------- MODULE PagesProofs -----------------------------
(***************************************************************************)
(* What TLAPS proves of the pages beside the Events tab, for any people,   *)
(* photos, events and forms, and any number of loads, taps, crashes and    *)
(* failures: the attendees' list loses nobody and repeats nobody but by    *)
(* overlapping loads, the gallery is whole, My Plans follows the device's  *)
(* view of its query, no profile is blanked by a late sign-in, the form    *)
(* saved last is what the device sees, and all of it has its type.         *)
(***************************************************************************)
EXTENDS Pages, SequenceFacts

(***************************************************************************)
(* The attendees of an event                                               *)
(***************************************************************************)

Stages == {"event", "clear", "names"}

AttendeesTyped ==
    /\ attending \subseteq People
    /\ stage \in Seq(Stages) /\ Len(stage) <= MaxAppearances
    /\ ids \in Seq(SUBSET People) /\ Len(ids) = Len(stage)
    /\ pending \in Seq(SUBSET People) /\ Len(pending) = Len(stage)
    /\ attendees \in Seq(Profiles)
    /\ page \in [of : People \cup {NoPerson}, shown : BOOLEAN]
    /\ overlaps \in Nat /\ overlaps <= Len(stage)
    /\ changes \in 0..MaxComings

\* Loads reach each stage in the order they began, and ask for names last.
LoadsInOrder ==
    /\ \A k, l \in DOMAIN stage : k < l =>
          /\ stage[k] = "event" => stage[l] = "event"
          /\ stage[k] = "clear" => stage[l] # "names"
    /\ \A l \in DOMAIN stage : stage[l] # "names" => pending[l] = {}

\* Who the load that cleared the list last has found is listed or awaited.
NobodyLost ==
    \A l \in DOMAIN stage :
        stage[l] = "names" /\ (\A k \in DOMAIN stage : k > l => stage[k] # "names")
        => \A p \in ids[l] \cap Profiles : p \in pending[l] \/ \E i \in DOMAIN attendees : attendees[i] = p

BusyLoads == {l \in DOMAIN stage : stage[l] # "names" \/ pending[l] # {}}
AwaitedBy(p) == {l \in DOMAIN stage : p \in pending[l]}
PlacesOf(p) == {i \in DOMAIN attendees : attendees[i] = p}

\* Loads are busy at once only by overlapping; each may still list a name once.
OverlapsCounted ==
    /\ Cardinality(BusyLoads) <= 1 + overlaps
    /\ \A p \in People : Cardinality(PlacesOf(p)) + Cardinality(AwaitedBy(p)) <= 1 + overlaps

AttendeesInv ==
    /\ AttendeesTyped /\ LoadsInOrder /\ OverlapsCounted
    /\ visit = "attendees" => NobodyLost

-----------------------------------------------------------------------------

LEMMA AttendeesAssumed ==
    /\ Profiles \subseteq People /\ NoPerson \notin People
    /\ MaxAppearances \in Nat /\ MaxComings \in Nat
BY PagesAssumption DEF Attendees!AttendeesAssumption

\* A step of the pages is one of this page, or does not touch it.
LEMMA AttendeesVisited ==
    ASSUME [PagesNext]_pageVars
    PROVE  /\ UNCHANGED visit
           /\ \/ UNCHANGED attendeesVars
              \/ visit = "attendees" /\ Attendees!Next
              \/ visit = "attendees failing" /\ AttendeesFailing!Next
BY Zenon DEF PagesNext, Only, pageVars

\* What a step does when reads succeed it may also do when they may fail.
LEMMA AttendeesCalm ==
    /\ Attendees!Load => AttendeesFailing!Load
    /\ Attendees!Back => AttendeesFailing!Back
    /\ Attendees!PersonArrives => AttendeesFailing!PersonArrives
    /\ \A l : Attendees!EventRead(l) => AttendeesFailing!EventRead(l)
    /\ \A l : Attendees!Clear(l) => AttendeesFailing!Clear(l)
    /\ \A l, p : Attendees!NameArrives(l, p) =>
          AttendeesFailing!NameArrives(l, p) /\ attendees' = Attendees!Named(p)
    /\ \A i : Attendees!OpenPerson(i) => AttendeesFailing!OpenPerson(i)
    /\ \A p : Attendees!Change(p) => AttendeesFailing!Change(p)
<1>1. Attendees!Begin => AttendeesFailing!Begin
  BY DEF Attendees!Begin, AttendeesFailing!Begin, Attendees!Loads, AttendeesFailing!Loads,
         Attendees!Busy, AttendeesFailing!Busy
<1>2. /\ Attendees!Load => AttendeesFailing!Load
      /\ Attendees!Back => AttendeesFailing!Back
  BY <1>1 DEF Attendees!Load, AttendeesFailing!Load, Attendees!Back, AttendeesFailing!Back,
              Attendees!Closed, AttendeesFailing!Closed
<1>3. Attendees!PersonArrives => AttendeesFailing!PersonArrives
  BY DEF Attendees!PersonArrives, AttendeesFailing!PersonArrives
<1>4. \A l : Attendees!EventRead(l) => AttendeesFailing!EventRead(l)
  BY DEF Attendees!EventRead, AttendeesFailing!EventRead
<1>5. \A l : Attendees!Clear(l) => AttendeesFailing!Clear(l)
  BY DEF Attendees!Clear, AttendeesFailing!Clear, Attendees!Cleared, AttendeesFailing!Cleared
<1>6. \A l, p : Attendees!NameArrives(l, p) =>
         AttendeesFailing!NameArrives(l, p) /\ attendees' = Attendees!Named(p)
  BY DEF Attendees!NameArrives, AttendeesFailing!NameArrives, Attendees!Named,
         AttendeesFailing!Named
<1>7. \A i : Attendees!OpenPerson(i) => AttendeesFailing!OpenPerson(i)
  BY DEF Attendees!OpenPerson, AttendeesFailing!OpenPerson, Attendees!Closed, AttendeesFailing!Closed
<1>8. \A p : Attendees!Change(p) => AttendeesFailing!Change(p)
  BY DEF Attendees!Change, AttendeesFailing!Change
<1>9. QED BY <1>2, <1>3, <1>4, <1>5, <1>6, <1>7, <1>8

LEMMA LoadsAt ==
    ASSUME AttendeesTyped
    PROVE  /\ Len(stage) \in Nat /\ DOMAIN stage = 1..Len(stage)
           /\ DOMAIN ids = DOMAIN stage /\ DOMAIN pending = DOMAIN stage
           /\ \A l \in DOMAIN stage :
                 l \in Nat /\ stage[l] \in Stages /\ ids[l] \subseteq People /\ pending[l] \subseteq People
<1>1. /\ stage \in Seq(Stages) /\ ids \in Seq(SUBSET People) /\ Len(ids) = Len(stage)
      /\ pending \in Seq(SUBSET People) /\ Len(pending) = Len(stage)
  BY DEF AttendeesTyped
<1>2. /\ Len(stage) \in Nat /\ DOMAIN stage = 1..Len(stage)
      /\ DOMAIN ids = DOMAIN stage /\ DOMAIN pending = DOMAIN stage
  BY <1>1, SeqAt
<1>3. \A l \in DOMAIN stage : l \in Nat /\ stage[l] \in Stages
  BY <1>1, SeqAt
<1>4. \A l \in DOMAIN ids : ids[l] \in SUBSET People
  BY <1>1, SeqAt
<1>5. \A l \in DOMAIN pending : pending[l] \in SUBSET People
  BY <1>1, SeqAt
<1>6. QED BY <1>2, <1>3, <1>4, <1>5

LEMMA LoadsFinite ==
    ASSUME AttendeesTyped
    PROVE  /\ IsFiniteSet(BusyLoads) /\ \A p : IsFiniteSet(AwaitedBy(p)) /\ IsFiniteSet(PlacesOf(p))
<1>1. attendees \in Seq(Profiles)
  BY DEF AttendeesTyped
<1>2. /\ Len(stage) \in Nat /\ DOMAIN stage = 1..Len(stage)
      /\ Len(attendees) \in Nat /\ DOMAIN attendees = 1..Len(attendees)
  BY <1>1, LoadsAt, SeqAt
<1>3. IsFiniteSet(DOMAIN stage) /\ IsFiniteSet(DOMAIN attendees)
  BY <1>2, FS_Interval
<1>4. /\ BusyLoads \subseteq DOMAIN stage
      /\ \A p : AwaitedBy(p) \subseteq DOMAIN stage /\ PlacesOf(p) \subseteq DOMAIN attendees
  BY DEF BusyLoads, AwaitedBy, PlacesOf
<1>5. QED BY <1>3, <1>4, FS_Subset

LEMMA LoadBegins ==
    ASSUME AttendeesTyped, LoadsInOrder, OverlapsCounted, AttendeesFailing!Begin, UNCHANGED attendees
    PROVE  /\ stage' \in Seq(Stages) /\ Len(stage') <= MaxAppearances
           /\ ids' \in Seq(SUBSET People) /\ Len(ids') = Len(stage')
           /\ pending' \in Seq(SUBSET People) /\ Len(pending') = Len(stage')
           /\ overlaps' \in Nat /\ overlaps' <= Len(stage')
           /\ LoadsInOrder' /\ OverlapsCounted'
           /\ NobodyLost => NobodyLost'
<1> DEFINE n == Len(stage)
<1>1. /\ stage' = Append(stage, "event") /\ ids' = Append(ids, {}) /\ pending' = Append(pending, {})
      /\ n < MaxAppearances
      /\ overlaps' = overlaps + (IF \E l \in DOMAIN stage : stage[l] # "names" \/ pending[l] # {} THEN 1 ELSE 0)
  BY DEF AttendeesFailing!Begin, AttendeesFailing!Loads, AttendeesFailing!Busy
<1>2. /\ stage \in Seq(Stages) /\ "event" \in Stages /\ {} \in SUBSET People
      /\ ids \in Seq(SUBSET People) /\ pending \in Seq(SUBSET People)
      /\ Len(ids) = n /\ Len(pending) = n
  BY DEF AttendeesTyped, Stages
<1>3. /\ n \in Nat /\ DOMAIN stage = 1..n
      /\ \A l \in 1..n : l \in Nat /\ stage[l] \in Stages /\ ids[l] \subseteq People /\ pending[l] \subseteq People
  BY LoadsAt
<1>4. /\ stage' \in Seq(Stages) /\ Len(stage') = n + 1 /\ DOMAIN stage' = 1..(n + 1)
      /\ (\A l \in 1..n : stage'[l] = stage[l]) /\ stage'[n + 1] = "event"
  BY <1>1, <1>2, AppendAt
<1>5. /\ ids' \in Seq(SUBSET People) /\ Len(ids') = n + 1
      /\ (\A l \in 1..n : ids'[l] = ids[l]) /\ ids'[n + 1] = {}
  BY <1>1, <1>2, AppendAt
<1>6. /\ pending' \in Seq(SUBSET People) /\ Len(pending') = n + 1
      /\ (\A l \in 1..n : pending'[l] = pending[l]) /\ pending'[n + 1] = {}
  BY <1>1, <1>2, AppendAt
<1>7. overlaps \in Nat /\ overlaps <= n /\ MaxAppearances \in Nat
  BY AttendeesAssumed DEF AttendeesTyped
<1>8. overlaps' = overlaps + (IF BusyLoads # {} THEN 1 ELSE 0)
  BY <1>1 DEF BusyLoads
<1> HIDE DEF n
<1>9. n + 1 <= MaxAppearances /\ overlaps' \in Nat /\ overlaps' <= n + 1
  BY <1>1, <1>3, <1>7, <1>8
<1>10. n + 1 \notin 1..n /\ 1..(n + 1) = 1..n \cup {n + 1}
  BY <1>3
<1>11. LoadsInOrder'
  <2>1. \A l \in DOMAIN stage' : stage'[l] # "names" => pending'[l] = {}
    BY <1>3, <1>4, <1>6, <1>10 DEF LoadsInOrder
  <2>2. ASSUME NEW k \in DOMAIN stage', NEW l \in DOMAIN stage', k < l
        PROVE  /\ stage'[k] = "event" => stage'[l] = "event"
               /\ stage'[k] = "clear" => stage'[l] # "names"
    <3>1. k \in 1..n
      BY <1>3, <1>4, <2>2
    <3>2. CASE l \in 1..n
      BY <1>3, <1>4, <2>2, <3>1, <3>2 DEF LoadsInOrder
    <3>3. CASE l = n + 1
      BY <1>4, <3>3
    <3>4. QED BY <1>4, <1>10, <3>2, <3>3
  <2>3. QED BY <2>1, <2>2 DEF LoadsInOrder
<1>12. OverlapsCounted'
  <2>1. BusyLoads' = BusyLoads \cup {n + 1} /\ n + 1 \notin BusyLoads
    <3>1. "event" # "names"
      OBVIOUS
    <3>2. QED BY <1>3, <1>4, <1>6, <1>10, <3>1 DEF BusyLoads
  <2>2. \A p : AwaitedBy(p)' = AwaitedBy(p) /\ PlacesOf(p)' = PlacesOf(p)
    <3>1. \A p : AwaitedBy(p)' = AwaitedBy(p)
      BY <1>3, <1>4, <1>6, <1>10 DEF AwaitedBy
    <3>2. \A p : PlacesOf(p)' = PlacesOf(p)
      BY DEF PlacesOf
    <3>3. QED BY <3>1, <3>2
  <2>3. IsFiniteSet(BusyLoads) /\ Cardinality(BusyLoads) \in Nat
    BY LoadsFinite, FS_CardinalityType
  <2>4. Cardinality(BusyLoads') = Cardinality(BusyLoads) + 1
    BY <2>1, <2>3, FS_AddElement
  <2>5. BusyLoads = {} => Cardinality(BusyLoads) = 0
    BY FS_EmptySet
  <2>6. Cardinality(BusyLoads') <= 1 + overlaps'
    BY <1>7, <1>8, <2>3, <2>4, <2>5 DEF OverlapsCounted
  <2>7. \A p \in People : Cardinality(PlacesOf(p))' + Cardinality(AwaitedBy(p))' <= 1 + overlaps'
    <3>1. SUFFICES ASSUME NEW p \in People
                   PROVE  Cardinality(PlacesOf(p)') + Cardinality(AwaitedBy(p)') <= 1 + overlaps'
      OBVIOUS
    <3> DEFINE a == Cardinality(PlacesOf(p))
               b == Cardinality(AwaitedBy(p))
    <3>2. a \in Nat /\ b \in Nat /\ a + b <= 1 + overlaps
      BY LoadsFinite, FS_CardinalityType DEF OverlapsCounted
    <3>3. Cardinality(PlacesOf(p)') = a /\ Cardinality(AwaitedBy(p)') = b
      BY <2>2
    <3> HIDE DEF a, b
    <3>4. a + b <= 1 + overlaps'
      BY <1>7, <1>8, <3>2
    <3>5. QED BY <3>3, <3>4
  <2>8. QED BY <2>6, <2>7 DEF OverlapsCounted
<1>13. NobodyLost => NobodyLost'
  <2>1. SUFFICES ASSUME NobodyLost,
                        NEW l \in DOMAIN stage', stage'[l] = "names",
                        \A k \in DOMAIN stage' : k > l => stage'[k] # "names",
                        NEW p \in ids'[l] \cap Profiles
                 PROVE  p \in pending'[l] \/ \E i \in DOMAIN attendees' : attendees'[i] = p
    BY DEF NobodyLost
  <2>2. l \in 1..n /\ stage[l] = "names" /\ p \in ids[l] \cap Profiles /\ pending'[l] = pending[l]
    BY <1>4, <1>5, <1>6, <1>10, <2>1
  <2>3. \A k \in DOMAIN stage : k > l => stage[k] # "names"
    BY <1>3, <1>4, <1>10, <2>1
  <2>4. QED BY <1>3, <2>1, <2>2, <2>3 DEF NobodyLost
<1>14. QED BY <1>4, <1>5, <1>6, <1>9, <1>11, <1>12, <1>13

LEMMA EventIsRead ==
    ASSUME AttendeesTyped, LoadsInOrder, OverlapsCounted,
           NEW l \in DOMAIN stage, AttendeesFailing!EventRead(l)
    PROVE  AttendeesTyped' /\ LoadsInOrder' /\ OverlapsCounted' /\ (NobodyLost => NobodyLost')
<1>1. /\ stage[l] = "event" /\ \A k \in 1..(l - 1) : stage[k] # "event"
      /\ stage' = [stage EXCEPT ![l] = "clear"]
      /\ UNCHANGED <<attending, pending, attendees, page, overlaps, changes>>
  BY DEF AttendeesFailing!EventRead
<1>2. PICK read \in SUBSET People : ids' = [ids EXCEPT ![l] = read]
  BY DEF AttendeesFailing!EventRead, AttendeesTyped
<1>3. /\ Len(stage) \in Nat /\ DOMAIN stage = 1..Len(stage)
      /\ DOMAIN ids = DOMAIN stage /\ DOMAIN pending = DOMAIN stage
      /\ \A m \in DOMAIN stage : m \in Nat
  BY LoadsAt
<1>4. /\ stage' \in Seq(Stages) /\ Len(stage') = Len(stage) /\ DOMAIN stage' = DOMAIN stage
      /\ stage'[l] = "clear" /\ \A m \in DOMAIN stage : m # l => stage'[m] = stage[m]
  <2>1. stage \in Seq(Stages) /\ "clear" \in Stages
    BY DEF AttendeesTyped, Stages
  <2>2. QED BY <1>1, <2>1, ExceptAt
<1>5. /\ ids' \in Seq(SUBSET People) /\ Len(ids') = Len(ids)
      /\ \A m \in DOMAIN stage : m # l => ids'[m] = ids[m]
  <2>1. ids \in Seq(SUBSET People) /\ l \in DOMAIN ids
    BY <1>3 DEF AttendeesTyped
  <2>2. QED BY <1>2, <1>3, <2>1, ExceptAt
<1>6. AttendeesTyped'
  BY <1>1, <1>4, <1>5 DEF AttendeesTyped
<1>7. LoadsInOrder'
  <2>1. \A m \in DOMAIN stage' : stage'[m] # "names" => pending'[m] = {}
    BY <1>1, <1>4 DEF LoadsInOrder
  <2>2. \A k \in DOMAIN stage : k < l => k \in 1..(l - 1)
    BY <1>3
  <2>3. ASSUME NEW k \in DOMAIN stage', NEW m \in DOMAIN stage', k < m
        PROVE  /\ stage'[k] = "event" => stage'[m] = "event"
               /\ stage'[k] = "clear" => stage'[m] # "names"
    BY <1>1, <1>3, <1>4, <2>2, <2>3 DEF LoadsInOrder
  <2>4. QED BY <2>1, <2>3 DEF LoadsInOrder
<1>8. OverlapsCounted'
  <2>1. BusyLoads' = BusyLoads
    BY <1>1, <1>4 DEF BusyLoads
  <2>2. \A p : AwaitedBy(p)' = AwaitedBy(p) /\ PlacesOf(p)' = PlacesOf(p)
    BY <1>1 DEF AwaitedBy, PlacesOf
  <2>3. QED BY <1>1, <2>1, <2>2 DEF OverlapsCounted
<1>9. NobodyLost => NobodyLost'
  BY <1>1, <1>4, <1>5 DEF NobodyLost
<1>10. QED BY <1>6, <1>7, <1>8, <1>9

LEMMA ListIsCleared ==
    ASSUME AttendeesTyped, LoadsInOrder, OverlapsCounted,
           NEW l \in DOMAIN stage, AttendeesFailing!Clear(l)
    PROVE  AttendeesTyped' /\ LoadsInOrder' /\ OverlapsCounted' /\ NobodyLost'
<1>1. /\ stage[l] = "clear" /\ \A k \in 1..(l - 1) : stage[k] # "clear"
      /\ stage' = [stage EXCEPT ![l] = "names"] /\ attendees' = <<>>
      /\ pending' = [pending EXCEPT ![l] = ids[l]]
      /\ UNCHANGED <<attending, ids, page, overlaps, changes>>
  BY DEF AttendeesFailing!Clear, AttendeesFailing!Cleared
<1>2. /\ Len(stage) \in Nat /\ DOMAIN stage = 1..Len(stage)
      /\ DOMAIN ids = DOMAIN stage /\ DOMAIN pending = DOMAIN stage
      /\ (\A m \in DOMAIN stage : m \in Nat) /\ ids[l] \in SUBSET People
  BY LoadsAt
<1>3. /\ stage' \in Seq(Stages) /\ Len(stage') = Len(stage) /\ DOMAIN stage' = DOMAIN stage
      /\ stage'[l] = "names" /\ \A m \in DOMAIN stage : m # l => stage'[m] = stage[m]
  <2>1. stage \in Seq(Stages) /\ "names" \in Stages
    BY DEF AttendeesTyped, Stages
  <2>2. QED BY <1>1, <2>1, ExceptAt
<1>4. /\ pending' \in Seq(SUBSET People) /\ Len(pending') = Len(pending)
      /\ pending'[l] = ids[l] /\ \A m \in DOMAIN stage : m # l => pending'[m] = pending[m]
  <2>1. pending \in Seq(SUBSET People) /\ l \in DOMAIN pending
    BY <1>2 DEF AttendeesTyped
  <2>2. QED BY <1>1, <1>2, <2>1, ExceptAt
<1>5. AttendeesTyped'
  <2>1. attendees' \in Seq(Profiles)
    BY <1>1
  <2>2. QED BY <1>1, <1>3, <1>4, <2>1 DEF AttendeesTyped
<1>6. \A k \in DOMAIN stage : k < l => k \in 1..(l - 1)
  BY <1>2
<1>7. LoadsInOrder'
  <2>1. \A m \in DOMAIN stage' : stage'[m] # "names" => pending'[m] = {}
    BY <1>3, <1>4 DEF LoadsInOrder
  <2>2. ASSUME NEW k \in DOMAIN stage', NEW m \in DOMAIN stage', k < m
        PROVE  /\ stage'[k] = "event" => stage'[m] = "event"
               /\ stage'[k] = "clear" => stage'[m] # "names"
    BY <1>1, <1>3, <1>6, <2>2 DEF LoadsInOrder
  <2>3. QED BY <2>1, <2>2 DEF LoadsInOrder
<1>8. OverlapsCounted'
  <2>1. BusyLoads' \subseteq BusyLoads /\ \A p : AwaitedBy(p)' \subseteq BusyLoads
    BY <1>1, <1>3, <1>4 DEF BusyLoads, AwaitedBy
  <2>2. \A p : PlacesOf(p)' = {}
    BY <1>1 DEF PlacesOf
  <2>3. IsFiniteSet(BusyLoads) /\ Cardinality(BusyLoads) \in Nat
    BY LoadsFinite, FS_CardinalityType
  <2>4. Cardinality(BusyLoads) <= 1 + overlaps /\ overlaps' = overlaps /\ overlaps \in Nat
    BY <1>1 DEF OverlapsCounted, AttendeesTyped
  <2>5. \A S \in SUBSET BusyLoads : Cardinality(S) \in Nat /\ Cardinality(S) <= 1 + overlaps
    <3>1. \A S \in SUBSET BusyLoads : IsFiniteSet(S) /\ Cardinality(S) <= Cardinality(BusyLoads)
      BY <2>3, FS_Subset
    <3>2. \A S \in SUBSET BusyLoads : Cardinality(S) \in Nat
      BY <3>1, FS_CardinalityType
    <3>3. QED BY <2>3, <2>4, <3>1, <3>2
  <2>6. Cardinality({}) = 0
    BY FS_EmptySet
  <2>7. ASSUME NEW p \in People
        PROVE  Cardinality(PlacesOf(p)') + Cardinality(AwaitedBy(p)') <= 1 + overlaps'
    <3>1. Cardinality(PlacesOf(p)') = 0
      BY <2>2, <2>6
    <3>2. Cardinality(AwaitedBy(p)') \in Nat /\ Cardinality(AwaitedBy(p)') <= 1 + overlaps
      BY <2>1, <2>5
    <3>3. QED BY <2>4, <3>1, <3>2
  <2>8. Cardinality(BusyLoads') <= 1 + overlaps'
    BY <2>1, <2>4, <2>5
  <2>9. QED BY <2>7, <2>8 DEF OverlapsCounted
<1>9. NobodyLost'
  <2>1. SUFFICES ASSUME NEW m \in DOMAIN stage', stage'[m] = "names",
                        \A k \in DOMAIN stage' : k > m => stage'[k] # "names",
                        NEW p \in ids'[m] \cap Profiles
                 PROVE  p \in pending'[m]
    BY DEF NobodyLost
  <2>2. m = l
    <3>1. ~(l > m)
      BY <1>3, <2>1
    <3>2. ~(m > l)
      BY <1>1, <1>3, <2>1 DEF LoadsInOrder
    <3>3. l \in Nat /\ m \in Nat
      BY <1>2, <1>3
    <3>4. QED BY <3>1, <3>2, <3>3
  <2>3. QED BY <1>1, <1>4, <2>1, <2>2
<1>10. QED BY <1>5, <1>7, <1>8, <1>9

\* A read that failed leaves the list alone; one that did not keeps NobodyLost.
LEMMA NameIsListed ==
    ASSUME AttendeesTyped, LoadsInOrder, OverlapsCounted,
           NEW l \in DOMAIN stage, NEW p \in People, AttendeesFailing!NameArrives(l, p)
    PROVE  /\ AttendeesTyped' /\ LoadsInOrder' /\ OverlapsCounted'
           /\ NobodyLost /\ attendees' = Attendees!Named(p) => NobodyLost'
<1>1. /\ p \in pending[l] /\ pending' = [pending EXCEPT ![l] = pending[l] \ {p}]
      /\ UNCHANGED <<attending, stage, ids, page, overlaps, changes>>
  BY DEF AttendeesFailing!NameArrives
<1>2. /\ DOMAIN ids = DOMAIN stage /\ DOMAIN pending = DOMAIN stage
      /\ pending[l] \subseteq People
  BY LoadsAt
<1>3. /\ pending' \in Seq(SUBSET People) /\ Len(pending') = Len(pending)
      /\ pending'[l] = pending[l] \ {p} /\ \A m \in DOMAIN stage : m # l => pending'[m] = pending[m]
  <2>1. pending \in Seq(SUBSET People) /\ l \in DOMAIN pending /\ pending[l] \ {p} \in SUBSET People
    BY <1>2 DEF AttendeesTyped
  <2>2. QED BY <1>1, <1>2, <2>1, ExceptAt
<1>4. attendees \in Seq(Profiles)
  BY DEF AttendeesTyped
<1>5. \/ attendees' = attendees
      \/ p \in Profiles /\ attendees' = Append(attendees, p)
  BY DEF AttendeesFailing!NameArrives, AttendeesFailing!Named
<1> DEFINE n == Len(attendees) + 1
<1>6. /\ attendees' \in Seq(Profiles) /\ n \notin DOMAIN attendees
      /\ \A i \in DOMAIN attendees : i \in DOMAIN attendees' /\ attendees'[i] = attendees[i]
      /\ \A i \in DOMAIN attendees' : i \in DOMAIN attendees \/ (i = n /\ attendees'[n] = p)
  <2>1. Len(attendees) \in Nat /\ DOMAIN attendees = 1..Len(attendees)
    BY <1>4, SeqAt
  <2>2. n \notin 1..Len(attendees) /\ 1..n = 1..Len(attendees) \cup {n}
    BY <2>1
  <2>3. CASE attendees' = attendees
    BY <1>4, <2>1, <2>2, <2>3
  <2>4. CASE p \in Profiles /\ attendees' = Append(attendees, p)
    <3>1. /\ attendees' \in Seq(Profiles) /\ DOMAIN attendees' = 1..n
          /\ (\A i \in 1..Len(attendees) : attendees'[i] = attendees[i]) /\ attendees'[n] = p
      BY <1>4, <2>4, AppendAt
    <3>2. QED BY <2>1, <2>2, <3>1
  <2>5. QED BY <1>5, <2>3, <2>4
<1> HIDE DEF n
<1>7. AttendeesTyped'
  BY <1>1, <1>3, <1>6 DEF AttendeesTyped
<1>8. LoadsInOrder'
  <2>1. stage[l] = "names"
    BY <1>1 DEF LoadsInOrder
  <2>2. QED BY <1>1, <1>3, <2>1 DEF LoadsInOrder
<1>9. OverlapsCounted'
  <2>1. BusyLoads' \subseteq BusyLoads
    BY <1>1, <1>3 DEF BusyLoads
  <2>2. AwaitedBy(p)' = AwaitedBy(p) \ {l} /\ l \in AwaitedBy(p)
    BY <1>1, <1>2, <1>3 DEF AwaitedBy, AttendeesTyped
  <2>3. PlacesOf(p)' \subseteq PlacesOf(p) \cup {n} /\ n \notin PlacesOf(p)
    BY <1>6 DEF PlacesOf
  <2>4. \A q \in People : q # p => PlacesOf(q)' \subseteq PlacesOf(q) /\ AwaitedBy(q)' = AwaitedBy(q)
    <3>1. SUFFICES ASSUME NEW q \in People, q # p
                   PROVE  PlacesOf(q)' \subseteq PlacesOf(q) /\ AwaitedBy(q)' = AwaitedBy(q)
      OBVIOUS
    <3>2. PlacesOf(q)' \subseteq PlacesOf(q)
      BY <1>6, <3>1 DEF PlacesOf
    <3>3. \A m \in DOMAIN stage : q \in pending'[m] <=> q \in pending[m]
      BY <1>3, <3>1
    <3>4. QED BY <1>1, <3>2, <3>3 DEF AwaitedBy
  <2>5. overlaps' = overlaps /\ overlaps \in Nat
    BY <1>1 DEF AttendeesTyped
  <2>6. Cardinality(BusyLoads') <= 1 + overlaps'
    <3>1. IsFiniteSet(BusyLoads) /\ Cardinality(BusyLoads) \in Nat
      BY LoadsFinite, FS_CardinalityType
    <3>2. Cardinality(BusyLoads') <= Cardinality(BusyLoads) /\ IsFiniteSet(BusyLoads')
      BY <2>1, <3>1, FS_Subset
    <3>3. Cardinality(BusyLoads') \in Nat /\ Cardinality(BusyLoads) <= 1 + overlaps
      BY <3>2, FS_CardinalityType DEF OverlapsCounted
    <3>4. QED BY <2>5, <3>1, <3>2, <3>3
  <2>7. ASSUME NEW q \in People
        PROVE  Cardinality(PlacesOf(q)') + Cardinality(AwaitedBy(q)') <= 1 + overlaps'
    <3> DEFINE a == Cardinality(PlacesOf(q))
               b == Cardinality(AwaitedBy(q))
               c == Cardinality(PlacesOf(q)')
               d == Cardinality(AwaitedBy(q)')
    <3>1. /\ IsFiniteSet(PlacesOf(q)) /\ IsFiniteSet(AwaitedBy(q))
          /\ a \in Nat /\ b \in Nat /\ a + b <= 1 + overlaps
      BY LoadsFinite, FS_CardinalityType DEF OverlapsCounted
    <3>2. CASE q = p
      <4>1. d = b - 1
        BY <2>2, <3>1, <3>2, FS_RemoveElement
      <4>2. /\ IsFiniteSet(PlacesOf(q) \cup {n}) /\ Cardinality(PlacesOf(q) \cup {n}) = a + 1
        BY <2>3, <3>1, <3>2, FS_AddElement
      <4>3. c <= a + 1 /\ IsFiniteSet(PlacesOf(q)')
        BY <2>3, <3>2, <4>2, FS_Subset
      <4>4. c \in Nat
        BY <4>3, FS_CardinalityType
      <4> HIDE DEF a, b, c, d
      <4>5. c + d <= 1 + overlaps'
        BY <2>5, <3>1, <4>1, <4>3, <4>4
      <4>6. QED BY <4>5 DEF c, d
    <3>3. CASE q # p
      <4>1. d = b
        BY <2>4, <3>3
      <4>2. c <= a /\ IsFiniteSet(PlacesOf(q)')
        BY <2>4, <3>1, <3>3, FS_Subset
      <4>3. c \in Nat
        BY <4>2, FS_CardinalityType
      <4> HIDE DEF a, b, c, d
      <4>4. c + d <= 1 + overlaps'
        BY <2>5, <3>1, <4>1, <4>2, <4>3
      <4>5. QED BY <4>4 DEF c, d
    <3>4. QED BY <3>2, <3>3
  <2>8. QED BY <2>6, <2>7 DEF OverlapsCounted
<1>10. NobodyLost /\ attendees' = Attendees!Named(p) => NobodyLost'
  <2>1. SUFFICES ASSUME NobodyLost, attendees' = Attendees!Named(p),
                        NEW m \in DOMAIN stage, stage[m] = "names",
                        \A k \in DOMAIN stage : k > m => stage[k] # "names",
                        NEW q \in ids[m] \cap Profiles, q \notin pending'[m]
                 PROVE  \E i \in DOMAIN attendees' : attendees'[i] = q
    BY <1>1 DEF NobodyLost
  <2>2. CASE q \in pending[m]
    <3>1. q = p
      BY <1>3, <2>1, <2>2
    <3>2. attendees' = Append(attendees, p) /\ p \in Profiles
      BY <2>1, <3>1 DEF Attendees!Named
    <3>3. Len(attendees) + 1 \in DOMAIN attendees' /\ attendees'[Len(attendees) + 1] = p
      <4>1. /\ Len(attendees) + 1 \in Nat /\ DOMAIN attendees' = 1..(Len(attendees) + 1)
            /\ attendees'[Len(attendees) + 1] = p /\ Len(attendees) \in Nat
        BY <1>4, <3>2, AppendAt, SeqAt
      <4>2. QED BY <4>1
    <3>4. QED BY <3>1, <3>3
  <2>3. CASE q \notin pending[m]
    <3>1. PICK i \in DOMAIN attendees : attendees[i] = q
      BY <2>1, <2>3 DEF NobodyLost
    <3>2. QED BY <1>6, <3>1
  <2>4. QED BY <2>2, <2>3
<1>11. QED BY <1>7, <1>8, <1>9, <1>10

\* The other steps of the page.
LEMMA PageTurns ==
    ASSUME AttendeesTyped, LoadsInOrder, OverlapsCounted,
           \/ \E i \in DOMAIN attendees : AttendeesFailing!OpenPerson(i)
           \/ AttendeesFailing!PersonArrives
           \/ \E p \in People : AttendeesFailing!Change(p)
           \/ UNCHANGED attendeesVars
    PROVE  AttendeesTyped' /\ LoadsInOrder' /\ OverlapsCounted' /\ (NobodyLost => NobodyLost')
<1>1. UNCHANGED <<stage, ids, pending, attendees, overlaps>>
  BY DEF AttendeesFailing!OpenPerson, AttendeesFailing!PersonArrives, AttendeesFailing!Change,
         attendeesVars
<1>2. LoadsInOrder' /\ (NobodyLost => NobodyLost')
  BY <1>1 DEF LoadsInOrder, NobodyLost
<1>3. OverlapsCounted'
  <2>1. BusyLoads' = BusyLoads /\ \A p : AwaitedBy(p)' = AwaitedBy(p) /\ PlacesOf(p)' = PlacesOf(p)
    BY <1>1 DEF BusyLoads, AwaitedBy, PlacesOf
  <2>2. QED BY <1>1, <2>1 DEF OverlapsCounted
<1>4. /\ attending' \subseteq People /\ changes' \in 0..MaxComings
      /\ page' \in [of : People \cup {NoPerson}, shown : BOOLEAN]
  <2>1. CASE \E i \in DOMAIN attendees : AttendeesFailing!OpenPerson(i)
    <3>1. PICK i \in DOMAIN attendees : AttendeesFailing!OpenPerson(i)
      BY <2>1
    <3>2. attendees[i] \in People
      BY SeqAt, AttendeesAssumed DEF AttendeesTyped
    <3>3. QED BY <3>1, <3>2 DEF AttendeesFailing!OpenPerson, AttendeesTyped
  <2>2. CASE AttendeesFailing!PersonArrives
    BY <2>2 DEF AttendeesFailing!PersonArrives, AttendeesTyped
  <2>3. CASE \E p \in People : AttendeesFailing!Change(p)
    <3>1. PICK p \in People : AttendeesFailing!Change(p)
      BY <2>3
    <3>2. changes' \in 0..MaxComings
      BY <3>1, AttendeesAssumed DEF AttendeesFailing!Change, AttendeesTyped
    <3>3. attending' \subseteq People /\ page' = page
      BY <3>1 DEF AttendeesFailing!Change, AttendeesTyped
    <3>4. QED BY <3>2, <3>3 DEF AttendeesTyped
  <2>4. CASE UNCHANGED attendeesVars
    BY <2>4 DEF attendeesVars, AttendeesTyped
  <2>5. QED BY <2>1, <2>2, <2>3, <2>4
<1>5. AttendeesTyped'
  BY <1>1, <1>4 DEF AttendeesTyped
<1>6. QED BY <1>2, <1>3, <1>5

LEMMA AttendeesStep ==
    ASSUME AttendeesTyped, LoadsInOrder, OverlapsCounted, AttendeesFailing!Next
    PROVE  AttendeesTyped' /\ LoadsInOrder' /\ OverlapsCounted'
<1>1. CASE AttendeesFailing!Load \/ AttendeesFailing!Back
  <2>1. /\ AttendeesFailing!Begin /\ UNCHANGED <<attending, attendees, changes>>
        /\ page' = page \/ page' = [of |-> NoPerson, shown |-> FALSE]
    BY <1>1 DEF AttendeesFailing!Load, AttendeesFailing!Back, AttendeesFailing!Closed
  <2>2. /\ stage' \in Seq(Stages) /\ Len(stage') <= MaxAppearances
        /\ ids' \in Seq(SUBSET People) /\ Len(ids') = Len(stage')
        /\ pending' \in Seq(SUBSET People) /\ Len(pending') = Len(stage')
        /\ overlaps' \in Nat /\ overlaps' <= Len(stage')
        /\ LoadsInOrder' /\ OverlapsCounted'
    BY <2>1, LoadBegins
  <2>3. /\ attending' \subseteq People /\ attendees' \in Seq(Profiles)
        /\ changes' \in 0..MaxComings
    BY <2>1 DEF AttendeesTyped
  <2>4. page' \in [of : People \cup {NoPerson}, shown : BOOLEAN]
    <3>1. page \in [of : People \cup {NoPerson}, shown : BOOLEAN]
      BY DEF AttendeesTyped
    <3>2. [of |-> NoPerson, shown |-> FALSE] \in [of : People \cup {NoPerson}, shown : BOOLEAN]
      OBVIOUS
    <3>3. page' = page \/ page' = [of |-> NoPerson, shown |-> FALSE]
      BY <2>1
    <3>4. QED BY <3>1, <3>2, <3>3, Zenon
  <2>5. AttendeesTyped'
    BY <2>2, <2>3, <2>4 DEF AttendeesTyped
  <2>6. QED BY <2>2, <2>5
<1>2. CASE \E l \in DOMAIN stage : AttendeesFailing!LoadStep(l)
  BY <1>2, EventIsRead, ListIsCleared, NameIsListed DEF AttendeesFailing!LoadStep
<1>3. CASE \/ \E i \in DOMAIN attendees : AttendeesFailing!OpenPerson(i)
           \/ AttendeesFailing!PersonArrives
           \/ \E p \in People : AttendeesFailing!Change(p)
  BY <1>3, PageTurns
<1>4. QED BY <1>1, <1>2, <1>3 DEF AttendeesFailing!Next, AttendeesFailing!Loads

LEMMA CalmStep ==
    ASSUME AttendeesTyped, LoadsInOrder, OverlapsCounted, NobodyLost, Attendees!Next
    PROVE  AttendeesTyped' /\ LoadsInOrder' /\ OverlapsCounted' /\ NobodyLost'
<1>1. CASE Attendees!Load \/ Attendees!Back
  <2>1. AttendeesFailing!Load \/ AttendeesFailing!Back
    BY <1>1, AttendeesCalm
  <2>2. AttendeesFailing!Begin /\ UNCHANGED attendees
    BY <2>1 DEF AttendeesFailing!Load, AttendeesFailing!Back
  <2>3. AttendeesFailing!Next
    BY <2>1 DEF AttendeesFailing!Next
  <2>4. QED BY <2>2, <2>3, LoadBegins, AttendeesStep
<1>2. CASE \E l \in DOMAIN stage : Attendees!LoadStep(l)
  BY <1>2, AttendeesCalm, EventIsRead, ListIsCleared, NameIsListed DEF Attendees!LoadStep
<1>3. CASE \/ \E i \in DOMAIN attendees : Attendees!OpenPerson(i)
           \/ Attendees!PersonArrives
           \/ \E p \in People : Attendees!Change(p)
  BY <1>3, AttendeesCalm, PageTurns
<1>4. QED BY <1>1, <1>2, <1>3 DEF Attendees!Next, Attendees!Loads

LEMMA AttendeesInitially ==
    ASSUME PagesInit
    PROVE  AttendeesInv
<1>1. /\ attending \subseteq People /\ changes = 0 /\ overlaps = 0
      /\ stage = <<>> /\ ids = <<>> /\ pending = <<>> /\ attendees = <<>>
      /\ page = [of |-> NoPerson, shown |-> FALSE]
  BY DEF PagesInit, Attendees!Init, AttendeesFailing!Init, Attendees!Closed, AttendeesFailing!Closed
<1>2. AttendeesTyped
  BY <1>1, AttendeesAssumed DEF AttendeesTyped
<1>3. LoadsInOrder /\ NobodyLost
  BY <1>1 DEF LoadsInOrder, NobodyLost
<1>4. OverlapsCounted
  <2>1. BusyLoads = {} /\ \A p : AwaitedBy(p) = {} /\ PlacesOf(p) = {}
    BY <1>1 DEF BusyLoads, AwaitedBy, PlacesOf
  <2>2. Cardinality({}) = 0
    BY FS_EmptySet
  <2>3. Cardinality(BusyLoads) = 0 /\ 0 <= 1 + overlaps
    BY <1>1, <2>1, <2>2
  <2>4. \A p : Cardinality(PlacesOf(p)) + Cardinality(AwaitedBy(p)) = 0 + 0
    BY <2>1, <2>2
  <2>5. 0 + 0 = 0
    OBVIOUS
  <2>6. QED BY <2>3, <2>4, <2>5 DEF OverlapsCounted
<1>5. QED BY <1>2, <1>3, <1>4 DEF AttendeesInv

\* Whatever is visited, the loads of the list are in order, and count.
LEMMA AttendeesKept == PagesSpec => []AttendeesInv
<1>1. PagesInit => AttendeesInv
  BY AttendeesInitially
<1>2. AttendeesInv /\ [PagesNext]_pageVars => AttendeesInv'
  <2>1. SUFFICES ASSUME AttendeesInv, [PagesNext]_pageVars
                 PROVE  AttendeesInv'
    OBVIOUS
  <2>2. AttendeesTyped /\ LoadsInOrder /\ OverlapsCounted /\ (visit = "attendees" => NobodyLost)
    BY <2>1 DEF AttendeesInv
  <2>3. visit' = visit
    BY <2>1, AttendeesVisited
  <2>4. CASE UNCHANGED attendeesVars
    <3>1. AttendeesTyped' /\ LoadsInOrder' /\ OverlapsCounted' /\ (NobodyLost => NobodyLost')
      BY <2>2, <2>4, PageTurns
    <3>2. QED BY <2>2, <2>3, <3>1 DEF AttendeesInv
  <2>5. CASE visit = "attendees" /\ Attendees!Next
    BY <2>2, <2>3, <2>5, CalmStep DEF AttendeesInv
  <2>6. CASE visit = "attendees failing" /\ AttendeesFailing!Next
    <3>1. AttendeesTyped' /\ LoadsInOrder' /\ OverlapsCounted'
      BY <2>2, <2>6, AttendeesStep
    <3>2. visit' # "attendees"
      BY <2>3, <2>6
    <3>3. QED BY <3>1, <3>2 DEF AttendeesInv
  <2>7. QED BY <2>1, <2>4, <2>5, <2>6, AttendeesVisited
<1>3. QED BY <1>1, <1>2, PTL DEF PagesSpec

\* However the loads of fetchEventAttendees overlap and its answers are
\* ordered: when reads succeed, everybody with a profile whom the load that
\* cleared the list last has found is listed, or the answer is still to come.
THEOREM NobodyIsLost == PagesSpec => []NobodyIsMissing
<1>1. AttendeesInv => NobodyIsMissing
  BY DEF AttendeesInv, NobodyLost, NobodyIsMissing, Attendees!NobodyIsMissing, Attendees!Newest,
         Attendees!Loads, Attendees!Listed
<1>2. QED BY <1>1, AttendeesKept, PTL

\* Also when reads fail, a name is listed once more at most for each load of
\* fetchEventAttendees that was started while another was going on.
THEOREM NamesRepeatByOverlap == PagesSpec => []TwiceOnlyByOverlap
<1>1. AttendeesInv => TwiceOnlyByOverlap
  <2>1. SUFFICES ASSUME AttendeesInv, NEW p \in People
                 PROVE  AttendeesFailing!Copies(p) <= 1 + overlaps
    BY DEF TwiceOnlyByOverlap, AttendeesFailing!TwiceOnlyByOverlap
  <2> DEFINE a == Cardinality(PlacesOf(p))
             b == Cardinality(AwaitedBy(p))
  <2>2. a \in Nat /\ b \in Nat
    BY <2>1, LoadsFinite, FS_CardinalityType DEF AttendeesInv
  <2>3. a + b <= 1 + overlaps /\ overlaps \in Nat
    BY <2>1 DEF AttendeesInv, OverlapsCounted, AttendeesTyped
  <2>4. AttendeesFailing!Copies(p) = a
    BY DEF AttendeesFailing!Copies, AttendeesFailing!Cardinality, Cardinality, PlacesOf
  <2> HIDE DEF a, b
  <2>5. a <= 1 + overlaps
    BY <2>2, <2>3
  <2>6. QED BY <2>4, <2>5
<1>2. QED BY <1>1, AttendeesKept, PTL

(***************************************************************************)
(* The photos of an event                                                  *)
(***************************************************************************)

PhotoStages == {"list", "download", "show", "ended"}

PhotosTyped ==
    /\ stored \subseteq Shots /\ uploading \subseteq Shots /\ gallery \subseteq Shots
    /\ photoStage \in Seq(PhotoStages) /\ Len(photoStage) <= MaxOpenings
    /\ items \in Seq(SUBSET Shots) /\ Len(items) = Len(photoStage)
    /\ downloads \in Seq(SUBSET Shots) /\ Len(downloads) = Len(photoStage)
    /\ images \in Seq(SUBSET Shots) /\ Len(images) = Len(photoStage)
    /\ before \in Seq(SUBSET Shots) /\ Len(before) = Len(photoStage)
    /\ since \in Seq(Nat) /\ Len(since) = Len(photoStage)
    /\ notified \in Seq(DOMAIN photoStage) /\ shown \in Seq(DOMAIN photoStage)

\* A load downloads while it waits, and is on the main queue once, to be shown.
GalleryLoads ==
    /\ \A l \in DOMAIN photoStage :
          /\ photoStage[l] = "download" <=> downloads[l] # {}
          /\ since[l] <= Len(shown)
    /\ \A i \in DOMAIN notified : photoStage[notified[i]] = "show"
    /\ \A i, j \in DOMAIN notified : notified[i] = notified[j] => i = j

\* Only stored photos are listed, downloaded and shown. A load that nothing was
\* shown after began with the gallery's photos stored.
OnlyStored ==
    /\ \A l \in DOMAIN photoStage :
          /\ items[l] \subseteq stored /\ before[l] \subseteq stored
          /\ images[l] \subseteq items[l] /\ downloads[l] \subseteq items[l]
          /\ since[l] = Len(shown) => gallery \subseteq before[l]
    /\ gallery \subseteq stored
    /\ shown = <<>> => gallery = {}

\* A listing passes over nothing that was stored when its load began, and what
\* was listed is downloaded or awaited.
NothingPassedOver ==
    /\ \A l \in DOMAIN photoStage :
          /\ photoStage[l] = "list" =>
                \A p \in before[l] : p \in items[l] \/ \A q \in items[l] : q < p
          /\ photoStage[l] \in {"download", "show"} =>
                before[l] \ TooBig \subseteq images[l] \cup downloads[l]
    /\ shown # <<>> => before[Last(shown)] \ TooBig \subseteq gallery

PhotosInv ==
    /\ PhotosTyped /\ GalleryLoads /\ OnlyStored
    /\ visit = "photos" => NothingPassedOver

-----------------------------------------------------------------------------

LEMMA PhotosAssumed ==
    /\ Shots \subseteq Nat /\ TooBig \subseteq Shots
    /\ PageSize \in Nat \ {0} /\ MaxOpenings \in Nat
BY PagesAssumption DEF PhotosFailing!PhotosAssumption

\* A step of the pages is one of the gallery, or does not touch it.
LEMMA PhotosVisited ==
    ASSUME [PagesNext]_pageVars
    PROVE  /\ UNCHANGED visit
           /\ \/ UNCHANGED photosVars
              \/ visit = "photos" /\ Photos!Next
              \/ visit = "photos failing" /\ PhotosFailing!Next
BY DEF PagesNext, Only, pageVars

\* What a step does when requests succeed it may also do when they may fail.
LEMMA PhotosCalm ==
    /\ Photos!LoadImages => PhotosFailing!LoadImages
    /\ Photos!Show => PhotosFailing!Show
    /\ \A l : Photos!ListPage(l) => PhotosFailing!ListPage(l)
    /\ \A l : ~Photos!ListFails(l)
    /\ \A l, p : Photos!Downloaded(l, p) =>
          /\ PhotosFailing!Downloaded(l, p)
          /\ p \in TooBig \/ images' = [images EXCEPT ![l] = images[l] \cup {p}]
    /\ \A p : Photos!UploadEventPhoto(p) => PhotosFailing!UploadEventPhoto(p)
    /\ \A p : Photos!PutEnds(p) => PhotosFailing!PutEnds(p)
<1>1. Photos!LoadImages => PhotosFailing!LoadImages
  BY DEF Photos!LoadImages, PhotosFailing!LoadImages
<1>2. Photos!Show => PhotosFailing!Show
  BY DEF Photos!Show, PhotosFailing!Show, Photos!history, PhotosFailing!history
<1>3. \A l : Photos!Notify(l) => PhotosFailing!Notify(l)
  BY DEF Photos!Notify, PhotosFailing!Notify, Photos!Joined, PhotosFailing!Joined
<1>4. \A l : Photos!Page(l) = PhotosFailing!Page(l) /\ Photos!Rest(l) = PhotosFailing!Rest(l)
  BY DEF Photos!Page, PhotosFailing!Page, Photos!Rest, PhotosFailing!Rest, Photos!Cardinality,
         PhotosFailing!Cardinality
<1>5. \A l : Photos!ListPage(l) => PhotosFailing!ListPage(l)
  BY <1>3, <1>4 DEF Photos!ListPage, PhotosFailing!ListPage, Photos!LastPage, PhotosFailing!LastPage,
         Photos!history, PhotosFailing!history
<1>6. \A l : ~Photos!ListFails(l)
  BY DEF Photos!ListFails
<1>7. \A l, p : Photos!Downloaded(l, p) =>
         /\ PhotosFailing!Downloaded(l, p)
         /\ p \in TooBig \/ images' = [images EXCEPT ![l] = images[l] \cup {p}]
  BY <1>3 DEF Photos!Downloaded, PhotosFailing!Downloaded, Photos!history, PhotosFailing!history
<1>8. \A p : Photos!UploadEventPhoto(p) => PhotosFailing!UploadEventPhoto(p)
  BY DEF Photos!UploadEventPhoto, PhotosFailing!UploadEventPhoto, Photos!history, PhotosFailing!history,
         Photos!loads, PhotosFailing!loads
<1>9. \A p : Photos!PutEnds(p) => PhotosFailing!PutEnds(p)
  BY DEF Photos!PutEnds, PhotosFailing!PutEnds, Photos!history, PhotosFailing!history,
         Photos!loads, PhotosFailing!loads
<1>10. QED BY <1>1, <1>2, <1>5, <1>6, <1>7, <1>8, <1>9

LEMMA PhotosAt ==
    ASSUME PhotosTyped
    PROVE  /\ Len(photoStage) \in Nat /\ DOMAIN photoStage = 1..Len(photoStage)
           /\ DOMAIN items = DOMAIN photoStage /\ DOMAIN downloads = DOMAIN photoStage
           /\ DOMAIN images = DOMAIN photoStage /\ DOMAIN before = DOMAIN photoStage
           /\ DOMAIN since = DOMAIN photoStage /\ Len(shown) \in Nat
           /\ \A l \in DOMAIN photoStage :
                 /\ photoStage[l] \in PhotoStages /\ items[l] \in SUBSET Shots
                 /\ downloads[l] \in SUBSET Shots /\ images[l] \in SUBSET Shots
                 /\ before[l] \in SUBSET Shots /\ since[l] \in Nat
           /\ \A i \in DOMAIN notified : notified[i] \in DOMAIN photoStage
<1>1. /\ photoStage \in Seq(PhotoStages) /\ items \in Seq(SUBSET Shots) /\ downloads \in Seq(SUBSET Shots)
      /\ images \in Seq(SUBSET Shots) /\ before \in Seq(SUBSET Shots) /\ since \in Seq(Nat)
      /\ notified \in Seq(DOMAIN photoStage) /\ shown \in Seq(DOMAIN photoStage)
      /\ Len(items) = Len(photoStage) /\ Len(downloads) = Len(photoStage)
      /\ Len(images) = Len(photoStage) /\ Len(before) = Len(photoStage)
      /\ Len(since) = Len(photoStage)
  BY DEF PhotosTyped
<1>2. /\ Len(photoStage) \in Nat /\ DOMAIN photoStage = 1..Len(photoStage)
      /\ \A l \in DOMAIN photoStage : photoStage[l] \in PhotoStages
  BY <1>1, SeqAt
<1>3. \A s \in Seq(SUBSET Shots) :
         Len(s) = Len(photoStage) =>
            DOMAIN s = DOMAIN photoStage /\ \A l \in DOMAIN photoStage : s[l] \in SUBSET Shots
  BY <1>2, SeqAt
<1>4. DOMAIN since = DOMAIN photoStage /\ \A l \in DOMAIN photoStage : since[l] \in Nat
  BY <1>1, <1>2, SeqAt
<1>5. Len(shown) \in Nat /\ \A i \in DOMAIN notified : notified[i] \in DOMAIN photoStage
  BY <1>1, SeqAt
<1>6. QED BY <1>1, <1>2, <1>3, <1>4, <1>5

LEMMA GalleryOpens ==
    ASSUME PhotosTyped, GalleryLoads, OnlyStored, PhotosFailing!LoadImages
    PROVE  PhotosTyped' /\ GalleryLoads' /\ OnlyStored' /\ (NothingPassedOver => NothingPassedOver')
<1> DEFINE n == Len(photoStage)
<1>1. /\ n < MaxOpenings /\ photoStage' = Append(photoStage, "list")
      /\ items' = Append(items, {}) /\ downloads' = Append(downloads, {})
      /\ images' = Append(images, {}) /\ before' = Append(before, stored)
      /\ since' = Append(since, Len(shown))
      /\ UNCHANGED <<stored, uploading, notified, gallery, shown>>
  BY DEF PhotosFailing!LoadImages
<1>2. /\ n \in Nat /\ DOMAIN photoStage = 1..n /\ Len(shown) \in Nat
      /\ \A i \in DOMAIN notified : notified[i] \in 1..n
  BY PhotosAt
<1>3. /\ photoStage \in Seq(PhotoStages) /\ items \in Seq(SUBSET Shots) /\ downloads \in Seq(SUBSET Shots)
      /\ images \in Seq(SUBSET Shots) /\ before \in Seq(SUBSET Shots) /\ since \in Seq(Nat)
      /\ Len(items) = n /\ Len(downloads) = n /\ Len(images) = n /\ Len(before) = n /\ Len(since) = n
      /\ stored \in SUBSET Shots /\ {} \in SUBSET Shots /\ "list" \in PhotoStages
      /\ notified \in Seq(1..n) /\ shown \in Seq(1..n)
  BY <1>2 DEF PhotosTyped, PhotoStages
<1>4. /\ photoStage' \in Seq(PhotoStages) /\ Len(photoStage') = n + 1
      /\ DOMAIN photoStage' = 1..(n + 1)
      /\ (\A l \in 1..n : photoStage'[l] = photoStage[l]) /\ photoStage'[n + 1] = "list"
  BY <1>1, <1>3, AppendAt
<1>5. \A s \in Seq(SUBSET Shots), x \in SUBSET Shots :
         Len(s) = n =>
           /\ Append(s, x) \in Seq(SUBSET Shots) /\ Len(Append(s, x)) = n + 1
           /\ (\A l \in 1..n : Append(s, x)[l] = s[l]) /\ Append(s, x)[n + 1] = x
  BY AppendAt
<1>6. /\ items' \in Seq(SUBSET Shots) /\ Len(items') = n + 1
      /\ (\A l \in 1..n : items'[l] = items[l]) /\ items'[n + 1] = {}
  BY <1>1, <1>3, <1>5
<1>7. /\ downloads' \in Seq(SUBSET Shots) /\ Len(downloads') = n + 1
      /\ (\A l \in 1..n : downloads'[l] = downloads[l]) /\ downloads'[n + 1] = {}
  BY <1>1, <1>3, <1>5
<1>8. /\ images' \in Seq(SUBSET Shots) /\ Len(images') = n + 1
      /\ (\A l \in 1..n : images'[l] = images[l]) /\ images'[n + 1] = {}
  BY <1>1, <1>3, <1>5
<1>9. /\ before' \in Seq(SUBSET Shots) /\ Len(before') = n + 1
      /\ (\A l \in 1..n : before'[l] = before[l]) /\ before'[n + 1] = stored
  BY <1>1, <1>3, <1>5
<1>10. /\ since' \in Seq(Nat) /\ Len(since') = n + 1
       /\ (\A l \in 1..n : since'[l] = since[l]) /\ since'[n + 1] = Len(shown)
  BY <1>1, <1>2, <1>3, AppendAt
<1> HIDE DEF n
<1>11. n + 1 \notin 1..n /\ 1..(n + 1) = 1..n \cup {n + 1} /\ n + 1 <= MaxOpenings
  BY <1>1, <1>2, PhotosAssumed
<1>12. PhotosTyped'
  <2>1. notified \in Seq(1..(n + 1)) /\ shown \in Seq(1..(n + 1))
    BY <1>3, <1>11, SeqMore
  <2>2. /\ notified' \in Seq(DOMAIN photoStage') /\ shown' \in Seq(DOMAIN photoStage')
    BY <1>1, <1>4, <2>1
  <2>3. stored' \subseteq Shots /\ uploading' \subseteq Shots /\ gallery' \subseteq Shots
    BY <1>1 DEF PhotosTyped
  <2>4. QED BY <1>4, <1>6, <1>7, <1>8, <1>9, <1>10, <1>11, <2>2, <2>3 DEF PhotosTyped
<1>13. GalleryLoads'
  <2>1. ASSUME NEW l \in DOMAIN photoStage'
        PROVE  /\ photoStage'[l] = "download" <=> downloads'[l] # {}
               /\ since'[l] <= Len(shown')
    <3>1. CASE l \in 1..n
      BY <1>1, <1>2, <1>4, <1>7, <1>10, <3>1 DEF GalleryLoads
    <3>2. CASE l = n + 1
      <4>1. since'[l] <= Len(shown')
        BY <1>1, <1>2, <1>10, <3>2
      <4>2. photoStage'[l] # "download" /\ downloads'[l] = {}
        BY <1>4, <1>7, <3>2
      <4>3. QED BY <4>1, <4>2
    <3>3. QED BY <1>4, <1>11, <2>1, <3>1, <3>2
  <2>2. \A i \in DOMAIN notified' : photoStage'[notified'[i]] = "show"
    BY <1>1, <1>2, <1>4 DEF GalleryLoads
  <2>3. \A i, j \in DOMAIN notified' : notified'[i] = notified'[j] => i = j
    BY <1>1 DEF GalleryLoads
  <2>4. QED BY <2>1, <2>2, <2>3 DEF GalleryLoads
<1>14. OnlyStored'
  <2>1. ASSUME NEW l \in DOMAIN photoStage'
        PROVE  /\ items'[l] \subseteq stored' /\ before'[l] \subseteq stored'
               /\ images'[l] \subseteq items'[l] /\ downloads'[l] \subseteq items'[l]
               /\ since'[l] = Len(shown') => gallery' \subseteq before'[l]
    <3>1. CASE l \in 1..n
      BY <1>1, <1>2, <1>6, <1>7, <1>8, <1>9, <1>10, <3>1 DEF OnlyStored
    <3>2. CASE l = n + 1
      BY <1>1, <1>6, <1>7, <1>8, <1>9, <3>2 DEF OnlyStored
    <3>3. QED BY <1>4, <1>11, <2>1, <3>1, <3>2
  <2>2. gallery' \subseteq stored' /\ (shown' = <<>> => gallery' = {})
    BY <1>1 DEF OnlyStored
  <2>3. QED BY <2>1, <2>2 DEF OnlyStored
<1>15. ASSUME NothingPassedOver
       PROVE  NothingPassedOver'
  <2>1. ASSUME NEW l \in DOMAIN photoStage'
        PROVE  /\ photoStage'[l] = "list" =>
                     \A p \in before'[l] : p \in items'[l] \/ \A q \in items'[l] : q < p
               /\ photoStage'[l] \in {"download", "show"} =>
                     before'[l] \ TooBig \subseteq images'[l] \cup downloads'[l]
    <3>1. CASE l \in 1..n
      BY <1>2, <1>4, <1>6, <1>7, <1>8, <1>9, <1>15, <3>1 DEF NothingPassedOver
    <3>2. CASE l = n + 1
      BY <1>4, <1>6, <3>2
    <3>3. QED BY <1>4, <1>11, <2>1, <3>1, <3>2
  <2>2. shown' # <<>> => before'[Last(shown')] \ TooBig \subseteq gallery'
    <3>1. shown # <<>> => Last(shown) \in 1..n
      BY <1>3, SeqAt DEF Last
    <3>2. QED BY <1>1, <1>9, <1>15, <3>1 DEF NothingPassedOver
  <2>3. QED BY <2>1, <2>2 DEF NothingPassedOver
<1>16. QED BY <1>12, <1>13, <1>14, <1>15

\* Storing a photo, or sending one.
LEMMA PhotosArrive ==
    ASSUME PhotosTyped, GalleryLoads, OnlyStored,
           \/ \E p \in Shots : PhotosFailing!UploadEventPhoto(p) \/ PhotosFailing!PutEnds(p)
           \/ UNCHANGED photosVars
    PROVE  /\ PhotosTyped' /\ GalleryLoads' /\ OnlyStored' /\ (NothingPassedOver => NothingPassedOver')
           /\ UNCHANGED gallery
<1>1. /\ UNCHANGED <<photoStage, items, downloads, images, notified, gallery, shown, before, since>>
      /\ stored \subseteq stored' /\ stored' \subseteq Shots /\ uploading' \subseteq Shots
  BY DEF PhotosFailing!UploadEventPhoto, PhotosFailing!PutEnds, photosVars, PhotosTyped,
         PhotosFailing!loads, PhotosFailing!history
<1>2. PhotosTyped'
  BY <1>1 DEF PhotosTyped
<1>3. GalleryLoads'
  BY <1>1 DEF GalleryLoads
<1>4. OnlyStored'
  BY <1>1 DEF OnlyStored
<1>5. NothingPassedOver => NothingPassedOver'
  BY <1>1 DEF NothingPassedOver
<1>6. QED BY <1>1, <1>2, <1>3, <1>4, <1>5

\* A load that waits for some downloads d: it goes on the main queue for none.
LEMMA LoadJoins ==
    ASSUME PhotosTyped, GalleryLoads, NEW l \in DOMAIN photoStage, NEW d \in SUBSET Shots,
           photoStage[l] \in {"list", "download"},
           downloads' = [downloads EXCEPT ![l] = d], PhotosFailing!Notify(l),
           UNCHANGED <<since, shown>>
    PROVE  /\ photoStage' \in Seq(PhotoStages) /\ Len(photoStage') = Len(photoStage)
           /\ DOMAIN photoStage' = DOMAIN photoStage
           /\ photoStage'[l] \in {"download", "show"}
           /\ \A m \in DOMAIN photoStage : m # l => photoStage'[m] = photoStage[m]
           /\ downloads' \in Seq(SUBSET Shots) /\ Len(downloads') = Len(downloads)
           /\ downloads'[l] = d /\ \A m \in DOMAIN photoStage : m # l => downloads'[m] = downloads[m]
           /\ notified' \in Seq(DOMAIN photoStage)
           /\ GalleryLoads'
<1> DEFINE stageNow == IF d = {} THEN "show" ELSE "download"
<1>1. /\ DOMAIN downloads = DOMAIN photoStage /\ downloads \in Seq(SUBSET Shots)
      /\ photoStage \in Seq(PhotoStages) /\ stageNow \in PhotoStages
      /\ notified \in Seq(DOMAIN photoStage)
      /\ \A i \in DOMAIN notified : notified[i] \in DOMAIN photoStage
  BY PhotosAt DEF PhotosTyped, PhotoStages
<1>2. /\ downloads' \in Seq(SUBSET Shots) /\ Len(downloads') = Len(downloads)
      /\ downloads'[l] = d /\ \A m \in DOMAIN photoStage : m # l => downloads'[m] = downloads[m]
  BY <1>1, ExceptAt
<1>3. /\ photoStage' = [photoStage EXCEPT ![l] = stageNow]
      /\ notified' = IF d = {} THEN Append(notified, l) ELSE notified
  BY <1>2 DEF PhotosFailing!Notify, PhotosFailing!Joined
<1>4. /\ photoStage' \in Seq(PhotoStages) /\ Len(photoStage') = Len(photoStage)
      /\ DOMAIN photoStage' = DOMAIN photoStage /\ photoStage'[l] = stageNow
      /\ \A m \in DOMAIN photoStage : m # l => photoStage'[m] = photoStage[m]
  BY <1>1, <1>3, ExceptAt
<1>5. photoStage'[l] \in {"download", "show"} /\ (photoStage'[l] = "download" <=> d # {})
  BY <1>4
<1> HIDE DEF stageNow
<1>6. \A i \in DOMAIN notified : photoStage[notified[i]] = "show" /\ notified[i] # l
  BY DEF GalleryLoads
<1> DEFINE n == Len(notified) + 1
<1>7. /\ notified' \in Seq(DOMAIN photoStage)
      /\ \A i \in DOMAIN notified' :
            \/ i \in DOMAIN notified /\ notified'[i] = notified[i]
            \/ i = n /\ notified'[n] = l /\ d = {}
  <2>1. Len(notified) \in Nat /\ DOMAIN notified = 1..Len(notified)
    BY <1>1, SeqAt
  <2>2. 1..n = 1..Len(notified) \cup {n}
    BY <2>1
  <2>3. CASE d = {}
    <3>1. /\ notified' \in Seq(DOMAIN photoStage) /\ DOMAIN notified' = 1..n
          /\ (\A i \in 1..Len(notified) : notified'[i] = notified[i]) /\ notified'[n] = l
      BY <1>1, <1>3, <2>3, AppendAt
    <3>2. QED BY <2>1, <2>2, <2>3, <3>1
  <2>4. CASE d # {}
    BY <1>1, <1>3, <2>4
  <2>5. QED BY <2>3, <2>4
<1> HIDE DEF n
<1>8. GalleryLoads'
  <2>1. \A m \in DOMAIN photoStage' : photoStage'[m] = "download" <=> downloads'[m] # {}
    BY <1>2, <1>4, <1>5 DEF GalleryLoads
  <2>2. \A m \in DOMAIN photoStage' : since'[m] <= Len(shown')
    BY <1>4 DEF GalleryLoads
  <2>3. \A i \in DOMAIN notified' : photoStage'[notified'[i]] = "show"
    BY <1>1, <1>4, <1>5, <1>6, <1>7
  <2>4. \A i, j \in DOMAIN notified' : notified'[i] = notified'[j] => i = j
    BY <1>6, <1>7 DEF GalleryLoads
  <2>5. QED BY <2>1, <2>2, <2>3, <2>4 DEF GalleryLoads
<1>9. QED BY <1>2, <1>4, <1>5, <1>7, <1>8

\* The names of a page are smaller than those left for the next.
LEMMA PagesAreInOrder ==
    ASSUME stored \subseteq Nat, NEW l,
           NEW p \in PhotosFailing!Rest(l), p \notin PhotosFailing!Page(l),
           NEW q \in PhotosFailing!Page(l)
    PROVE  q < p
<1> DEFINE upTo(x) == {r \in PhotosFailing!Rest(l) : r <= x}
<1>1. /\ p \in Nat /\ q \in Nat /\ q \in PhotosFailing!Rest(l) /\ PhotosFailing!Rest(l) \subseteq Nat
      /\ Cardinality(upTo(q)) <= PageSize /\ ~(Cardinality(upTo(p)) <= PageSize)
  BY DEF PhotosFailing!Page, PhotosFailing!Rest, PhotosFailing!Cardinality, Cardinality
<1>2. SUFFICES ASSUME p <= q
               PROVE  FALSE
  BY <1>1
<1>3. upTo(p) \subseteq upTo(q) /\ upTo(q) \subseteq 0..q
  BY <1>1, <1>2
<1>4. IsFiniteSet(upTo(q))
  <2>1. IsFiniteSet(0..q)
    <3>1. 0 \in Int /\ q \in Int
      BY <1>1
    <3>2. QED BY <3>1, FS_Interval
  <2>2. QED BY <1>3, <2>1, FS_Subset
<1>5. Cardinality(upTo(p)) <= Cardinality(upTo(q)) /\ IsFiniteSet(upTo(p))
  BY <1>3, <1>4, FS_Subset
<1>6. Cardinality(upTo(p)) \in Nat /\ Cardinality(upTo(q)) \in Nat /\ PageSize \in Nat
  BY <1>4, <1>5, FS_CardinalityType, PhotosAssumed
<1> HIDE DEF upTo
<1>7. QED BY <1>1, <1>5, <1>6

LEMMA PageIsListed ==
    ASSUME PhotosTyped, GalleryLoads, OnlyStored, NEW l \in DOMAIN photoStage,
           PhotosFailing!ListPage(l)
    PROVE  /\ PhotosTyped' /\ GalleryLoads' /\ OnlyStored' /\ (NothingPassedOver => NothingPassedOver')
           /\ UNCHANGED gallery
<1> DEFINE all == items[l] \cup PhotosFailing!Page(l)
<1>1. /\ photoStage[l] = "list" /\ items' = [items EXCEPT ![l] = all]
      /\ UNCHANGED <<stored, uploading, images, gallery, shown, before, since>>
      /\ \/ /\ ~PhotosFailing!LastPage(l)
            /\ UNCHANGED <<photoStage, downloads, notified>>
         \/ /\ PhotosFailing!LastPage(l)
            /\ downloads' = [downloads EXCEPT ![l] = all] /\ PhotosFailing!Notify(l)
  BY DEF PhotosFailing!ListPage, PhotosFailing!history
<1>2. /\ stored \subseteq Shots /\ PhotosFailing!Page(l) \subseteq PhotosFailing!Rest(l)
      /\ PhotosFailing!Rest(l) \subseteq stored
      /\ DOMAIN items = DOMAIN photoStage /\ items[l] \subseteq stored /\ items \in Seq(SUBSET Shots)
  BY PhotosAt DEF PhotosTyped, OnlyStored, PhotosFailing!Page, PhotosFailing!Rest
<1>3. all \in SUBSET Shots /\ all \subseteq stored /\ items[l] \subseteq all
  BY <1>2
<1>4. /\ items' \in Seq(SUBSET Shots) /\ Len(items') = Len(items)
      /\ items'[l] = all /\ \A m \in DOMAIN photoStage : m # l => items'[m] = items[m]
  BY <1>1, <1>2, <1>3, ExceptAt
<1>5. \A p \in before[l] :
         NothingPassedOver => p \in all \/ (p \in PhotosFailing!Rest(l) /\ \A q \in all : q < p)
  <2>1. SUFFICES ASSUME NEW p \in before[l], NothingPassedOver, p \notin all
                 PROVE  p \in PhotosFailing!Rest(l) /\ \A q \in all : q < p
    OBVIOUS
  <2>2. p \in stored /\ \A q \in items[l] : q < p
    BY <1>1, <2>1 DEF NothingPassedOver, OnlyStored
  <2>3. p \in PhotosFailing!Rest(l)
    BY <2>2 DEF PhotosFailing!Rest
  <2>4. stored \subseteq Nat
    BY <1>2, PhotosAssumed
  <2>5. \A q \in PhotosFailing!Page(l) : q < p
    BY <2>1, <2>3, <2>4, PagesAreInOrder
  <2>6. QED BY <2>2, <2>3, <2>5
<1> HIDE DEF all
<1>6. CASE ~PhotosFailing!LastPage(l)
  <2>1. UNCHANGED <<photoStage, downloads, notified>>
    BY <1>1, <1>6
  <2>2. PhotosTyped'
    BY <1>1, <1>4, <2>1 DEF PhotosTyped
  <2>3. GalleryLoads'
    BY <1>1, <2>1 DEF GalleryLoads
  <2>4. OnlyStored'
    BY <1>1, <1>3, <1>4, <2>1 DEF OnlyStored
  <2>5. NothingPassedOver => NothingPassedOver'
    <3>1. SUFFICES ASSUME NothingPassedOver
                   PROVE  NothingPassedOver'
      OBVIOUS
    <3>2. \A m \in DOMAIN photoStage' :
             photoStage'[m] = "list" =>
                \A p \in before'[m] : p \in items'[m] \/ \A q \in items'[m] : q < p
      BY <1>1, <1>4, <1>5, <2>1, <3>1 DEF NothingPassedOver
    <3>3. \A m \in DOMAIN photoStage' :
             photoStage'[m] \in {"download", "show"} =>
                before'[m] \ TooBig \subseteq images'[m] \cup downloads'[m]
      BY <1>1, <2>1, <3>1 DEF NothingPassedOver
    <3>4. shown' # <<>> => before'[Last(shown')] \ TooBig \subseteq gallery'
      BY <1>1, <3>1 DEF NothingPassedOver
    <3>5. QED BY <3>2, <3>3, <3>4 DEF NothingPassedOver
  <2>6. QED BY <1>1, <2>2, <2>3, <2>4, <2>5
<1>7. CASE PhotosFailing!LastPage(l)
  <2>1. /\ photoStage' \in Seq(PhotoStages) /\ Len(photoStage') = Len(photoStage)
        /\ DOMAIN photoStage' = DOMAIN photoStage
        /\ photoStage'[l] \in {"download", "show"}
        /\ \A m \in DOMAIN photoStage : m # l => photoStage'[m] = photoStage[m]
        /\ downloads' \in Seq(SUBSET Shots) /\ Len(downloads') = Len(downloads)
        /\ downloads'[l] = all /\ \A m \in DOMAIN photoStage : m # l => downloads'[m] = downloads[m]
        /\ notified' \in Seq(DOMAIN photoStage)
        /\ GalleryLoads'
    BY <1>1, <1>3, <1>7, LoadJoins
  <2>2. PhotosTyped'
    BY <1>1, <1>4, <2>1 DEF PhotosTyped
  <2>3. OnlyStored'
    <3>1. images[l] \subseteq all
      BY <1>3 DEF OnlyStored
    <3>2. QED BY <1>1, <1>3, <1>4, <2>1, <3>1 DEF OnlyStored
  <2>4. NothingPassedOver => NothingPassedOver'
    <3>1. SUFFICES ASSUME NothingPassedOver
                   PROVE  NothingPassedOver'
      OBVIOUS
    <3>2. before[l] \subseteq all
      <4>1. PhotosFailing!Page(l) = PhotosFailing!Rest(l)
        BY <1>7 DEF PhotosFailing!LastPage
      <4>2. QED BY <1>5, <3>1, <4>1 DEF all
    <3>3. \A m \in DOMAIN photoStage' :
             photoStage'[m] = "list" =>
                \A p \in before'[m] : p \in items'[m] \/ \A q \in items'[m] : q < p
      BY <1>1, <1>4, <2>1, <3>1 DEF NothingPassedOver
    <3>4. \A m \in DOMAIN photoStage' :
             photoStage'[m] \in {"download", "show"} =>
                before'[m] \ TooBig \subseteq images'[m] \cup downloads'[m]
      BY <1>1, <2>1, <3>1, <3>2 DEF NothingPassedOver
    <3>5. shown' # <<>> => before'[Last(shown')] \ TooBig \subseteq gallery'
      BY <1>1, <3>1 DEF NothingPassedOver
    <3>6. QED BY <3>3, <3>4, <3>5 DEF NothingPassedOver
  <2>5. QED BY <1>1, <2>1, <2>2, <2>3, <2>4
<1>8. QED BY <1>6, <1>7

LEMMA ListingFails ==
    ASSUME PhotosTyped, GalleryLoads, OnlyStored, NEW l \in DOMAIN photoStage,
           PhotosFailing!ListFails(l)
    PROVE  PhotosTyped' /\ GalleryLoads' /\ OnlyStored'
<1>1. /\ photoStage[l] = "list" /\ photoStage' = [photoStage EXCEPT ![l] = "ended"]
      /\ UNCHANGED <<stored, uploading, items, downloads, images, notified, gallery, shown, before, since>>
  BY DEF PhotosFailing!ListFails, PhotosFailing!history
<1>2. photoStage \in Seq(PhotoStages) /\ "ended" \in PhotoStages
  BY DEF PhotosTyped, PhotoStages
<1>3. /\ photoStage' \in Seq(PhotoStages) /\ Len(photoStage') = Len(photoStage)
      /\ DOMAIN photoStage' = DOMAIN photoStage /\ photoStage'[l] = "ended"
      /\ \A m \in DOMAIN photoStage : m # l => photoStage'[m] = photoStage[m]
  BY <1>1, <1>2, ExceptAt
<1>4. PhotosTyped'
  BY <1>1, <1>3 DEF PhotosTyped
<1>5. GalleryLoads'
  <2>1. \A i \in DOMAIN notified : notified[i] \in DOMAIN photoStage /\ notified[i] # l
    BY <1>1, PhotosAt DEF GalleryLoads
  <2>2. QED BY <1>1, <1>3, <2>1 DEF GalleryLoads
<1>6. OnlyStored'
  BY <1>1, <1>3 DEF OnlyStored
<1>7. QED BY <1>4, <1>5, <1>6

LEMMA PhotoIsDownloaded ==
    ASSUME PhotosTyped, GalleryLoads, OnlyStored, NEW l \in DOMAIN photoStage, NEW p \in Shots,
           PhotosFailing!Downloaded(l, p)
    PROVE  /\ PhotosTyped' /\ GalleryLoads' /\ OnlyStored' /\ UNCHANGED gallery
           /\ /\ NothingPassedOver
              /\ p \in TooBig \/ images' = [images EXCEPT ![l] = images[l] \cup {p}]
              => NothingPassedOver'
<1> DEFINE d == downloads[l] \ {p}
<1>1. /\ p \in downloads[l] /\ downloads' = [downloads EXCEPT ![l] = d]
      /\ PhotosFailing!Notify(l)
      /\ UNCHANGED <<stored, uploading, items, gallery, shown, before, since>>
  BY DEF PhotosFailing!Downloaded, PhotosFailing!history
<1>2. /\ photoStage[l] = "download" /\ d \in SUBSET Shots /\ d \subseteq items[l] /\ p \in items[l]
      /\ images[l] \cup {p} \in SUBSET Shots /\ images \in Seq(SUBSET Shots)
      /\ DOMAIN images = DOMAIN photoStage
  BY <1>1, PhotosAt DEF GalleryLoads, OnlyStored, PhotosTyped
<1>3. images' = images \/ images' = [images EXCEPT ![l] = images[l] \cup {p}]
  BY DEF PhotosFailing!Downloaded
<1>4. /\ images' \in Seq(SUBSET Shots) /\ Len(images') = Len(images)
      /\ \A m \in DOMAIN photoStage : m # l => images'[m] = images[m]
      /\ images[l] \subseteq images'[l] /\ images'[l] \subseteq images[l] \cup {p}
      /\ images' = [images EXCEPT ![l] = images[l] \cup {p}] => p \in images'[l]
  <2>1. CASE images' = images
    <3>1. images' = [images EXCEPT ![l] = images[l] \cup {p}] => images'[l] = images[l] \cup {p}
      BY <1>2, ExceptAt
    <3>2. QED BY <1>2, <2>1, <3>1
  <2>2. CASE images' = [images EXCEPT ![l] = images[l] \cup {p}]
    <3>1. /\ images' \in Seq(SUBSET Shots) /\ Len(images') = Len(images)
          /\ images'[l] = images[l] \cup {p}
          /\ \A m \in DOMAIN photoStage : m # l => images'[m] = images[m]
      BY <1>2, <2>2, ExceptAt
    <3>2. QED BY <3>1
  <2>3. QED BY <1>3, <2>1, <2>2
<1>5. /\ photoStage' \in Seq(PhotoStages) /\ Len(photoStage') = Len(photoStage)
      /\ DOMAIN photoStage' = DOMAIN photoStage
      /\ photoStage'[l] \in {"download", "show"}
      /\ \A m \in DOMAIN photoStage : m # l => photoStage'[m] = photoStage[m]
      /\ downloads' \in Seq(SUBSET Shots) /\ Len(downloads') = Len(downloads)
      /\ downloads'[l] = d /\ \A m \in DOMAIN photoStage : m # l => downloads'[m] = downloads[m]
      /\ notified' \in Seq(DOMAIN photoStage)
      /\ GalleryLoads'
  BY <1>1, <1>2, LoadJoins
<1>6. PhotosTyped'
  BY <1>1, <1>4, <1>5 DEF PhotosTyped
<1>7. OnlyStored'
  <2>1. ASSUME NEW m \in DOMAIN photoStage
        PROVE  images'[m] \subseteq items[m] /\ downloads'[m] \subseteq items[m]
    BY <1>2, <1>4, <1>5, <2>1 DEF OnlyStored
  <2>2. QED BY <1>1, <1>5, <2>1 DEF OnlyStored
<1>8. ASSUME NothingPassedOver,
             p \in TooBig \/ images' = [images EXCEPT ![l] = images[l] \cup {p}]
      PROVE  NothingPassedOver'
  <2>1. p \in TooBig \/ p \in images'[l]
    BY <1>4, <1>8
  <2>2. before[l] \ TooBig \subseteq images'[l] \cup d
    <3>1. before[l] \ TooBig \subseteq images[l] \cup downloads[l]
      BY <1>2, <1>8 DEF NothingPassedOver
    <3>2. QED BY <1>4, <2>1, <3>1
  <2> HIDE DEF d
  <2>3. \A m \in DOMAIN photoStage' :
           photoStage'[m] = "list" =>
              \A q \in before'[m] : q \in items'[m] \/ \A r \in items'[m] : r < q
    BY <1>1, <1>5, <1>8 DEF NothingPassedOver
  <2>4. \A m \in DOMAIN photoStage' :
           photoStage'[m] \in {"download", "show"} =>
              before'[m] \ TooBig \subseteq images'[m] \cup downloads'[m]
    BY <1>1, <1>4, <1>5, <1>8, <2>2 DEF NothingPassedOver
  <2>5. shown' # <<>> => before'[Last(shown')] \ TooBig \subseteq gallery'
    BY <1>1, <1>8 DEF NothingPassedOver
  <2>6. QED BY <2>3, <2>4, <2>5 DEF NothingPassedOver
<1>9. QED BY <1>1, <1>5, <1>6, <1>7, <1>8

\* The load whose photos are shown was joined; if nothing was shown since it
\* began, it began with the gallery's photos stored.
LEMMA GalleryIsShown ==
    ASSUME PhotosTyped, GalleryLoads, OnlyStored, PhotosFailing!Show
    PROVE  /\ PhotosTyped' /\ GalleryLoads' /\ OnlyStored'
           /\ NothingPassedOver => NothingPassedOver'
           /\ NothingPassedOver => gallery \ TooBig \subseteq gallery' \/ since[Last(shown')] < Len(shown)
<1> DEFINE h == Head(notified)
<1>1. /\ notified # <<>> /\ notified' = Tail(notified) /\ gallery' = images[h]
      /\ photoStage' = [photoStage EXCEPT ![h] = "ended"] /\ shown' = Append(shown, h)
      /\ UNCHANGED <<stored, uploading, items, downloads, images, before, since>>
  BY DEF PhotosFailing!Show
<1>2. /\ notified \in Seq(DOMAIN photoStage) /\ shown \in Seq(DOMAIN photoStage)
      /\ photoStage \in Seq(PhotoStages) /\ "ended" \in PhotoStages
  BY DEF PhotosTyped, PhotoStages
<1>3. /\ h = notified[1] /\ h \in DOMAIN photoStage /\ 1 \in DOMAIN notified
      /\ notified' \in Seq(DOMAIN photoStage)
      /\ DOMAIN notified' = 1..(Len(notified) - 1)
      /\ \A i \in 1..(Len(notified) - 1) : notified'[i] = notified[i + 1] /\ i + 1 \in DOMAIN notified
  BY <1>1, <1>2, TailAt
<1> HIDE DEF h
<1>4. /\ shown' \in Seq(DOMAIN photoStage) /\ shown' # <<>>
      /\ Len(shown') = Len(shown) + 1 /\ Len(shown) \in Nat /\ Last(shown') = h
  <2>1. /\ shown' \in Seq(DOMAIN photoStage) /\ shown' # <<>>
        /\ Len(shown') = Len(shown) + 1 /\ shown'[Len(shown) + 1] = h
    <3>1. shown' = Append(shown, h) /\ h \in DOMAIN photoStage /\ shown \in Seq(DOMAIN photoStage)
      BY <1>1, <1>2, <1>3
    <3>2. QED BY <3>1, AppendAt
  <2>2. QED BY <1>2, <2>1, SeqAt DEF Last
<1>5. /\ photoStage' \in Seq(PhotoStages) /\ Len(photoStage') = Len(photoStage)
      /\ DOMAIN photoStage' = DOMAIN photoStage /\ photoStage'[h] = "ended"
      /\ \A m \in DOMAIN photoStage : m # h => photoStage'[m] = photoStage[m]
  BY <1>1, <1>2, <1>3, ExceptAt
<1>6. photoStage[h] = "show" /\ downloads[h] = {}
  BY <1>3 DEF GalleryLoads
<1>7. images[h] \subseteq items[h] /\ items[h] \subseteq stored /\ images[h] \subseteq Shots
  BY <1>3, PhotosAt DEF OnlyStored
<1>8. PhotosTyped'
  BY <1>1, <1>3, <1>4, <1>5, <1>7 DEF PhotosTyped
<1>9. \A m \in DOMAIN photoStage : since[m] \in Nat /\ since[m] <= Len(shown) /\ since[m] < Len(shown')
  BY <1>4, PhotosAt DEF GalleryLoads
<1>10. GalleryLoads'
  <2>1. \A m \in DOMAIN photoStage' : photoStage'[m] = "download" <=> downloads'[m] # {}
    BY <1>1, <1>5, <1>6 DEF GalleryLoads
  <2>2. \A m \in DOMAIN photoStage' : since'[m] <= Len(shown')
    BY <1>1, <1>4, <1>5, <1>9
  <2>3. Len(notified) \in Nat /\ DOMAIN notified = 1..Len(notified)
    BY <1>2, SeqAt
  <2>4. \A i \in DOMAIN notified' : i \in Nat /\ i + 1 # 1
    BY <1>3, <2>3
  <2>5. \A i \in DOMAIN notified' :
           notified'[i] # h /\ notified'[i] \in DOMAIN photoStage /\ photoStage[notified'[i]] = "show"
    <3>1. /\ \A i \in DOMAIN notified :
                notified[i] \in DOMAIN photoStage /\ photoStage[notified[i]] = "show"
          /\ \A i, j \in DOMAIN notified : notified[i] = notified[j] => i = j
      BY PhotosAt DEF GalleryLoads
    <3>2. SUFFICES ASSUME NEW i \in DOMAIN notified'
                   PROVE  /\ notified'[i] # h /\ notified'[i] \in DOMAIN photoStage
                          /\ photoStage[notified'[i]] = "show"
      OBVIOUS
    <3>3. notified'[i] = notified[i + 1] /\ i + 1 \in DOMAIN notified /\ i + 1 # 1
      BY <1>3, <2>4
    <3>4. QED BY <1>3, <3>1, <3>3
  <2>6. \A i \in DOMAIN notified' : photoStage'[notified'[i]] = "show"
    BY <1>5, <2>5
  <2>7. ASSUME NEW i \in DOMAIN notified', NEW j \in DOMAIN notified', notified'[i] = notified'[j]
        PROVE  i = j
    <3>1. \A a, b \in DOMAIN notified : notified[a] = notified[b] => a = b
      BY DEF GalleryLoads
    <3>2. /\ notified'[i] = notified[i + 1] /\ i + 1 \in DOMAIN notified
          /\ notified'[j] = notified[j + 1] /\ j + 1 \in DOMAIN notified
      BY <1>3
    <3>3. i + 1 = j + 1
      BY <2>7, <3>1, <3>2
    <3>4. QED BY <2>4, <3>3
  <2>8. QED BY <2>1, <2>2, <2>6, <2>7 DEF GalleryLoads
<1>11. OnlyStored'
  <2>1. \A m \in DOMAIN photoStage' : since'[m] # Len(shown')
    BY <1>1, <1>4, <1>5, <1>9
  <2>2. QED BY <1>1, <1>4, <1>5, <1>7, <2>1 DEF OnlyStored
<1>12. NothingPassedOver => before[h] \ TooBig \subseteq gallery'
  BY <1>1, <1>3, <1>6 DEF NothingPassedOver
<1>13. NothingPassedOver => NothingPassedOver'
  <2>1. SUFFICES ASSUME NothingPassedOver
                 PROVE  NothingPassedOver'
    OBVIOUS
  <2>2. \A m \in DOMAIN photoStage' :
           photoStage'[m] = "list" =>
              \A q \in before'[m] : q \in items'[m] \/ \A r \in items'[m] : r < q
    BY <1>1, <1>5, <2>1 DEF NothingPassedOver
  <2>3. \A m \in DOMAIN photoStage' :
           photoStage'[m] \in {"download", "show"} =>
              before'[m] \ TooBig \subseteq images'[m] \cup downloads'[m]
    BY <1>1, <1>5, <2>1 DEF NothingPassedOver
  <2>4. shown' # <<>> => before'[Last(shown')] \ TooBig \subseteq gallery'
    BY <1>1, <1>4, <1>12, <2>1
  <2>5. QED BY <2>2, <2>3, <2>4 DEF NothingPassedOver
<1>14. ASSUME NothingPassedOver, ~(since[Last(shown')] < Len(shown))
       PROVE  gallery \ TooBig \subseteq gallery'
  <2>1. since[h] = Len(shown)
    BY <1>3, <1>4, <1>9, <1>14
  <2>2. gallery \subseteq before[h]
    BY <1>3, <2>1 DEF OnlyStored
  <2>3. QED BY <1>12, <1>14, <2>2
<1>15. QED BY <1>8, <1>10, <1>11, <1>13, <1>14

LEMMA PhotosStep ==
    ASSUME PhotosTyped, GalleryLoads, OnlyStored, PhotosFailing!Next
    PROVE  PhotosTyped' /\ GalleryLoads' /\ OnlyStored'
<1>1. CASE PhotosFailing!LoadImages
  BY <1>1, GalleryOpens
<1>2. CASE PhotosFailing!Show
  BY <1>2, GalleryIsShown
<1>3. CASE \E l \in DOMAIN photoStage : PhotosFailing!LoadStep(l)
  BY <1>3, PageIsListed, ListingFails, PhotoIsDownloaded DEF PhotosFailing!LoadStep
<1>4. CASE \E p \in Shots : PhotosFailing!UploadEventPhoto(p) \/ PhotosFailing!PutEnds(p)
  BY <1>4, PhotosArrive
<1>5. QED BY <1>1, <1>2, <1>3, <1>4 DEF PhotosFailing!Next, PhotosFailing!Loads

LEMMA CalmGallery ==
    ASSUME PhotosTyped, GalleryLoads, OnlyStored, NothingPassedOver, Photos!Next
    PROVE  /\ PhotosTyped' /\ GalleryLoads' /\ OnlyStored' /\ NothingPassedOver'
           /\ gallery \ TooBig \subseteq gallery' \/ since[Last(shown')] < Len(shown)
<1>1. CASE Photos!LoadImages
  <2>1. UNCHANGED gallery
    BY <1>1 DEF Photos!LoadImages
  <2>2. PhotosTyped' /\ GalleryLoads' /\ OnlyStored' /\ NothingPassedOver'
    BY <1>1, PhotosCalm, GalleryOpens
  <2>3. QED BY <2>1, <2>2
<1>2. CASE Photos!Show
  BY <1>2, PhotosCalm, GalleryIsShown
<1>3. CASE \E l \in DOMAIN photoStage : Photos!LoadStep(l)
  <2>1. PICK l \in DOMAIN photoStage : Photos!LoadStep(l)
    BY <1>3
  <2>2. CASE Photos!ListPage(l)
    <3>1. /\ PhotosTyped' /\ GalleryLoads' /\ OnlyStored' /\ NothingPassedOver' /\ UNCHANGED gallery
      BY <2>2, PhotosCalm, PageIsListed
    <3>2. QED BY <3>1
  <2>3. CASE \E p \in Shots : Photos!Downloaded(l, p)
    <3>1. PICK p \in Shots : Photos!Downloaded(l, p)
      BY <2>3
    <3>2. /\ PhotosFailing!Downloaded(l, p)
          /\ p \in TooBig \/ images' = [images EXCEPT ![l] = images[l] \cup {p}]
      BY <3>1, PhotosCalm
    <3>3. /\ PhotosTyped' /\ GalleryLoads' /\ OnlyStored' /\ NothingPassedOver' /\ UNCHANGED gallery
      BY <3>2, PhotoIsDownloaded
    <3>4. QED BY <3>3
  <2>4. QED BY <2>1, <2>2, <2>3, PhotosCalm DEF Photos!LoadStep
<1>4. CASE \E p \in Shots : Photos!UploadEventPhoto(p) \/ Photos!PutEnds(p)
  <2>1. /\ PhotosTyped' /\ GalleryLoads' /\ OnlyStored' /\ NothingPassedOver' /\ UNCHANGED gallery
    BY <1>4, PhotosCalm, PhotosArrive
  <2>2. QED BY <2>1
<1>5. QED BY <1>1, <1>2, <1>3, <1>4 DEF Photos!Next, Photos!Loads

LEMMA PhotosInitially ==
    ASSUME PagesInit
    PROVE  PhotosInv
<1>1. /\ stored \subseteq Shots /\ uploading = {} /\ gallery = {}
      /\ photoStage = <<>> /\ items = <<>> /\ downloads = <<>> /\ images = <<>>
      /\ notified = <<>> /\ shown = <<>> /\ before = <<>> /\ since = <<>>
  BY DEF PagesInit, Photos!Init, PhotosFailing!Init
<1>2. PhotosTyped
  BY <1>1, PhotosAssumed DEF PhotosTyped
<1>3. GalleryLoads /\ OnlyStored /\ NothingPassedOver
  BY <1>1 DEF GalleryLoads, OnlyStored, NothingPassedOver
<1>4. QED BY <1>2, <1>3 DEF PhotosInv

\* Whatever is visited, the gallery's loads are joined as they should be.
LEMMA PhotosKept == PagesSpec => []PhotosInv
<1>1. PagesInit => PhotosInv
  BY PhotosInitially
<1>2. PhotosInv /\ [PagesNext]_pageVars => PhotosInv'
  <2>1. SUFFICES ASSUME PhotosInv, [PagesNext]_pageVars
                 PROVE  PhotosInv'
    OBVIOUS
  <2>2. PhotosTyped /\ GalleryLoads /\ OnlyStored /\ (visit = "photos" => NothingPassedOver)
    BY <2>1 DEF PhotosInv
  <2>3. visit' = visit
    BY <2>1, PhotosVisited
  <2>4. CASE UNCHANGED photosVars
    <3>1. PhotosTyped' /\ GalleryLoads' /\ OnlyStored' /\ (NothingPassedOver => NothingPassedOver')
      BY <2>2, <2>4, PhotosArrive
    <3>2. QED BY <2>2, <2>3, <3>1 DEF PhotosInv
  <2>5. CASE visit = "photos" /\ Photos!Next
    <3>1. PhotosTyped' /\ GalleryLoads' /\ OnlyStored' /\ NothingPassedOver'
      BY <2>2, <2>5, CalmGallery
    <3>2. QED BY <3>1 DEF PhotosInv
  <2>6. CASE visit = "photos failing" /\ PhotosFailing!Next
    <3>1. PhotosTyped' /\ GalleryLoads' /\ OnlyStored'
      BY <2>2, <2>6, PhotosStep
    <3>2. visit' # "photos"
      BY <2>3, <2>6
    <3>3. QED BY <3>1, <3>2 DEF PhotosInv
  <2>7. QED BY <2>1, <2>4, <2>5, <2>6, PhotosVisited
<1>3. QED BY <1>1, <1>2, PTL DEF PagesSpec

\* However uploads, the pages of listAll and the downloads of overlapping loads
\* are interleaved: when requests succeed, the gallery holds every photo (not
\* too big) that was stored when the load shown last began, and only stored ones.
THEOREM TheGalleryIsWhole == PagesSpec => []GalleryIsWhole
<1>1. PhotosInv => GalleryIsWhole
  BY DEF PhotosInv, OnlyStored, NothingPassedOver, GalleryIsWhole, Photos!GalleryIsWhole, Photos!Last, Last
<1>2. QED BY <1>1, PhotosKept, PTL

\* A photo that was shown goes from the gallery only if the load shown instead
\* of its own had begun before that one was shown: loadImages overlapped.
THEOREM NothingGoesAlone == PagesSpec => PhotosGoOnlyByOverlap
<1>1. PhotosInv /\ [PagesNext]_pageVars
      => [visit = "photos" => Photos!NothingGoesBySuccession]_pageVars
  <2>1. SUFFICES ASSUME PhotosInv, [PagesNext]_pageVars, visit = "photos"
                 PROVE  Photos!NothingGoesBySuccession
    OBVIOUS
  <2>2. gallery \ TooBig \subseteq gallery' \/ since[Last(shown')] < Len(shown)
    <3>1. CASE UNCHANGED photosVars
      BY <3>1 DEF photosVars
    <3>2. CASE Photos!Next
      BY <2>1, <3>2, CalmGallery DEF PhotosInv
    <3>3. QED BY <2>1, <3>1, <3>2, PhotosVisited
  <2>3. QED BY <2>2 DEF Photos!NothingGoesBySuccession, Photos!Last, Last
<1>2. QED BY <1>1, PhotosKept, PTL DEF PagesSpec, PhotosGoOnlyByOverlap

(***************************************************************************)
(* My Plans                                                                *)
(***************************************************************************)

LEMMA PlansAssumed ==
    /\ PlanEvents \subseteq Int /\ IsFiniteSet(PlanEvents) /\ Days \in [PlanEvents -> Int]
    /\ MaxPulls \in Nat /\ MaxTaps \in Nat /\ MaxRemote \in Nat
<1>1. Plans!IsFiniteSet(PlanEvents) => IsFiniteSet(PlanEvents)
  BY DEF Plans!IsFiniteSet, IsFiniteSet
<1>2. QED BY <1>1, PagesAssumption DEF Plans!PlansAssumption

\* A step of the pages is one of this tab, or does not touch it.
LEMMA PlansVisited ==
    ASSUME [PagesNext]_pageVars
    PROVE  UNCHANGED plansVars \/ Plans!Next
BY DEF PagesNext, Only, pageVars

\* Events are listed by date, those of one day by their ids: the place of each
\* is the number of those before it.
LEMMA PlansAreSorted ==
    ASSUME NEW s \in SUBSET PlanEvents
    PROVE  /\ Plans!Parsed(s) \in Seq(PlanEvents)
           /\ {Plans!Parsed(s)[i] : i \in DOMAIN Plans!Parsed(s)} = s
           /\ \A i, j \in DOMAIN Plans!Parsed(s) : Plans!Parsed(s)[i] = Plans!Parsed(s)[j] => i = j
<1> DEFINE n == Cardinality(s)
           older(e) == {d \in s : Plans!Earlier(d, e)}
           rank == [e \in s |-> Cardinality(older(e))]
           sorted(r) == \A i, j \in DOMAIN r : i < j => Plans!Earlier(r[i], r[j])
<1>1. /\ s \subseteq Int /\ IsFiniteSet(s) /\ n \in Nat
      /\ \A e \in s : Days[e] \in Int
  BY PlansAssumed, FS_Subset, FS_CardinalityType
<1>2. /\ \A d, e \in s : d # e => Plans!Earlier(d, e) \/ Plans!Earlier(e, d)
      /\ \A d, e, f \in s : Plans!Earlier(d, e) /\ Plans!Earlier(e, f) => Plans!Earlier(d, f)
      /\ \A e \in s : ~Plans!Earlier(e, e)
  BY <1>1 DEF Plans!Earlier
<1>3. \A e \in s : older(e) \subseteq s \ {e} /\ IsFiniteSet(older(e)) /\ Cardinality(older(e)) \in Nat
  BY <1>1, <1>2, FS_Subset, FS_CardinalityType
<1>4. \A e \in s : Cardinality(older(e)) \in 0..(n - 1)
  <2>1. SUFFICES ASSUME NEW e \in s
                 PROVE  Cardinality(older(e)) \in 0..(n - 1)
    OBVIOUS
  <2>2. IsFiniteSet(s \ {e}) /\ Cardinality(s \ {e}) = n - 1
    BY <1>1, FS_RemoveElement
  <2>3. Cardinality(older(e)) <= n - 1
    BY <1>3, <2>2, FS_Subset
  <2> HIDE DEF older, n
  <2>4. QED BY <1>1, <1>3, <2>3
<1>5. \A d, e \in s : Plans!Earlier(d, e) => Cardinality(older(d)) < Cardinality(older(e))
  <2>1. SUFFICES ASSUME NEW d \in s, NEW e \in s, Plans!Earlier(d, e)
                 PROVE  Cardinality(older(d)) < Cardinality(older(e))
    OBVIOUS
  <2>2. older(d) \subseteq older(e) /\ d \in older(e) /\ d \notin older(d)
    BY <1>2, <2>1
  <2>3. Cardinality(older(d)) <= Cardinality(older(e)) /\ Cardinality(older(d)) # Cardinality(older(e))
    <3>1. IsFiniteSet(older(e))
      BY <1>3
    <3> HIDE DEF older
    <3>2. QED BY <2>2, <3>1, FS_Subset
  <2> HIDE DEF older
  <2>4. QED BY <1>3, <2>3
<1>6. rank \in Injection(s, 0..(n - 1))
  <2>1. rank \in [s -> 0..(n - 1)]
    BY <1>4
  <2>2. ASSUME NEW d \in s, NEW e \in s, rank[d] = rank[e]
        PROVE  d = e
    <3>1. Cardinality(older(d)) = Cardinality(older(e))
      BY <2>2
    <3>2. Cardinality(older(d)) \in Nat /\ Cardinality(older(e)) \in Nat
      BY <1>3
    <3> HIDE DEF older
    <3>3. ~(Cardinality(older(d)) < Cardinality(older(e))) /\ ~(Cardinality(older(e)) < Cardinality(older(d)))
      BY <3>1, <3>2
    <3>4. QED BY <1>2, <1>5, <3>3
  <2> HIDE DEF rank
  <2>3. QED BY <2>1, <2>2 DEF Injection, IsInjective
<1>7. rank \in Surjection(s, 0..(n - 1))
  <2>1. IsFiniteSet(0..(n - 1)) /\ Cardinality(0..(n - 1)) = n
    <3>1. 0 \in Int /\ n - 1 \in Int /\ (IF 0 > n - 1 THEN 0 ELSE (n - 1) - 0 + 1) = n
      BY <1>1
    <3>2. QED BY <3>1, FS_Interval
  <2> HIDE DEF rank
  <2>2. QED BY <1>6, <2>1, FS_Injection
<1> DEFINE r == [i \in 1..n |-> CHOOSE e \in s : rank[e] = i - 1]
<1>8. \A i \in 1..n : r[i] \in s /\ rank[r[i]] = i - 1
  <2>1. SUFFICES ASSUME NEW i \in 1..n
                 PROVE  \E e \in s : rank[e] = i - 1
    BY Zenon
  <2>2. i - 1 \in 0..(n - 1)
    BY <1>1
  <2> HIDE DEF rank
  <2>3. QED BY <1>7, <2>2 DEF Surjection
<1>9. r \in [1..n -> s] /\ \A i, j \in 1..n : i # j => r[i] # r[j]
  <2>1. r \in [1..n -> s]
    BY <1>8
  <2>2. ASSUME NEW i \in 1..n, NEW j \in 1..n, r[i] = r[j]
        PROVE  i = j
    <3>1. i - 1 = j - 1
      BY <1>8, <2>2
    <3>2. QED BY <1>1, <3>1
  <2>3. QED BY <2>1, <2>2
<1>10. sorted(r)
  <2>1. SUFFICES ASSUME NEW i \in 1..n, NEW j \in 1..n, i < j
                 PROVE  Plans!Earlier(r[i], r[j])
    OBVIOUS
  <2>2. ~(j - 1 < i - 1) /\ i # j
    BY <1>1, <2>1
  <2> HIDE DEF r, n
  <2>3. rank[r[i]] = i - 1 /\ rank[r[j]] = j - 1 /\ r[i] \in s /\ r[j] \in s /\ r[i] # r[j]
    BY <1>8, <1>9, <2>1, <2>2, Zenon
  <2>4. rank[r[i]] = Cardinality(older(r[i])) /\ rank[r[j]] = Cardinality(older(r[j]))
    BY <2>3
  <2> HIDE DEF older, rank
  <2>5. ~(Cardinality(older(r[j])) < Cardinality(older(r[i])))
    BY <2>2, <2>3, <2>4
  <2>6. ~Plans!Earlier(r[j], r[i])
    BY <1>5, <2>3, <2>5
  <2>7. QED BY <1>2, <2>3, <2>6
<1>11. Plans!SetToSeqs(s) = {f \in [1..n -> s] : \A i, j \in 1..n : i # j => f[i] # f[j]}
  BY DEF Plans!SetToSeqs, Plans!Cardinality, Cardinality
<1> HIDE DEF r
<1>12. \E f \in Plans!SetToSeqs(s) : sorted(f)
  BY <1>9, <1>10, <1>11
<1> DEFINE p == Plans!Parsed(s)
<1>13. p \in Plans!SetToSeqs(s)
  BY <1>12 DEF Plans!Parsed
<1> HIDE DEF p
<1>14. p \in [1..n -> s] /\ \A i, j \in 1..n : i # j => p[i] # p[j]
  BY <1>11, <1>13
<1>15. p \in Seq(PlanEvents) /\ DOMAIN p = 1..n
  <2>1. p \in [1..n -> PlanEvents] /\ n \in Nat
    BY <1>1, <1>14
  <2> HIDE DEF n
  <2>2. QED BY <2>1
<1>16. {p[i] : i \in DOMAIN p} = s
  <2>1. p \in Injection(1..n, s)
    BY <1>14 DEF Injection, IsInjective
  <2>2. Cardinality(1..n) = n
    <3>1. 1 \in Int /\ n \in Int /\ (IF 1 > n THEN 0 ELSE n - 1 + 1) = n
      BY <1>1
    <3>2. QED BY <3>1, FS_Interval
  <2>3. p \in Surjection(1..n, s)
    BY <1>1, <2>1, <2>2, FS_Injection
  <2>4. QED BY <1>14, <1>15, <2>3 DEF Surjection
<1>17. QED BY <1>14, <1>15, <1>16 DEF p

LEMMA PlansTyped ==
    Plans!TypeOK <=>
      /\ going \subseteq PlanEvents /\ known \subseteq PlanEvents
      /\ synced \in BOOLEAN /\ hasUid \in BOOLEAN
      /\ queue \in Seq(Plans!Mutation)
      /\ result \in {"none", "ok", "error"} /\ (result # "none" => queue # <<>>)
      /\ listeners \in 0..pulls /\ pulls \in 0..MaxPulls
      /\ snapshots \in Seq(SUBSET PlanEvents)
      /\ rows \in Seq(PlanEvents) /\ \A i, j \in DOMAIN rows : rows[i] = rows[j] => i = j
      /\ taps \in 0..MaxTaps /\ remote \in 0..MaxRemote
BY DEF Plans!TypeOK, Plans!IsInjective

\* Each listener is told of a view that has changed.
LEMMA ListenersAreTold ==
    ASSUME Plans!TypeOK, Plans!Raise
    PROVE  /\ snapshots' \in Seq(SUBSET PlanEvents)
           /\ synced' /\ listeners > 0 =>
                \/ synced /\ Plans!View' = Plans!View /\ UNCHANGED snapshots
                \/ snapshots' # <<>> /\ Plans!Last(snapshots') = Plans!View'
<1> DEFINE raised == [i \in 1..listeners |-> Plans!View']
<1>1. /\ listeners \in Nat /\ snapshots \in Seq(SUBSET PlanEvents)
      /\ Plans!View' \in SUBSET PlanEvents
  BY PlansTyped, PlansAssumed DEF Plans!View
<1>2. \/ UNCHANGED snapshots /\ (~synced' \/ (synced /\ Plans!View' = Plans!View))
      \/ snapshots' = snapshots \o raised
  BY DEF Plans!Raise, Plans!Copies
<1>3. CASE UNCHANGED snapshots /\ (~synced' \/ (synced /\ Plans!View' = Plans!View))
  BY <1>1, <1>3
<1>4. CASE snapshots' = snapshots \o raised
  <2>1. raised \in Seq(SUBSET PlanEvents) /\ Len(raised) = listeners /\ \A i \in 1..listeners : raised[i] = Plans!View'
    BY <1>1
  <2> HIDE DEF raised
  <2>2. /\ snapshots' \in Seq(SUBSET PlanEvents)
        /\ Len(snapshots') = Len(snapshots) + Len(raised)
        /\ \A i \in 1..Len(raised) : snapshots'[Len(snapshots) + i] = raised[i]
    <3>1. snapshots \in Seq(SUBSET PlanEvents) /\ raised \in Seq(SUBSET PlanEvents)
      BY <1>1, <2>1
    <3>2. /\ snapshots \o raised \in Seq(SUBSET PlanEvents)
          /\ Len(snapshots \o raised) = Len(snapshots) + Len(raised)
          /\ \A i \in 1..Len(raised) : (snapshots \o raised)[Len(snapshots) + i] = raised[i]
      BY <3>1, ConcatAt
    <3>3. QED BY <1>4, <3>2
  <2>3. ASSUME listeners > 0
        PROVE  snapshots' # <<>> /\ Plans!Last(snapshots') = Plans!View'
    <3>1. Len(snapshots) \in Nat
      BY <1>1, SeqAt
    <3>2. Len(snapshots') = Len(snapshots) + listeners /\ listeners \in 1..listeners
      BY <1>1, <2>1, <2>2, <2>3
    <3>3. snapshots'[Len(snapshots')] = Plans!View'
      BY <2>1, <2>2, <3>2
    <3>4. Len(snapshots') # 0
      BY <1>1, <2>3, <3>1, <3>2
    <3>5. QED BY <2>2, <3>3, <3>4, SeqAt DEF Plans!Last
  <2>4. QED BY <2>2, <2>3
<1>5. QED BY <1>2, <1>3, <1>4

\* What a raised view leaves of ListFollowsView when the rows stay.
LEMMA ListIsTold ==
    ASSUME Plans!TypeOK, Plans!ListFollowsView, Plans!Raise, UNCHANGED <<rows, listeners>>
    PROVE  Plans!ListFollowsView'
<1>1. synced' /\ listeners > 0 =>
        \/ synced /\ Plans!View' = Plans!View /\ UNCHANGED snapshots
        \/ snapshots' # <<>> /\ Plans!Last(snapshots') = Plans!View'
  BY ListenersAreTold
<1>2. \A s, t : s = t => Plans!Parsed(s) = Plans!Parsed(t) /\ Plans!Last(s) = Plans!Last(t)
  OBVIOUS
<1>3. SUFFICES ASSUME synced', listeners > 0
               PROVE  IF snapshots' = <<>> THEN rows' = Plans!Parsed(Plans!View')
                      ELSE Plans!Last(snapshots') = Plans!View'
  BY DEF Plans!ListFollowsView
<1>4. CASE synced /\ Plans!View' = Plans!View /\ UNCHANGED snapshots
  BY <1>3, <1>4 DEF Plans!ListFollowsView
<1>5. CASE snapshots' # <<>> /\ Plans!Last(snapshots') = Plans!View'
  BY <1>5
<1>6. QED BY <1>1, <1>3, <1>4, <1>5

PlansInv == Plans!TypeOK /\ Plans!ListFollowsView

LEMMA BackendStep ==
    ASSUME PlansInv,
           \/ Plans!Watch \/ Plans!ListenFails \/ Plans!Commit \/ Plans!Acknowledge
           \/ \E e \in PlanEvents : Plans!RemoteChange(e)
    PROVE  PlansInv'
<1>1. /\ going \subseteq PlanEvents /\ known \subseteq PlanEvents
      /\ synced \in BOOLEAN /\ hasUid \in BOOLEAN
      /\ queue \in Seq(Plans!Mutation)
      /\ result \in {"none", "ok", "error"} /\ (result # "none" => queue # <<>>)
      /\ listeners \in 0..pulls /\ pulls \in 0..MaxPulls
      /\ snapshots \in Seq(SUBSET PlanEvents)
      /\ rows \in Seq(PlanEvents) /\ \A i, j \in DOMAIN rows : rows[i] = rows[j] => i = j
      /\ taps \in 0..MaxTaps /\ remote \in 0..MaxRemote
  BY PlansTyped DEF PlansInv
<1>2. \A w \in Plans!Mutation, s \in SUBSET PlanEvents : Plans!Effect(w, s) \in SUBSET PlanEvents
  BY DEF Plans!Mutation, Plans!Effect
<1>3. queue # <<>> => Head(queue) \in Plans!Mutation /\ Tail(queue) \in Seq(Plans!Mutation)
  BY <1>1, TailAt
<1>4. CASE Plans!Watch
  <2>1. Plans!TypeOK'
    <3>1. /\ UNCHANGED <<going, queue, result, listeners, rows, hasUid, taps, pulls, remote>>
          /\ known' = going /\ synced' = TRUE
      BY <1>4 DEF Plans!Watch
    <3>2. snapshots' \in Seq(SUBSET PlanEvents)
      BY <1>4, ListenersAreTold DEF Plans!Watch, PlansInv
    <3>3. QED BY <1>1, <3>1, <3>2 DEF Plans!TypeOK, Plans!IsInjective
  <2>2. Plans!ListFollowsView'
    BY <1>4, ListIsTold DEF Plans!Watch, PlansInv
  <2>3. QED BY <2>1, <2>2 DEF PlansInv
<1>5. CASE Plans!ListenFails
  <2>1. /\ UNCHANGED <<going, known, queue, result, snapshots, rows, hasUid, taps, pulls, remote>>
        /\ listeners' = 0 /\ synced' = FALSE
    BY <1>5 DEF Plans!ListenFails
  <2>2. 0 \in 0..pulls
    BY <1>1
  <2>3. Plans!TypeOK'
    BY <1>1, <2>1, <2>2 DEF Plans!TypeOK, Plans!IsInjective
  <2>4. Plans!ListFollowsView'
    BY <2>1 DEF Plans!ListFollowsView
  <2>5. QED BY <2>3, <2>4 DEF PlansInv
<1>6. CASE Plans!Commit
  <2>1. /\ UNCHANGED <<known, synced, queue, listeners, snapshots, rows, hasUid, taps, pulls, remote>>
        /\ queue # <<>> /\ result' \in {"ok", "error"}
        /\ going' = Plans!Effect(Head(queue), going) \/ going' = going
    BY <1>6 DEF Plans!Commit
  <2>2. going' \subseteq PlanEvents
    BY <1>1, <1>2, <1>3, <2>1
  <2>3. Plans!TypeOK'
    BY <1>1, <2>1, <2>2 DEF Plans!TypeOK, Plans!IsInjective
  <2>4. Plans!View' = Plans!View
    BY <2>1 DEF Plans!View, Plans!Join, Plans!Leave
  <2>5. Plans!ListFollowsView'
    BY <2>1, <2>4 DEF PlansInv, Plans!ListFollowsView
  <2>6. QED BY <2>3, <2>5 DEF PlansInv
<1>7. CASE Plans!Acknowledge
  <2>1. /\ UNCHANGED <<going, synced, listeners, rows, hasUid, taps, pulls, remote>>
        /\ result # "none" /\ queue' = Tail(queue) /\ result' = "none"
        /\ known' = Plans!Effect(Head(queue), known) \/ known' = known
    BY <1>7 DEF Plans!Acknowledge
  <2>2. known' \subseteq PlanEvents /\ queue' \in Seq(Plans!Mutation)
    BY <1>1, <1>2, <1>3, <2>1
  <2>3. snapshots' \in Seq(SUBSET PlanEvents)
    BY <1>7, ListenersAreTold DEF Plans!Acknowledge, PlansInv
  <2>4. Plans!TypeOK'
    BY <1>1, <2>1, <2>2, <2>3 DEF Plans!TypeOK, Plans!IsInjective
  <2>5. Plans!ListFollowsView'
    BY <1>7, ListIsTold DEF Plans!Acknowledge, PlansInv
  <2>6. QED BY <2>4, <2>5 DEF PlansInv
<1>8. CASE \E e \in PlanEvents : Plans!RemoteChange(e)
  <2>1. /\ UNCHANGED <<known, synced, queue, result, listeners, snapshots, rows, hasUid, taps, pulls>>
        /\ going' \subseteq PlanEvents /\ remote < MaxRemote /\ remote' = remote + 1
    BY <1>1, <1>8 DEF Plans!RemoteChange, Plans!client
  <2>2. remote' \in 0..MaxRemote
    BY <1>1, <2>1, PlansAssumed
  <2>3. Plans!TypeOK'
    BY <1>1, <2>1, <2>2 DEF Plans!TypeOK, Plans!IsInjective
  <2>4. Plans!View' = Plans!View
    BY <2>1 DEF Plans!View, Plans!Join, Plans!Leave
  <2>5. Plans!ListFollowsView'
    BY <2>1, <2>4 DEF PlansInv, Plans!ListFollowsView
  <2>6. QED BY <2>3, <2>5 DEF PlansInv
<1>9. QED BY <1>4, <1>5, <1>6, <1>7, <1>8

LEMMA TabStep ==
    ASSUME PlansInv,
           \/ Plans!UserDataArrives \/ Plans!FetchUserEvents \/ Plans!SnapshotArrives
           \/ UNCHANGED plansVars
    PROVE  PlansInv'
<1>1. /\ going \subseteq PlanEvents /\ known \subseteq PlanEvents
      /\ synced \in BOOLEAN /\ hasUid \in BOOLEAN
      /\ queue \in Seq(Plans!Mutation)
      /\ result \in {"none", "ok", "error"} /\ (result # "none" => queue # <<>>)
      /\ listeners \in 0..pulls /\ pulls \in 0..MaxPulls
      /\ snapshots \in Seq(SUBSET PlanEvents)
      /\ rows \in Seq(PlanEvents) /\ \A i, j \in DOMAIN rows : rows[i] = rows[j] => i = j
      /\ taps \in 0..MaxTaps /\ remote \in 0..MaxRemote
  BY PlansTyped DEF PlansInv
<1>2. UNCHANGED <<queue, known>>
  BY DEF Plans!UserDataArrives, Plans!FetchUserEvents, Plans!SnapshotArrives, Plans!client, plansVars
<1>3. Plans!View' = Plans!View /\ Plans!View \in SUBSET PlanEvents
  BY <1>2 DEF Plans!View, Plans!Join, Plans!Leave
<1>4. CASE Plans!UserDataArrives \/ UNCHANGED plansVars
  <2>1. /\ UNCHANGED <<going, known, synced, queue, result, listeners, snapshots, rows, taps, pulls, remote>>
        /\ hasUid' \in BOOLEAN
    BY <1>1, <1>4 DEF Plans!UserDataArrives, Plans!client, plansVars
  <2>2. Plans!TypeOK'
    BY <1>1, <2>1 DEF Plans!TypeOK, Plans!IsInjective
  <2>3. Plans!ListFollowsView'
    BY <1>3, <2>1 DEF PlansInv, Plans!ListFollowsView
  <2>4. QED BY <2>2, <2>3 DEF PlansInv
<1>5. CASE Plans!FetchUserEvents
  <2>1. /\ UNCHANGED <<going, known, synced, queue, result, rows, hasUid, taps, remote>>
        /\ pulls < MaxPulls /\ pulls' = pulls + 1 /\ listeners' = listeners + 1
        /\ snapshots' = IF synced THEN Append(snapshots, Plans!View) ELSE snapshots
    BY <1>5 DEF Plans!FetchUserEvents
  <2>2. listeners' \in 0..pulls' /\ pulls' \in 0..MaxPulls
    BY <1>1, <2>1, PlansAssumed
  <2>3. /\ snapshots' \in Seq(SUBSET PlanEvents)
        /\ synced => snapshots' # <<>> /\ Plans!Last(snapshots') = Plans!View
    <3>1. CASE synced
      <4>1. /\ snapshots' \in Seq(SUBSET PlanEvents) /\ snapshots' # <<>>
            /\ Len(snapshots') = Len(snapshots) + 1 /\ snapshots'[Len(snapshots) + 1] = Plans!View
        BY <1>1, <1>3, <2>1, <3>1, AppendAt
      <4>2. QED BY <4>1 DEF Plans!Last
    <3>2. CASE ~synced
      BY <1>1, <2>1, <3>2
    <3>3. QED BY <3>1, <3>2
  <2>4. Plans!TypeOK'
    BY <1>1, <2>1, <2>2, <2>3 DEF Plans!TypeOK, Plans!IsInjective
  <2>5. Plans!ListFollowsView'
    BY <1>3, <2>1, <2>3 DEF Plans!ListFollowsView
  <2>6. QED BY <2>4, <2>5 DEF PlansInv
<1>6. CASE Plans!SnapshotArrives
  <2>1. /\ UNCHANGED <<going, known, synced, queue, result, listeners, hasUid, taps, pulls, remote>>
        /\ snapshots # <<>> /\ snapshots' = Tail(snapshots) /\ rows' = Plans!Parsed(Head(snapshots))
    BY <1>6 DEF Plans!SnapshotArrives
  <2>2. /\ Head(snapshots) = snapshots[1] /\ Head(snapshots) \in SUBSET PlanEvents
        /\ snapshots' \in Seq(SUBSET PlanEvents)
        /\ Len(snapshots') = Len(snapshots) - 1 /\ Len(snapshots) - 1 \in Nat
        /\ \A i \in 1..(Len(snapshots) - 1) : snapshots'[i] = snapshots[i + 1]
    BY <1>1, <2>1, TailAt
  <2>3. rows' \in Seq(PlanEvents) /\ \A i, j \in DOMAIN rows' : rows'[i] = rows'[j] => i = j
    BY <2>1, <2>2, PlansAreSorted
  <2>4. Plans!TypeOK'
    BY <1>1, <2>1, <2>2, <2>3 DEF Plans!TypeOK, Plans!IsInjective
  <2>5. Plans!ListFollowsView'
    <3>1. SUFFICES ASSUME synced, listeners > 0
                   PROVE  IF snapshots' = <<>> THEN rows' = Plans!Parsed(Plans!View)
                          ELSE Plans!Last(snapshots') = Plans!View
      BY <1>3, <2>1 DEF Plans!ListFollowsView
    <3>2. snapshots[Len(snapshots)] = Plans!View
      BY <2>1, <3>1 DEF PlansInv, Plans!ListFollowsView, Plans!Last
    <3>3. CASE snapshots' = <<>>
      <4>1. Len(snapshots) = 1
        BY <2>2, <3>3, SeqAt, Len(<<>>) = 0
      <4>2. QED BY <2>1, <2>2, <3>2, <3>3, <4>1
    <3>4. CASE snapshots' # <<>>
      <4>1. Len(snapshots') # 0 /\ Len(snapshots) \in Nat
        BY <1>1, <2>2, <3>4, SeqAt
      <4>2. /\ Len(snapshots) - 1 \in 1..(Len(snapshots) - 1)
            /\ (Len(snapshots) - 1) + 1 = Len(snapshots)
        BY <2>2, <4>1
      <4>3. snapshots'[Len(snapshots')] = Plans!View
        BY <2>2, <3>2, <4>2
      <4>4. QED BY <3>4, <4>3 DEF Plans!Last
    <3>5. QED BY <3>3, <3>4
  <2>6. QED BY <2>4, <2>5 DEF PlansInv
<1>7. QED BY <1>4, <1>5, <1>6

\* The last pending write of an event decides.
LEMMA LeftIsNotViewed ==
    ASSUME Plans!TypeOK, NEW e \in PlanEvents, queue' = Append(queue, Plans!Leave(e))
    PROVE  e \notin Plans!View'
<1>1. queue \in Seq(Plans!Mutation) /\ Plans!Leave(e) \in Plans!Mutation
  BY PlansTyped DEF Plans!Mutation, Plans!Leave
<1> DEFINE n == Len(queue) + 1
<1>2. /\ DOMAIN queue' = 1..n /\ Len(queue') = n /\ queue'[n] = Plans!Leave(e) /\ Len(queue) \in Nat
  BY <1>1, AppendAt, SeqAt
<1>3. n \in 1..n /\ \A i \in 1..n : i # n => n \in (i + 1)..n
  BY <1>2
<1> HIDE DEF n
<1>4. Plans!Leave(e) # Plans!Join(e)
  BY DEF Plans!Leave, Plans!Join
<1>5. SUFFICES ASSUME e \in Plans!View'
               PROVE  FALSE
  OBVIOUS
<1>6. CASE \E i \in DOMAIN queue' : /\ queue'[i] = Plans!Join(e)
                                    /\ \A j \in (i + 1)..Len(queue') : queue'[j] # Plans!Leave(e)
  BY <1>2, <1>3, <1>4, <1>6
<1>7. CASE \A i \in DOMAIN queue' : queue'[i] # Plans!Leave(e)
  BY <1>2, <1>3, <1>7
<1>8. QED BY <1>5, <1>6, <1>7 DEF Plans!View, Plans!Leave, Plans!Join

LEMMA WritesStep ==
    ASSUME PlansInv,
           \/ \E i \in DOMAIN rows : Plans!Swipe(i)
           \/ \E e \in PlanEvents : Plans!Add(e)
    PROVE  PlansInv'
<1>1. /\ going \subseteq PlanEvents /\ known \subseteq PlanEvents
      /\ synced \in BOOLEAN /\ hasUid \in BOOLEAN
      /\ queue \in Seq(Plans!Mutation)
      /\ result \in {"none", "ok", "error"} /\ (result # "none" => queue # <<>>)
      /\ listeners \in 0..pulls /\ pulls \in 0..MaxPulls
      /\ snapshots \in Seq(SUBSET PlanEvents)
      /\ rows \in Seq(PlanEvents) /\ \A i, j \in DOMAIN rows : rows[i] = rows[j] => i = j
      /\ taps \in 0..MaxTaps /\ remote \in 0..MaxRemote
  BY PlansTyped DEF PlansInv
<1>2. ASSUME NEW w \in Plans!Mutation, Plans!Write(w), Plans!Raise,
             UNCHANGED <<going, known, synced, result, listeners, hasUid, pulls, remote>>,
             rows' \in Seq(PlanEvents), \A i, j \in DOMAIN rows' : rows'[i] = rows'[j] => i = j
      PROVE  Plans!TypeOK'
  <2>1. queue' = Append(queue, w) /\ taps < MaxTaps /\ taps' = taps + 1
    BY <1>2 DEF Plans!Write
  <2>2. queue' \in Seq(Plans!Mutation) /\ queue' # <<>>
    <3>1. queue \in Seq(Plans!Mutation)
      BY <1>1
    <3>2. Append(queue, w) \in Seq(Plans!Mutation) /\ Append(queue, w) # <<>>
      BY <3>1, AppendAt, w \in Plans!Mutation
    <3>3. QED BY <2>1, <3>2
  <2>3. taps' \in 0..MaxTaps
    BY <1>1, <2>1, PlansAssumed
  <2>4. snapshots' \in Seq(SUBSET PlanEvents)
    BY <1>2, ListenersAreTold DEF PlansInv
  <2>5. QED BY <1>1, <1>2, <2>2, <2>3, <2>4 DEF Plans!TypeOK, Plans!IsInjective
<1>3. CASE \E e \in PlanEvents : Plans!Add(e)
  <2>1. PICK e \in PlanEvents : Plans!Add(e)
    BY <1>3
  <2>2. /\ Plans!Write(Plans!Join(e)) /\ Plans!Raise
        /\ UNCHANGED <<going, known, synced, result, listeners, rows, hasUid, pulls, remote>>
    BY <2>1 DEF Plans!Add
  <2>3. Plans!Join(e) \in Plans!Mutation
    BY DEF Plans!Join, Plans!Mutation
  <2>4. Plans!TypeOK'
    BY <1>1, <1>2, <2>2, <2>3
  <2>5. Plans!ListFollowsView'
    BY <2>2, ListIsTold DEF PlansInv
  <2>6. QED BY <2>4, <2>5 DEF PlansInv
<1>4. CASE \E i \in DOMAIN rows : Plans!Swipe(i)
  <2>1. PICK i \in DOMAIN rows : Plans!Swipe(i)
    BY <1>4
  <2>2. /\ Plans!Write(Plans!Leave(rows[i])) /\ Plans!Raise /\ rows' = Plans!RemoveAt(rows, i)
        /\ UNCHANGED <<going, known, synced, result, listeners, hasUid, pulls, remote>>
    BY <2>1 DEF Plans!Swipe
  <2>3. rows[i] \in PlanEvents /\ Plans!Leave(rows[i]) \in Plans!Mutation
    BY <1>1, SeqAt DEF Plans!Leave, Plans!Mutation
  <2>4. rows' \in Seq(PlanEvents) /\ \A j, k \in DOMAIN rows' : rows'[j] = rows'[k] => j = k
    <3>1. rows' = RemoveAt(rows, i)
      BY <2>2 DEF Plans!RemoveAt, RemoveAt
    <3>2. /\ rows' \in Seq(PlanEvents) /\ DOMAIN rows' = 1..(Len(rows) - 1)
          /\ \A k \in 1..(Len(rows) - 1) : rows'[k] = rows[IF k < i THEN k ELSE k + 1]
          /\ DOMAIN rows = 1..Len(rows) /\ Len(rows) \in Nat
      <4>1. rows \in Seq(PlanEvents) /\ i \in DOMAIN rows
        BY <1>1
      <4>2. /\ RemoveAt(rows, i) \in Seq(PlanEvents) /\ DOMAIN RemoveAt(rows, i) = 1..(Len(rows) - 1)
            /\ \A k \in 1..(Len(rows) - 1) : RemoveAt(rows, i)[k] = rows[IF k < i THEN k ELSE k + 1]
        BY <4>1, RemovedAt
      <4>3. DOMAIN rows = 1..Len(rows) /\ Len(rows) \in Nat
        BY <4>1, SeqAt
      <4>4. QED BY <3>1, <4>2, <4>3
    <3>3. ASSUME NEW j \in DOMAIN rows', NEW k \in DOMAIN rows', rows'[j] = rows'[k]
          PROVE  j = k
      <4> DEFINE at(m) == IF m < i THEN m ELSE m + 1
      <4>1. at(j) \in DOMAIN rows /\ at(k) \in DOMAIN rows
        BY <3>2
      <4>2. rows'[j] = rows[at(j)] /\ rows'[k] = rows[at(k)]
        BY <3>2
      <4>3. at(j) = at(k)
        BY <1>1, <3>3, <4>1, <4>2
      <4>4. QED BY <3>2, <4>3
    <3>4. QED BY <3>2, <3>3
  <2>5. Plans!TypeOK'
    BY <1>2, <2>2, <2>3, <2>4
  <2>6. rows[i] \notin Plans!View'
    BY <2>2, <2>3, LeftIsNotViewed DEF Plans!Write, PlansInv
  <2>7. Plans!ListFollowsView'
    <3>1. SUFFICES ASSUME synced, listeners > 0
                   PROVE  snapshots' # <<>> /\ Plans!Last(snapshots') = Plans!View'
      BY <2>2 DEF Plans!ListFollowsView
    <3>2. \/ Plans!View' = Plans!View /\ UNCHANGED snapshots
          \/ snapshots' # <<>> /\ Plans!Last(snapshots') = Plans!View'
      BY <2>2, <3>1, ListenersAreTold DEF PlansInv
    <3>3. CASE Plans!View' = Plans!View /\ UNCHANGED snapshots
      <4>1. snapshots # <<>>
        <5>1. SUFFICES ASSUME snapshots = <<>>
                       PROVE  rows[i] \in Plans!View
          BY <2>6, <3>3
        <5>2. rows = Plans!Parsed(Plans!View)
          BY <3>1, <5>1 DEF PlansInv, Plans!ListFollowsView
        <5>3. Plans!View \in SUBSET PlanEvents
          BY DEF Plans!View
        <5>4. {rows[j] : j \in DOMAIN rows} = Plans!View
          BY <5>2, <5>3, PlansAreSorted
        <5>5. QED BY <5>4
      <4>2. Plans!Last(snapshots) = Plans!View
        BY <3>1, <4>1 DEF PlansInv, Plans!ListFollowsView
      <4>3. QED BY <3>3, <4>1, <4>2 DEF Plans!Last
    <3>4. QED BY <3>2, <3>3
  <2>8. QED BY <2>5, <2>7 DEF PlansInv
<1>5. QED BY <1>3, <1>4

LEMMA PlansKept == PagesSpec => []PlansInv
<1>1. PagesInit => PlansInv
  <2>1. SUFFICES ASSUME Plans!Init
                 PROVE  PlansInv
    BY DEF PagesInit
  <2>2. /\ going \subseteq PlanEvents /\ known = {} /\ synced = FALSE /\ queue = <<>> /\ result = "none"
        /\ listeners = 0 /\ snapshots = <<>> /\ rows = <<>> /\ hasUid = FALSE
        /\ taps = 0 /\ pulls = 0 /\ remote = 0
    BY <2>1 DEF Plans!Init
  <2>3. Plans!TypeOK
    <3>1. \A S : <<>> \in Seq(S)
      OBVIOUS
    <3>2. 0 \in 0..0 /\ 0 \in 0..MaxPulls /\ 0 \in 0..MaxTaps /\ 0 \in 0..MaxRemote
      BY PlansAssumed
    <3>3. \A i, j \in DOMAIN rows : rows[i] = rows[j] => i = j
      BY <2>2
    <3>4. QED BY <2>2, <3>1, <3>2, <3>3, PlansTyped
  <2>4. Plans!ListFollowsView
    BY <2>2 DEF Plans!ListFollowsView
  <2>5. QED BY <2>3, <2>4 DEF PlansInv
<1>2. PlansInv /\ [PagesNext]_pageVars => PlansInv'
  <2>1. SUFFICES ASSUME PlansInv, UNCHANGED plansVars \/ Plans!Next
                 PROVE  PlansInv'
    BY PlansVisited
  <2>2. QED BY <2>1, BackendStep, TabStep, WritesStep DEF Plans!Next
<1>3. QED BY <1>1, <1>2, PTL DEF PagesSpec

\* However many listeners fetchUserEvents has added, and whatever is swiped,
\* refused or changed elsewhere: with every snapshot delivered My Plans shows
\* the device's view of the query, and until then the last one brings it there.
THEOREM TheListFollows == PagesSpec => []ListFollowsView
<1>1. PlansInv => ListFollowsView
  BY DEF PlansInv, ListFollowsView
<1>2. QED BY <1>1, PlansKept, PTL

(***************************************************************************)
(* The profile                                                             *)
(***************************************************************************)

LEMMA ProfileAssumed ==
    /\ Blank \notin Forms /\ NoPic \notin Pics \cup {GooglePic} /\ GooglePic \notin Pics
    /\ MaxReads \in Nat /\ MaxQueue \in Nat /\ MaxSaves \in Nat /\ MaxBreaks \in Nat
    /\ SavedPics \subseteq Pics
BY PagesAssumption DEF Saving!ProfileAssumption

\* A step of the pages is one of the profile, or does not touch it.
LEMMA ProfileVisited ==
    ASSUME [PagesNext]_pageVars
    PROVE  /\ UNCHANGED visit
           /\ \/ UNCHANGED profileVars
              \/ visit = "saving" /\ Saving!Next
              \/ visit = "pictures" /\ Pictures!Next
BY DEF PagesNext, Only, pageVars

LEMMA ProfileTyped ==
    Pictures!TypeOK <=>
      /\ doc \in Pictures!Document
      /\ object \in Pics \cup {GooglePic, NoPic}
      /\ writes \in Seq(Pictures!Mutation)
      /\ told \in Seq({"ok", "error"}) /\ Len(told) <= Len(writes)
      /\ orphans \in 0..Len(writes)
      /\ reads \in Seq(Pictures!Read)
      /\ calls \subseteq Pictures!Call
      /\ signedIn \in BOOLEAN
      /\ userData \in [form : Pictures!Fields, url : {"none", "google", "storage"}, arrived : BOOLEAN]
      /\ formSheet \in [open : BOOLEAN, form : Pictures!Fields]
      /\ pages \in 0..presses /\ image \in Pics \cup {GooglePic, NoPic}
      /\ saved \in [yes : BOOLEAN, form : Pictures!Fields]
      /\ presses \in 0..MaxSaves /\ breaks \in 0..MaxBreaks
BY DEF Pictures!TypeOK

\* The two instances of the profile differ only in what may fail and be picked.
LEMMA SameTypes == Saving!TypeOK <=> Pictures!TypeOK
<1>1. /\ Saving!Fields = Pictures!Fields /\ Saving!Call = Pictures!Call
  BY DEF Saving!Fields, Pictures!Fields, Saving!Call, Pictures!Call
<1>2. Saving!Document = Pictures!Document
  BY <1>1 DEF Saving!Document, Pictures!Document
<1>3. Saving!Read = Pictures!Read
  BY <1>2 DEF Saving!Read, Pictures!Read
<1>4. Saving!Mutation = Pictures!Mutation
  BY <1>1 DEF Saving!Mutation, Pictures!Mutation, Saving!Account, Pictures!Account,
              Saving!FormWrite, Pictures!FormWrite, Saving!URLWrite, Pictures!URLWrite
<1>5. QED BY <1>1, <1>2, <1>3, <1>4 DEF Saving!TypeOK, Pictures!TypeOK

\* What a step does when only URLs may be refused it may also do when more may.
LEMMA SavingIsPictures == Saving!Next => Pictures!Next
<1>1. Saving!Document = Pictures!Document /\ Saving!View = Pictures!View
      /\ Saving!Missing = Pictures!Missing /\ Saving!NewAccount = Pictures!NewAccount
      /\ Saving!Account = Pictures!Account
      /\ \A w, d : Saving!Applied(w, d) = Pictures!Applied(w, d)
  <2>1. /\ Saving!Missing = Pictures!Missing /\ Saving!NewAccount = Pictures!NewAccount
        /\ Saving!Account = Pictures!Account /\ Saving!Fields = Pictures!Fields
    BY DEF Saving!Missing, Pictures!Missing, Saving!NewAccount, Pictures!NewAccount,
           Saving!Account, Pictures!Account, Saving!Fields, Pictures!Fields
  <2>2. \A w, d : Saving!Applied(w, d) = Pictures!Applied(w, d)
    BY <2>1 DEF Saving!Applied, Pictures!Applied
  <2>3. Saving!View = Pictures!View
    BY Zenon DEF Saving!View, Pictures!View, Saving!Shows, Pictures!Shows, Saving!HasURL,
           Pictures!HasURL, Saving!Exists, Pictures!Exists, Saving!Applied, Pictures!Applied,
           Saving!Missing, Pictures!Missing, Saving!NewAccount, Pictures!NewAccount,
           Saving!Account, Pictures!Account, Saving!Fields, Pictures!Fields
  <2>4. QED BY <2>1, <2>2, <2>3 DEF Saving!Document, Pictures!Document
<1>2. Saving!SignIn => Pictures!SignIn
  BY DEF Saving!SignIn, Pictures!SignIn, Saving!Tap, Pictures!Tap, Saving!Ask, Pictures!Ask,
         Saving!FirstReads, Pictures!FirstReads, Saving!Asked, Pictures!Asked, Saving!Missing,
         Pictures!Missing, Saving!server, Pictures!server
<1>3. Saving!Serve => Pictures!Serve
  BY <1>1 DEF Saving!Serve, Pictures!Serve, Saving!server, Pictures!server, Saving!screen, Pictures!screen
<1>4. /\ Saving!AccountRead => Pictures!AccountRead
      /\ Saving!SignInRead => Pictures!SignInRead
      /\ Saving!PageRead => Pictures!PageRead
  BY <1>1 DEF Saving!AccountRead, Pictures!AccountRead, Saving!SignInRead, Pictures!SignInRead,
         Saving!PageRead, Pictures!PageRead, Saving!Arrives, Pictures!Arrives, Saving!Enqueue,
         Pictures!Enqueue, Saving!Decoded, Pictures!Decoded, Saving!FromGoogle, Pictures!FromGoogle,
         Saving!server, Pictures!server, Saving!screen, Pictures!screen
<1>5. /\ Saving!OpenPage => Pictures!OpenPage
      /\ Saving!Logout => Pictures!Logout
      /\ Saving!OpenForm => Pictures!OpenForm
  BY <1>1 DEF Saving!OpenPage, Pictures!OpenPage, Saving!Logout, Pictures!Logout, Saving!OpenForm,
         Pictures!OpenForm, Saving!Tap, Pictures!Tap, Saving!Ask, Pictures!Ask, Saving!Asked,
         Pictures!Asked, Saving!Called, Pictures!Called,
         Saving!server, Pictures!server, Saving!screen, Pictures!screen
<1>6. /\ Saving!Save => Pictures!Save
      /\ Saving!CloseForm => Pictures!CloseForm
  BY ProfileAssumed DEF Saving!Save, Pictures!Save, Saving!CloseForm, Pictures!CloseForm, Saving!Enqueue,
         Pictures!Enqueue, Saving!FormWrite, Pictures!FormWrite, Saving!Called, Pictures!Called,
         Saving!Upload, Pictures!Upload, Saving!server, Pictures!server
<1>7. /\ Saving!FetchEnds => Pictures!FetchEnds
      /\ Saving!PutEnds => Pictures!PutEnds
      /\ Saving!DownloadEnds => Pictures!DownloadEnds
      /\ Saving!ImageArrives => Pictures!ImageArrives
  BY DEF Saving!FetchEnds, Pictures!FetchEnds, Saving!PutEnds, Pictures!PutEnds,
         Saving!DownloadEnds, Pictures!DownloadEnds, Saving!ImageArrives, Pictures!ImageArrives,
         Saving!Called, Pictures!Called, Saving!Upload, Pictures!Upload,
         Saving!ShownOn, Pictures!ShownOn, Saving!server, Pictures!server,
         Saving!screen, Pictures!screen
<1>8. Saving!URLAnswered => Pictures!URLAnswered
  BY DEF Saving!URLAnswered, Pictures!URLAnswered, Saving!Called, Pictures!Called,
         Saving!Enqueue, Pictures!Enqueue, Saving!URLWrite, Pictures!URLWrite,
         Saving!ShownWithoutURL, Pictures!ShownWithoutURL, Saving!ShownOn, Pictures!ShownOn,
         Saving!server, Pictures!server
<1>9. Saving!Commit => Pictures!Commit
  BY <1>1 DEF Saving!Commit, Pictures!Commit, Saving!screen, Pictures!screen
<1>10. Saving!Acknowledge => Pictures!Acknowledge
  BY <1>1 DEF Saving!Acknowledge, Pictures!Acknowledge, Saving!Completion, Pictures!Completion,
         Saving!OrphansLeft, Pictures!OrphansLeft, Saving!Called, Pictures!Called,
         Saving!URLWrite, Pictures!URLWrite, Saving!ShownOn, Pictures!ShownOn,
         Saving!server, Pictures!server
<1>11. Saving!Crash => Pictures!Crash
  BY DEF Saving!Crash, Pictures!Crash, Saving!Break, Pictures!Break, Saving!server, Pictures!server
<1>12. Saving!Resend => Pictures!Resend
  BY DEF Saving!Resend, Pictures!Resend, Saving!Break, Pictures!Break, Saving!server,
         Pictures!server, Saving!screen, Pictures!screen
<1>13. QED
  BY <1>2, <1>3, <1>4, <1>5, <1>6, <1>7, <1>8, <1>9, <1>10, <1>11, <1>12 DEF Saving!Next, Pictures!Next,
     Saving!Firestore, Pictures!Firestore, Saving!Storage, Pictures!Storage, Saving!Person,
     Pictures!Person

\* A write joins the queue.
LEMMA ProfileQueued ==
    ASSUME Pictures!TypeOK, NEW w \in Pictures!Mutation, Pictures!Enqueue(w)
    PROVE  /\ writes' \in Seq(Pictures!Mutation) /\ Len(told) <= Len(writes')
           /\ orphans \in 0..Len(writes')
<1>1. /\ writes \in Seq(Pictures!Mutation) /\ w \in Pictures!Mutation /\ orphans \in 0..Len(writes)
      /\ told \in Seq({"ok", "error"}) /\ Len(told) <= Len(writes)
  BY ProfileTyped
<1>2. /\ Append(writes, w) \in Seq(Pictures!Mutation)
      /\ Len(Append(writes, w)) = Len(writes) + 1 /\ Len(writes) \in Nat /\ Len(told) \in Nat
  BY <1>1, AppendAt, SeqAt
<1>3. writes' = Append(writes, w)
  BY DEF Pictures!Enqueue
<1>4. orphans \in 0..(Len(writes) + 1) /\ Len(told) <= Len(writes) + 1
  BY <1>1, <1>2
<1>5. QED BY <1>2, <1>3, <1>4

\* Reads join the others, and the first is taken when it is answered.
LEMMA ProfileAsked ==
    ASSUME Pictures!TypeOK, NEW rs \in Seq(Pictures!Read), Pictures!Ask(rs)
    PROVE  reads' \in Seq(Pictures!Read)
<1>1. reads \in Seq(Pictures!Read) /\ rs \in Seq(Pictures!Read)
  BY ProfileTyped
<1>2. reads \o rs \in Seq(Pictures!Read)
  BY <1>1, ConcatAt
<1>3. QED BY <1>2 DEF Pictures!Ask

LEMMA ProfileParts ==
    /\ \A of \in {"account", "signIn", "page"} : Pictures!Asked(of) \in Pictures!Read
    /\ Pictures!Missing \in Pictures!Document /\ Pictures!NewAccount \in Pictures!Document
    /\ Blank \in Pictures!Fields
<1>1. /\ Pictures!Missing \in Pictures!Document /\ Pictures!NewAccount \in Pictures!Document
      /\ Blank \in Pictures!Fields
  BY DEF Pictures!Missing, Pictures!NewAccount, Pictures!Document, Pictures!Fields
<1>2. QED BY <1>1 DEF Pictures!Asked, Pictures!Read

LEMMA ProfileTold ==
    ASSUME Pictures!TypeOK, NEW of, Pictures!Arrives(of)
    PROVE  /\ reads # <<>> /\ reads' = Tail(reads) /\ reads' \in Seq(Pictures!Read)
           /\ Head(reads) = reads[1] /\ reads[1].of = of /\ reads[1].served
           /\ 1 \in DOMAIN reads /\ Head(reads).got \in Pictures!Document
<1>1. reads \in Seq(Pictures!Read) /\ reads # <<>>
  BY ProfileTyped DEF Pictures!Arrives
<1>2. /\ Head(reads) = reads[1] /\ Head(reads) \in Pictures!Read /\ 1 \in DOMAIN reads
      /\ Tail(reads) \in Seq(Pictures!Read)
  BY <1>1, TailAt
<1>3. Head(reads).got \in Pictures!Document
  BY <1>2 DEF Pictures!Read
<1>4. QED BY <1>1, <1>2, <1>3 DEF Pictures!Arrives

LEMMA ProfileApplied ==
    ASSUME NEW w \in Pictures!Mutation, NEW d \in Pictures!Document
    PROVE  Pictures!Applied(w, d) \in Pictures!Document
<1>1. CASE w = Pictures!Account
  BY <1>1, ProfileParts DEF Pictures!Applied
<1>2. CASE w # Pictures!Account /\ ~d.exists
  BY <1>2 DEF Pictures!Applied
<1>3. CASE w # Pictures!Account /\ d.exists /\ w.kind = "form"
  <2>1. w.form \in Pictures!Fields
    BY <1>3 DEF Pictures!Mutation, Pictures!FormWrite, Pictures!URLWrite
  <2>2. Pictures!Applied(w, d) = [d EXCEPT !.form = w.form]
    BY <1>3 DEF Pictures!Applied
  <2>3. QED BY <2>1, <2>2 DEF Pictures!Document
<1>4. CASE w # Pictures!Account /\ d.exists /\ w.kind # "form"
  BY <1>4 DEF Pictures!Applied, Pictures!Document
<1>5. QED BY <1>1, <1>2, <1>3, <1>4

\* Each action keeps the types: what is read, ...
LEMMA ReadsStep ==
    ASSUME Pictures!TypeOK,
           \/ Pictures!Serve \/ Pictures!AccountRead \/ Pictures!SignInRead \/ Pictures!PageRead
    PROVE  Pictures!TypeOK'
<1>1. CASE Pictures!Serve
  <2>1. PICK i \in DOMAIN reads, d \in Pictures!Document :
            reads' = [reads EXCEPT ![i].served = TRUE, ![i].got = d]
    BY <1>1 DEF Pictures!Serve
  <2>2. UNCHANGED <<doc, object, writes, told, orphans, calls, signedIn, userData, formSheet,
                    pages, image, saved, presses, breaks>>
    BY <1>1 DEF Pictures!Serve, Pictures!server, Pictures!screen
  <2> DEFINE r == [reads[i] EXCEPT !.served = TRUE, !.got = d]
  <2>3. reads \in Seq(Pictures!Read) /\ i \in DOMAIN reads /\ reads[i] \in Pictures!Read
    BY ProfileTyped, SeqAt
  <2>4. r \in Pictures!Read
    BY <2>3 DEF Pictures!Read
  <2>5. reads' = [reads EXCEPT ![i] = r]
    BY <2>1, <2>3
  <2> HIDE DEF r
  <2>6. reads' \in Seq(Pictures!Read)
    BY <2>3, <2>4, <2>5, ExceptAt
  <2>7. QED BY <2>2, <2>6 DEF Pictures!TypeOK
<1>2. CASE Pictures!AccountRead
  <2>1. reads' \in Seq(Pictures!Read)
    BY <1>2, ProfileTold DEF Pictures!AccountRead
  <2>2. UNCHANGED <<doc, object, told, orphans, calls, signedIn, userData, formSheet,
                    pages, image, saved, presses, breaks>>
    BY <1>2 DEF Pictures!AccountRead, Pictures!server, Pictures!screen
  <2>3. UNCHANGED writes \/ Pictures!Enqueue(Pictures!Account)
    BY <1>2 DEF Pictures!AccountRead
  <2>4. Pictures!Account \in Pictures!Mutation
    BY DEF Pictures!Mutation
  <2>5. CASE UNCHANGED writes
    BY <2>1, <2>2, <2>5 DEF Pictures!TypeOK
  <2>6. CASE Pictures!Enqueue(Pictures!Account)
    <3>1. writes' \in Seq(Pictures!Mutation) /\ Len(told) <= Len(writes') /\ orphans \in 0..Len(writes')
      BY <2>4, <2>6, ProfileQueued
    <3>2. QED BY <2>1, <2>2, <3>1 DEF Pictures!TypeOK
  <2>7. QED BY <2>3, <2>5, <2>6
<1>3. CASE Pictures!SignInRead \/ Pictures!PageRead
  <2>1. reads' \in Seq(Pictures!Read) /\ Head(reads).got \in Pictures!Document
    BY <1>3, ProfileTold DEF Pictures!SignInRead, Pictures!PageRead
  <2>2. UNCHANGED <<doc, object, writes, told, orphans, calls, signedIn, formSheet,
                    pages, image, saved, presses, breaks>>
    BY <1>3 DEF Pictures!SignInRead, Pictures!PageRead, Pictures!server, Pictures!screen
  <2>3. userData' \in {userData, Pictures!Decoded(Head(reads).got), Pictures!FromGoogle}
    BY <1>3 DEF Pictures!SignInRead, Pictures!PageRead
  <2>4. \A d \in Pictures!Document : Pictures!Decoded(d) \in
            [form : Pictures!Fields, url : {"none", "google", "storage"}, arrived : BOOLEAN]
    BY DEF Pictures!Decoded, Pictures!Document
  <2>5. Pictures!FromGoogle \in
            [form : Pictures!Fields, url : {"none", "google", "storage"}, arrived : BOOLEAN]
    BY DEF Pictures!FromGoogle, Pictures!Fields
  <2>6. userData' \in [form : Pictures!Fields, url : {"none", "google", "storage"}, arrived : BOOLEAN]
    BY <2>1, <2>3, <2>4, <2>5, ProfileTyped
  <2>7. QED BY <2>1, <2>2, <2>6 DEF Pictures!TypeOK
<1>4. QED BY <1>1, <1>2, <1>3

\* ... written, ...
LEMMA QueueStep ==
    ASSUME Pictures!TypeOK, Pictures!Commit \/ Pictures!Acknowledge
    PROVE  Pictures!TypeOK'
<1>1. /\ writes \in Seq(Pictures!Mutation) /\ orphans \in 0..Len(writes)
      /\ told \in Seq({"ok", "error"}) /\ Len(told) <= Len(writes)
  BY ProfileTyped
<1>2. Len(writes) \in Nat /\ Len(told) \in Nat /\ (told = <<>> <=> Len(told) = 0)
      /\ (writes = <<>> <=> Len(writes) = 0)
  BY <1>1, SeqAt
<1>3. CASE Pictures!Commit
  <2>1. UNCHANGED <<object, writes, orphans, reads, calls, signedIn, userData, formSheet,
                    pages, image, saved, presses, breaks>>
    BY <1>3 DEF Pictures!Commit, Pictures!screen
  <2>2. /\ Len(told) < Len(writes)
        /\ doc' = Pictures!Applied(writes[Len(told) + 1], doc) \/ doc' = doc
        /\ told' = Append(told, "ok") \/ told' = Append(told, "error")
    BY <1>3 DEF Pictures!Commit
  <2>3. writes[Len(told) + 1] \in Pictures!Mutation
    <3>1. Len(told) + 1 \in 1..Len(writes)
      BY <1>2, <2>2
    <3>2. QED BY <1>1, <3>1, SeqAt
  <2>4. doc' \in Pictures!Document
    BY <2>2, <2>3, ProfileApplied, ProfileTyped
  <2>5. told' \in Seq({"ok", "error"}) /\ Len(told') = Len(told) + 1
    BY SMTT(30), <1>1, <2>2, AppendAt
  <2>6. Len(told') <= Len(writes')
    BY <1>2, <2>1, <2>2, <2>5
  <2>7. QED BY <1>1, <2>1, <2>4, <2>5, <2>6 DEF Pictures!TypeOK
<1>4. CASE Pictures!Acknowledge
  <2>1. /\ UNCHANGED <<doc, object, reads, signedIn, formSheet, pages, saved, presses, breaks>>
        /\ told # <<>> /\ writes' = Tail(writes) /\ told' = Tail(told)
        /\ orphans' = Pictures!OrphansLeft
        /\ UNCHANGED <<calls, userData, image>> \/ Pictures!Completion(Head(writes), Head(told))
    BY <1>4 DEF Pictures!Acknowledge, Pictures!server
  <2>2. writes # <<>>
    BY <1>1, <1>2, <2>1
  <2>3. /\ Head(writes) \in Pictures!Mutation /\ Tail(writes) \in Seq(Pictures!Mutation)
        /\ Len(Tail(writes)) = Len(writes) - 1 /\ Len(writes) - 1 \in Nat
    BY <1>1, <2>2, TailAt
  <2>4. told' \in Seq({"ok", "error"}) /\ Len(told') = Len(told) - 1
    BY <1>1, <2>1, TailAt
  <2>5. orphans' \in 0..Len(writes') /\ Len(told') <= Len(writes')
    BY <1>1, <1>2, <2>1, <2>3, <2>4 DEF Pictures!OrphansLeft
  <2>6. calls' \subseteq Pictures!Call
    <3>1. Pictures!Called("fetch", NoPic, 0) \in Pictures!Call
      BY ProfileAssumed DEF Pictures!Called, Pictures!Call
    <3>2. calls' = calls \/ calls' = calls \cup {Pictures!Called("fetch", NoPic, 0)}
      BY <2>1 DEF Pictures!Completion
    <3>3. QED BY <3>1, <3>2 DEF Pictures!TypeOK
  <2>7. userData' \in [form : Pictures!Fields, url : {"none", "google", "storage"}, arrived : BOOLEAN]
    <3>1. userData' = userData \/ userData' = [userData EXCEPT !.url = "storage"]
      BY <2>1 DEF Pictures!Completion
    <3>2. QED BY <3>1 DEF Pictures!TypeOK
  <2>8. image' \in Pics \cup {GooglePic, NoPic}
    BY <2>1, ProfileTyped DEF Pictures!Completion, Pictures!ShownOn
  <2>9. QED BY <2>1, <2>3, <2>4, <2>5, <2>6, <2>7, <2>8 DEF Pictures!TypeOK
<1>5. QED BY <1>3, <1>4

\* Pages are numbered within the bound of taps, and an upload is two calls.
LEMMA PagesCounted ==
    ASSUME Pictures!TypeOK
    PROVE  /\ 0..pages \subseteq 0..MaxSaves /\ 0 \in 0..MaxSaves /\ pages \in 0..MaxSaves
           /\ pages \in Nat /\ presses \in Nat /\ pages <= presses
BY ProfileTyped, ProfileAssumed

LEMMA Uploaded ==
    ASSUME NEW p \in Pics \cup {GooglePic}, NEW n \in 0..MaxSaves
    PROVE  Pictures!Upload(p, n) \subseteq Pictures!Call
<1>1. 0 \in 0..MaxSaves
  BY ProfileAssumed
<1>2. Pictures!Called("put", p, 0) \in Pictures!Call /\ Pictures!Called("url", p, n) \in Pictures!Call
  BY <1>1 DEF Pictures!Called, Pictures!Call
<1>3. QED BY <1>2 DEF Pictures!Upload

\* ... done with pictures ...
LEMMA PictureStep ==
    ASSUME Pictures!TypeOK, Pictures!Storage
    PROVE  Pictures!TypeOK'
<1>0. 0..pages \subseteq 0..MaxSaves /\ 0 \in 0..MaxSaves
  BY PagesCounted
<1>1. ASSUME NEW p \in Pics \cup {GooglePic}, NEW n \in 0..MaxSaves
      PROVE  Pictures!Upload(p, n) \subseteq Pictures!Call /\ Pictures!URLWrite(p, n) \in Pictures!Mutation
  BY Uploaded DEF Pictures!URLWrite, Pictures!Mutation
<1>2. \A p \in Pics \cup {GooglePic, NoPic}, n \in 0..MaxSaves : Pictures!Called("show", p, n) \in Pictures!Call
  BY DEF Pictures!Called, Pictures!Call
<1>3. calls \subseteq Pictures!Call /\ object \in Pics \cup {GooglePic, NoPic}
      /\ image \in Pics \cup {GooglePic, NoPic}
  BY ProfileTyped
<1>4. UNCHANGED <<doc, told, orphans, reads, signedIn, userData, formSheet, pages, saved, presses, breaks>>
  BY DEF Pictures!Storage, Pictures!FetchEnds, Pictures!PutEnds, Pictures!URLAnswered,
     Pictures!DownloadEnds, Pictures!ImageArrives, Pictures!server, Pictures!screen
<1>5. CASE Pictures!FetchEnds
  <2>1. calls' \subseteq Pictures!Call
    BY <1>0, <1>1, <1>3, <1>5 DEF Pictures!FetchEnds
  <2>2. UNCHANGED <<object, writes, image>>
    BY <1>5 DEF Pictures!FetchEnds, Pictures!server, Pictures!screen
  <2>3. QED BY <1>4, <2>1, <2>2 DEF Pictures!TypeOK
<1>6. CASE Pictures!PutEnds
  <2>1. calls' \subseteq Pictures!Call /\ object' \in Pics \cup {GooglePic, NoPic}
    BY <1>3, <1>6 DEF Pictures!PutEnds
  <2>2. UNCHANGED <<writes, image>>
    BY <1>6 DEF Pictures!PutEnds, Pictures!screen
  <2>3. QED BY <1>4, <2>1, <2>2 DEF Pictures!TypeOK
<1>7. CASE Pictures!URLAnswered
  <2>1. PICK p \in Pics \cup {GooglePic}, n \in 0..pages :
          /\ calls' = calls \ {Pictures!Called("url", p, n)}
          /\ \/ Pictures!Enqueue(Pictures!URLWrite(p, n)) /\ UNCHANGED image
             \/ image' = Pictures!ShownWithoutURL(p, n) /\ UNCHANGED writes
    BY <1>7 DEF Pictures!URLAnswered
  <2>2. calls' \subseteq Pictures!Call /\ UNCHANGED object
    BY <1>3, <1>7, <2>1 DEF Pictures!URLAnswered, Pictures!server
  <2>3. CASE Pictures!Enqueue(Pictures!URLWrite(p, n)) /\ UNCHANGED image
    <3>1. Pictures!URLWrite(p, n) \in Pictures!Mutation
      BY <1>0, <1>1
    <3>2. writes' \in Seq(Pictures!Mutation) /\ Len(told) <= Len(writes') /\ orphans \in 0..Len(writes')
      BY <2>3, <3>1, ProfileQueued
    <3>3. QED BY <1>3, <1>4, <2>2, <2>3, <3>2 DEF Pictures!TypeOK
  <2>4. CASE image' = Pictures!ShownWithoutURL(p, n) /\ UNCHANGED writes
    <3>1. image' \in Pics \cup {GooglePic, NoPic}
      BY <1>3, <2>4 DEF Pictures!ShownWithoutURL, Pictures!ShownOn
    <3>2. QED BY <1>4, <2>2, <2>4, <3>1 DEF Pictures!TypeOK
  <2>5. QED BY <2>1, <2>3, <2>4
<1>8. CASE Pictures!DownloadEnds
  <2>1. calls' \subseteq Pictures!Call
    BY <1>0, <1>2, <1>3, <1>8 DEF Pictures!DownloadEnds
  <2>2. UNCHANGED <<object, writes, image>>
    BY <1>8 DEF Pictures!DownloadEnds, Pictures!server, Pictures!screen
  <2>3. QED BY <1>4, <2>1, <2>2 DEF Pictures!TypeOK
<1>9. CASE Pictures!ImageArrives
  <2>1. /\ calls' \subseteq Pictures!Call /\ image' \in Pics \cup {GooglePic, NoPic}
        /\ UNCHANGED <<object, writes>>
    BY <1>3, <1>9 DEF Pictures!ImageArrives, Pictures!ShownOn, Pictures!server
  <2>2. QED BY <1>4, <2>1 DEF Pictures!TypeOK
<1>10. QED BY <1>5, <1>6, <1>7, <1>8, <1>9 DEF Pictures!Storage

\* ... and by the person.
LEMMA PersonStep ==
    ASSUME Pictures!TypeOK, Pictures!Person
    PROVE  Pictures!TypeOK'
<1>1. CASE Pictures!SignIn
  <2>1. Pictures!FirstReads \in Seq(Pictures!Read)
    BY ProfileParts DEF Pictures!FirstReads
  <2>2. reads' \in Seq(Pictures!Read)
    BY <1>1, <2>1, ProfileAsked DEF Pictures!SignIn
  <2>3. presses' = presses + 1 /\ presses < MaxSaves /\ pages' = pages + 1 /\ signedIn' = TRUE
    BY <1>1 DEF Pictures!SignIn, Pictures!Tap
  <2>4. presses' \in 0..MaxSaves /\ pages' \in 0..presses' /\ signedIn' \in BOOLEAN
    BY <2>3, PagesCounted, ProfileAssumed
  <2>5. UNCHANGED <<doc, object, writes, told, orphans, calls, userData, formSheet, image, saved, breaks>>
    BY <1>1 DEF Pictures!SignIn, Pictures!server
  <2>6. QED BY <2>2, <2>4, <2>5 DEF Pictures!TypeOK
<1>2. CASE Pictures!OpenPage
  <2>1. <<Pictures!Asked("page")>> \in Seq(Pictures!Read)
    BY ProfileParts
  <2>2. reads' \in Seq(Pictures!Read)
    BY <1>2, <2>1, ProfileAsked DEF Pictures!OpenPage
  <2>3. presses' \in 0..MaxSaves /\ pages' \in 0..presses'
    <3>1. presses' = presses + 1 /\ presses < MaxSaves /\ pages' = pages
      BY <1>2 DEF Pictures!OpenPage, Pictures!Tap, Pictures!screen
    <3>2. QED BY <3>1, PagesCounted, ProfileAssumed
  <2>4. calls' \subseteq Pictures!Call
    <3>1. Pictures!Called("download", NoPic, pages) \in Pictures!Call
      BY PagesCounted DEF Pictures!Called, Pictures!Call
    <3>2. QED BY <1>2, <3>1, ProfileTyped DEF Pictures!OpenPage
  <2>5. UNCHANGED <<doc, object, writes, told, orphans, signedIn, userData, formSheet, image, saved, breaks>>
    BY <1>2 DEF Pictures!OpenPage, Pictures!server, Pictures!screen
  <2>6. QED BY <2>2, <2>3, <2>4, <2>5 DEF Pictures!TypeOK
<1>3. CASE Pictures!Logout
  <2>1. presses' \in 0..MaxSaves /\ pages' \in 0..presses' /\ signedIn' \in BOOLEAN
    <3>1. presses' = presses + 1 /\ presses < MaxSaves /\ pages' = pages
      BY <1>3 DEF Pictures!Logout, Pictures!Tap
    <3>2. presses' \in 0..MaxSaves /\ pages' \in 0..presses'
      BY <3>1, PagesCounted, ProfileAssumed
    <3>3. signedIn' \in BOOLEAN
      BY <1>3 DEF Pictures!Logout
    <3>4. QED BY <3>2, <3>3
  <2>2. /\ UNCHANGED <<doc, object, writes, told, orphans, reads, calls, userData, formSheet, saved, breaks>>
        /\ image' = NoPic
    BY <1>3 DEF Pictures!Logout, Pictures!server
  <2>3. QED BY <2>1, <2>2 DEF Pictures!TypeOK
<1>4. CASE Pictures!OpenForm
  <2>1. presses' \in 0..MaxSaves /\ pages' \in 0..presses'
    <3>1. presses' = presses + 1 /\ presses < MaxSaves /\ pages' = pages
      BY <1>4 DEF Pictures!OpenForm, Pictures!Tap
    <3>2. QED BY <3>1, PagesCounted, ProfileAssumed
  <2>2. formSheet' \in [open : BOOLEAN, form : Pictures!Fields]
    BY <1>4, ProfileTyped DEF Pictures!OpenForm
  <2>3. UNCHANGED <<doc, object, writes, told, orphans, reads, calls, signedIn, userData, image, saved, breaks>>
    BY <1>4 DEF Pictures!OpenForm, Pictures!server
  <2>4. QED BY <2>1, <2>2, <2>3 DEF Pictures!TypeOK
<1>5. CASE Pictures!Save
  <2>1. PICK f \in Forms \cup {formSheet.form} :
          /\ userData' = [userData EXCEPT !.form = f]
          /\ Pictures!Enqueue(Pictures!FormWrite(f))
          /\ saved' = [yes |-> TRUE, form |-> f]
    BY <1>5 DEF Pictures!Save
  <2>2. f \in Pictures!Fields
    BY ProfileTyped DEF Pictures!Fields
  <2>3. Pictures!FormWrite(f) \in Pictures!Mutation
    BY <2>2 DEF Pictures!Mutation
  <2>4. writes' \in Seq(Pictures!Mutation) /\ Len(told) <= Len(writes') /\ orphans \in 0..Len(writes')
    BY <2>1, <2>3, ProfileQueued
  <2>5. /\ userData' \in [form : Pictures!Fields, url : {"none", "google", "storage"}, arrived : BOOLEAN]
        /\ saved' \in [yes : BOOLEAN, form : Pictures!Fields]
    BY <2>1, <2>2, ProfileTyped
  <2>6. calls' \subseteq Pictures!Call
    <3>1. \A p \in Pics : Pictures!Upload(p, pages) \subseteq Pictures!Call
      BY PagesCounted, Uploaded
    <3>2. QED BY <1>5, <3>1, ProfileTyped DEF Pictures!Save
  <2>7. formSheet' \in [open : BOOLEAN, form : Pictures!Fields]
    BY <1>5, ProfileTyped DEF Pictures!Save
  <2>8. UNCHANGED <<doc, object, told, orphans, reads, signedIn, pages, image, presses, breaks>>
    BY <1>5 DEF Pictures!Save, Pictures!server
  <2>9. QED BY <2>4, <2>5, <2>6, <2>7, <2>8 DEF Pictures!TypeOK
<1>6. CASE Pictures!CloseForm
  <2>1. formSheet' \in [open : BOOLEAN, form : Pictures!Fields]
    BY <1>6, ProfileTyped DEF Pictures!CloseForm
  <2>2. UNCHANGED <<doc, object, writes, told, orphans, reads, calls, signedIn, userData, pages, image,
                    saved, presses, breaks>>
    BY <1>6 DEF Pictures!CloseForm, Pictures!server
  <2>3. QED BY <2>1, <2>2 DEF Pictures!TypeOK
<1>7. QED BY <1>1, <1>2, <1>3, <1>4, <1>5, <1>6 DEF Pictures!Person

LEMMA ProfileTypes ==
    ASSUME Pictures!TypeOK, Pictures!Next
    PROVE  Pictures!TypeOK'
<1>1. CASE Pictures!Crash
  <2>1. UNCHANGED <<doc, object, writes, pages, saved, presses>> /\ told' = <<>>
    BY <1>1 DEF Pictures!Crash, Pictures!server
  <2>2. /\ reads' \in Seq(Pictures!Read) /\ calls' \subseteq Pictures!Call /\ signedIn' \in BOOLEAN
        /\ userData' \in [form : Pictures!Fields, url : {"none", "google", "storage"}, arrived : BOOLEAN]
        /\ formSheet' \in [open : BOOLEAN, form : Pictures!Fields]
        /\ image' \in Pics \cup {GooglePic, NoPic}
    <3>1. signedIn' \in BOOLEAN
      BY <1>1 DEF Pictures!Crash
    <3>2. reads' = <<>> /\ calls' = {} /\ image' = NoPic
          /\ userData' = [form |-> Blank, url |-> "none", arrived |-> FALSE]
          /\ formSheet' = [open |-> FALSE, form |-> Blank]
      BY <1>1 DEF Pictures!Crash
    <3>3. <<>> \in Seq(Pictures!Read) /\ Blank \in Pictures!Fields
      BY ProfileParts
    <3>4. QED BY <3>1, <3>2, <3>3
  <2>3. writes \in Seq(Pictures!Mutation)
    BY ProfileTyped
  <2>4. orphans' \in 0..Len(writes') /\ Len(told') <= Len(writes') /\ told' \in Seq({"ok", "error"})
    <3>1. Len(writes) \in Nat
      BY <2>3, SeqAt
    <3>2. orphans' = Len(writes)
      BY <1>1 DEF Pictures!Crash
    <3>3. QED BY <2>1, <3>1, <3>2
  <2>5. breaks' \in 0..MaxBreaks
    BY <1>1, ProfileTyped, ProfileAssumed DEF Pictures!Crash, Pictures!Break
  <2>6. QED BY <2>1, <2>2, <2>4, <2>5 DEF Pictures!TypeOK
<1>2. CASE Pictures!Resend
  <2>1. /\ UNCHANGED <<doc, object, writes, orphans, reads, calls, signedIn, userData, formSheet,
                       pages, image, saved, presses>>
        /\ told' = <<>>
    BY <1>2 DEF Pictures!Resend, Pictures!server, Pictures!screen
  <2>2. breaks' \in 0..MaxBreaks
    BY <1>2, ProfileTyped, ProfileAssumed DEF Pictures!Resend, Pictures!Break
  <2>3. Len(told') <= Len(writes') /\ told' \in Seq({"ok", "error"})
    <3>1. writes \in Seq(Pictures!Mutation)
      BY ProfileTyped
    <3>2. Len(writes) \in Nat
      BY <3>1, SeqAt
    <3>3. QED BY <2>1, <3>2
  <2>4. QED BY <2>1, <2>2, <2>3 DEF Pictures!TypeOK
<1>3. QED
  BY <1>1, <1>2, ReadsStep, QueueStep, PictureStep, PersonStep DEF Pictures!Next, Pictures!Firestore

LEMMA ProfileKept == PagesSpec => []Pictures!TypeOK
<1>1. PagesInit => Pictures!TypeOK
  <2>1. SUFFICES ASSUME Saving!Init
                 PROVE  Pictures!TypeOK
    BY DEF PagesInit
  <2>2. /\ doc \in {Pictures!Missing, Pictures!NewAccount}
        /\ object = NoPic /\ writes = <<>> /\ told = <<>> /\ orphans = 0
        /\ reads = <<>> /\ calls = {} /\ signedIn = FALSE
        /\ userData = [form |-> Blank, url |-> "none", arrived |-> FALSE]
        /\ formSheet = [open |-> FALSE, form |-> Blank]
        /\ pages = 0 /\ image = NoPic /\ saved = [yes |-> FALSE, form |-> Blank]
        /\ presses = 0 /\ breaks = 0
    BY <2>1 DEF Saving!Init, Saving!Missing, Pictures!Missing, Saving!NewAccount, Pictures!NewAccount
  <2>3. \A S : <<>> \in Seq(S)
    OBVIOUS
  <2>4. /\ userData \in [form : Pictures!Fields, url : {"none", "google", "storage"}, arrived : BOOLEAN]
        /\ formSheet \in [open : BOOLEAN, form : Pictures!Fields]
        /\ saved \in [yes : BOOLEAN, form : Pictures!Fields]
    BY <2>2 DEF Pictures!Fields
  <2>5. 0 \in 0..MaxSaves /\ 0 \in 0..MaxBreaks /\ 0 \in 0..Len(<<>>) /\ 0 \in 0..0 /\ 0 <= 0 /\ Len(<<>>) = 0
    BY ProfileAssumed
  <2>6. doc \in Pictures!Document
    BY <2>2, ProfileParts
  <2>7. QED BY <2>2, <2>3, <2>4, <2>5, <2>6 DEF Pictures!TypeOK
<1>2. Pictures!TypeOK /\ [PagesNext]_pageVars => Pictures!TypeOK'
  <2>1. SUFFICES ASSUME Pictures!TypeOK, [PagesNext]_pageVars
                 PROVE  Pictures!TypeOK'
    OBVIOUS
  <2>2. CASE UNCHANGED profileVars
    BY <2>1, <2>2 DEF profileVars, Pictures!TypeOK
  <2>3. CASE Pictures!Next
    BY <2>1, <2>3, ProfileTypes
  <2>4. QED BY <2>1, <2>2, <2>3, ProfileVisited, SavingIsPictures
<1>3. QED BY <1>1, <1>2, PTL DEF PagesSpec

\* Until its profile arrives a sign-in has nothing in flight but its own reads,
\* and no write of this start of the app is waiting but the account.
FirstSignIn ==
    ~userData.arrived =>
        /\ userData.url = "none" /\ ~formSheet.open /\ calls = {}
        /\ signedIn <=> reads # <<>>
        /\ Len(reads) <= 2
        /\ Len(reads) = 1 => reads[1].of = "signIn" /\ Saving!Exists
        /\ Len(reads) = 2 => /\ reads[1].of = "account" /\ reads[2].of = "signIn"
                             /\ reads[1].served => (reads[1].got.exists <=> Saving!Exists)
        /\ \A i \in DOMAIN writes : i > orphans => writes[i] = Saving!Account

\* From then on there is an account, and no answered read missed it.
AccountStands ==
    userData.arrived =>
        /\ Saving!Exists
        /\ \A i \in DOMAIN reads : reads[i].of = "account" /\ reads[i].served => reads[i].got.exists

\* An account in the queue is the oldest write, and is what brings the document
\* the others update; what a set of it blanks is written again behind it.
AccountLeads ==
    /\ \A i \in DOMAIN writes : writes[i] = Saving!Account => i = 1
    /\ \A i \in DOMAIN writes :
          writes[i] # Saving!Account => doc.exists \/ (1 \in DOMAIN writes /\ writes[1] = Saving!Account)
    /\ Saving!AccountBlanksNothing

\* Taken writes are in the document; only URLs are refused.
AnswerTold ==
    /\ \A i \in DOMAIN told : told[i] = "ok" => doc.exists
    /\ \A i \in DOMAIN told : told[i] = "error" => writes[i].kind = "url"
    /\ \A i \in DOMAIN told :
          writes[i].kind # "url" /\ (\A j \in (i + 1)..Len(told) : writes[j].kind = "url")
             => doc.form = Saving!Applied(writes[i], Saving!NewAccount).form

LastSaved == saved.yes => Saving!Exists /\ Saving!Shows(saved.form)

SavingInv == FirstSignIn /\ AccountStands /\ AccountLeads /\ AnswerTold /\ LastSaved

-----------------------------------------------------------------------------

LEMMA SavingTyped ==
    ASSUME Pictures!TypeOK
    PROVE  /\ doc \in Saving!Document
           /\ writes \in Seq(Saving!Mutation)
           /\ told \in Seq({"ok", "error"}) /\ Len(told) <= Len(writes)
           /\ orphans \in 0..Len(writes)
           /\ reads \in Seq(Saving!Read)
           /\ userData \in [form : Saving!Fields, url : {"none", "google", "storage"}, arrived : BOOLEAN]
           /\ formSheet \in [open : BOOLEAN, form : Saving!Fields]
           /\ saved \in [yes : BOOLEAN, form : Saving!Fields]
BY SameTypes DEF Saving!TypeOK

\* The writes one by one, and what they leave of a new account.
LEMMA WritesAt ==
    ASSUME Pictures!TypeOK
    PROVE  /\ Len(writes) \in Nat /\ DOMAIN writes = 1..Len(writes)
           /\ \A i \in DOMAIN writes : i \in Nat /\ writes[i] \in Saving!Mutation
           /\ writes # <<>> => 1 \in DOMAIN writes /\ Head(writes) = writes[1]
<1>1. writes \in Seq(Saving!Mutation)
  BY SavingTyped
<1>2. QED BY <1>1, SeqAt, TailAt

\* What kinds of writes there are, and what one makes of a document.
LEMMA Kinds ==
    /\ Saving!Account \in Saving!Mutation
    /\ \A w \in Saving!Mutation : /\ w.kind \in {"account", "form", "url"}
                                  /\ w = Saving!Account <=> w.kind = "account"
    /\ \A w \in Saving!Mutation, d \in Saving!Document :
          w = Saving!Account \/ d.exists =>
             /\ Saving!Applied(w, d).exists
             /\ Saving!Applied(w, d).form =
                   IF w.kind = "url" THEN d.form ELSE Saving!Applied(w, Saving!NewAccount).form
<1>1. /\ Saving!Account \in Saving!Mutation
      /\ \A w \in Saving!Mutation : /\ w.kind \in {"account", "form", "url"}
                                    /\ w = Saving!Account <=> w.kind = "account"
  BY DEF Saving!Mutation, Saving!Account, Saving!FormWrite, Saving!URLWrite
<1>2. ASSUME NEW w \in Saving!Mutation, NEW d \in Saving!Document, w = Saving!Account \/ d.exists
      PROVE  /\ Saving!Applied(w, d).exists
             /\ Saving!Applied(w, d).form =
                   IF w.kind = "url" THEN d.form ELSE Saving!Applied(w, Saving!NewAccount).form
  <2>1. CASE w = Saving!Account
    <3>1. w.kind # "url"
      BY <1>1, <2>1
    <3>2. Saving!Applied(w, d) = Saving!NewAccount /\ Saving!Applied(w, Saving!NewAccount) = Saving!NewAccount
      BY <2>1 DEF Saving!Applied
    <3>3. Saving!NewAccount.exists
      BY DEF Saving!NewAccount
    <3>4. QED BY <3>1, <3>2, <3>3
  <2>2. CASE w # Saving!Account /\ w.kind = "form"
    <3>1. d.exists /\ Saving!NewAccount.exists
      BY <1>2, <2>2 DEF Saving!NewAccount
    <3>2. /\ Saving!Applied(w, d) = [d EXCEPT !.form = w.form]
          /\ Saving!Applied(w, Saving!NewAccount) = [Saving!NewAccount EXCEPT !.form = w.form]
      BY <2>2, <3>1 DEF Saving!Applied
    <3>3. QED BY <2>2, <3>1, <3>2 DEF Saving!NewAccount, Saving!Document
  <2>3. CASE w # Saving!Account /\ w.kind = "url"
    <3>1. Saving!Applied(w, d) = [d EXCEPT !.url = TRUE]
      BY <1>2, <2>3 DEF Saving!Applied
    <3>2. QED BY <1>2, <2>3, <3>1 DEF Saving!Document
  <2>4. QED BY <1>1, <2>1, <2>2, <2>3
<1>3. QED BY <1>1, <1>2

\* A write that joins the queue decides the view, unless it is only an URL.
LEMMA WriteJoins ==
    ASSUME Pictures!TypeOK, NEW w \in Saving!Mutation, Saving!Enqueue(w), UNCHANGED doc
    PROVE  /\ DOMAIN writes' = 1..(Len(writes) + 1)
           /\ \A i \in DOMAIN writes : i \in DOMAIN writes' /\ writes'[i] = writes[i]
           /\ Len(writes) + 1 \in DOMAIN writes' /\ writes'[Len(writes) + 1] = w
           /\ \A i \in DOMAIN writes' : i \in DOMAIN writes \/ i = Len(writes) + 1
           /\ Saving!Exists' <=> (Saving!Exists \/ w = Saving!Account)
           /\ w.kind # "url" => Saving!Shows(Saving!Applied(w, Saving!NewAccount).form)'
           /\ \A f : w.kind = "url" /\ Saving!Shows(f) => Saving!Shows(f)'
<1> DEFINE n == Len(writes)
<1>1. /\ writes \in Seq(Saving!Mutation) /\ w \in Saving!Mutation /\ n \in Nat
      /\ DOMAIN writes = 1..n
  BY SavingTyped, WritesAt
<1>2. /\ DOMAIN Append(writes, w) = 1..(n + 1)
      /\ \A i \in 1..n : Append(writes, w)[i] = writes[i]
      /\ Append(writes, w)[n + 1] = w
  BY <1>1, AppendAt
<1>3. writes' = Append(writes, w)
  BY DEF Saving!Enqueue
<1> HIDE DEF n
<1>4. /\ DOMAIN writes' = 1..(n + 1)
      /\ \A i \in DOMAIN writes : i \in DOMAIN writes' /\ writes'[i] = writes[i]
      /\ n + 1 \in DOMAIN writes' /\ writes'[n + 1] = w
      /\ \A i \in DOMAIN writes' : i \in DOMAIN writes \/ i = n + 1
  BY <1>1, <1>2, <1>3
<1>5. Saving!Exists' <=> (Saving!Exists \/ w = Saving!Account)
  BY <1>4 DEF Saving!Exists, Saving!Account
<1>6. Len(writes') = n + 1
  BY <1>1, <1>3, AppendAt
<1>7. ASSUME w.kind # "url"
      PROVE  Saving!Shows(Saving!Applied(w, Saving!NewAccount).form)'
  <2>1. \A j \in (n + 1 + 1)..Len(writes') : writes'[j].kind = "url"
    BY <1>1, <1>6
  <2>2. QED BY <1>4, <1>7, <2>1 DEF Saving!Shows, Saving!Applied, Saving!NewAccount, Saving!Account
<1>8. ASSUME NEW f, w.kind = "url", Saving!Shows(f)
      PROVE  Saving!Shows(f)'
  <2>1. CASE \E i \in DOMAIN writes :
                /\ writes[i].kind # "url" /\ f = Saving!Applied(writes[i], Saving!NewAccount).form
                /\ \A j \in (i + 1)..n : writes[j].kind = "url"
    <3>1. PICK i \in DOMAIN writes :
                /\ writes[i].kind # "url" /\ f = Saving!Applied(writes[i], Saving!NewAccount).form
                /\ \A j \in (i + 1)..n : writes[j].kind = "url"
      BY <2>1
    <3>2. i \in DOMAIN writes' /\ writes'[i] = writes[i]
      BY <1>4
    <3>3. ASSUME NEW j \in (i + 1)..Len(writes')
          PROVE  writes'[j].kind = "url"
      <4>1. (j \in (i + 1)..n /\ j \in DOMAIN writes) \/ j = n + 1
        BY <1>1, <1>6
      <4>2. QED BY <1>4, <1>8, <3>1, <4>1
    <3>4. QED BY <3>1, <3>2, <3>3 DEF Saving!Shows, Saving!Applied, Saving!NewAccount, Saving!Account
  <2>2. CASE f = doc.form /\ \A i \in DOMAIN writes : writes[i].kind = "url"
    <3>1. \A i \in DOMAIN writes' : writes'[i].kind = "url"
      BY <1>4, <1>8, <2>2
    <3>2. QED BY <2>2, <3>1 DEF Saving!Shows
  <2>3. QED BY <1>8, <2>1, <2>2 DEF Saving!Shows, n
<1>9. QED BY <1>4, <1>5, <1>7, <1>8 DEF n

\* The answers one by one: each is that of a write.
LEMMA ToldAt ==
    ASSUME Pictures!TypeOK
    PROVE  /\ Len(told) \in Nat /\ DOMAIN told = 1..Len(told) /\ (told = <<>> <=> Len(told) = 0)
           /\ \A i \in DOMAIN told : told[i] \in {"ok", "error"} /\ i \in DOMAIN writes
<1>1. told \in Seq({"ok", "error"}) /\ Len(told) <= Len(writes)
  BY SavingTyped
<1>2. /\ Len(told) \in Nat /\ DOMAIN told = 1..Len(told) /\ (told = <<>> <=> Len(told) = 0)
      /\ \A i \in DOMAIN told : told[i] \in {"ok", "error"}
  BY <1>1, SeqAt
<1>3. Len(writes) \in Nat /\ DOMAIN writes = 1..Len(writes)
  BY WritesAt
<1>4. QED BY <1>1, <1>2, <1>3

\* What the queue holds stays in order when an account joins it only while
\* there is none, and anything else only behind one.
LEMMA JoinsInOrder ==
    ASSUME Pictures!TypeOK, AccountLeads, AnswerTold,
           NEW w \in Saving!Mutation, Saving!Enqueue(w), UNCHANGED <<doc, told>>,
           w = Saving!Account <=> ~Saving!Exists
    PROVE  AccountLeads' /\ AnswerTold'
<1> DEFINE n == Len(writes)
<1>1. /\ \A i \in DOMAIN writes : i \in DOMAIN writes' /\ writes'[i] = writes[i]
      /\ n + 1 \in DOMAIN writes' /\ writes'[n + 1] = w
      /\ \A i \in DOMAIN writes' : i \in DOMAIN writes \/ i = n + 1
      /\ DOMAIN writes' = 1..(n + 1)
  BY WriteJoins
<1>2. n \in Nat /\ DOMAIN writes = 1..n /\ DOMAIN told \subseteq DOMAIN writes
  BY WritesAt, ToldAt
<1>3. AnswerTold'
  <2>1. \A i \in DOMAIN told : writes'[i] = writes[i]
    BY <1>1, <1>2
  <2>2. \A i \in DOMAIN told : \A j \in (i + 1)..Len(told) : j \in DOMAIN told
    BY ToldAt
  <2>3. QED BY <2>1, <2>2 DEF AnswerTold, Saving!Applied, Saving!NewAccount, Saving!Account
<1> HIDE DEF n
<1>4. CASE w = Saving!Account
  <2>1. ~doc.exists /\ \A i \in DOMAIN writes : writes[i] # Saving!Account
    BY <1>4 DEF Saving!Exists
  <2>2. DOMAIN writes = {}
    BY <2>1 DEF AccountLeads
  <2>3. n = 0
    BY <1>2, <2>2
  <2>4. \A i \in DOMAIN writes' : i = 1 /\ writes'[i] = Saving!Account
    BY <1>1, <1>4, <2>2, <2>3
  <2>5. QED BY <1>3, <2>1, <2>4 DEF AccountLeads, Saving!AccountBlanksNothing, Saving!Account
<1>5. CASE w # Saving!Account
  <2>1. \A i \in DOMAIN writes' : writes'[i] = Saving!Account => i \in DOMAIN writes /\ writes[i] = Saving!Account
    BY <1>1, <1>5
  <2>2. \A i \in DOMAIN writes' : writes'[i] = Saving!Account => i = 1
    BY <2>1 DEF AccountLeads
  <2>3. doc.exists \/ (1 \in DOMAIN writes' /\ writes'[1] = Saving!Account)
    <3>1. doc.exists \/ \E i \in DOMAIN writes : writes[i] = Saving!Account
      BY <1>5 DEF Saving!Exists
    <3>2. \A i \in DOMAIN writes : writes[i] = Saving!Account => i = 1 /\ 1 \in DOMAIN writes
      BY DEF AccountLeads
    <3>3. QED BY <1>1, <3>1, <3>2
  <2>4. Saving!AccountBlanksNothing'
    <3>1. ASSUME NEW i \in DOMAIN writes', writes'[i] = Saving!Account, doc.exists
          PROVE  /\ doc.form = Blank \/ \E j \in (i + 1)..(n + 1) : writes'[j] = Saving!FormWrite(doc.form)
                 /\ doc.url => \E j \in (i + 1)..(n + 1) : writes'[j].kind = "url"
      <4>1. i \in DOMAIN writes /\ writes[i] = Saving!Account
        BY <2>1, <3>1
      <4>2. /\ doc.form = Blank \/ \E j \in (i + 1)..n : writes[j] = Saving!FormWrite(doc.form)
            /\ doc.url => \E j \in (i + 1)..n : writes[j].kind = "url"
        BY <3>1, <4>1 DEF AccountLeads, Saving!AccountBlanksNothing, n
      <4>3. \A j \in (i + 1)..n : j \in (i + 1)..(n + 1) /\ j \in DOMAIN writes
        BY <1>2, <4>1
      <4>4. QED BY <1>1, <4>2, <4>3
    <3>2. Len(writes') = n + 1
      BY SavingTyped, AppendAt DEF Saving!Enqueue, n
    <3>3. QED BY <3>1, <3>2 DEF Saving!AccountBlanksNothing, Saving!Account, Saving!FormWrite
  <2>5. QED BY <1>3, <2>2, <2>3, <2>4 DEF AccountLeads, Saving!Account
<1>6. QED BY <1>4, <1>5

\* The queue's part stays while the document, the writes and their answer do.
LEMMA QueueRests ==
    ASSUME AccountLeads, AnswerTold, UNCHANGED <<doc, writes, told>>
    PROVE  /\ AccountLeads' /\ AnswerTold'
           /\ Saving!Exists' <=> Saving!Exists
           /\ LastSaved /\ UNCHANGED saved => LastSaved'
<1>1. AccountLeads' /\ AnswerTold'
  BY DEF AccountLeads, AnswerTold, Saving!AccountBlanksNothing, Saving!Applied, Saving!NewAccount,
         Saving!Account, Saving!FormWrite
<1>2. Saving!Exists' <=> Saving!Exists
  BY DEF Saving!Exists, Saving!Account
<1>3. \A f : Saving!Shows(f)' <=> Saving!Shows(f)
  BY DEF Saving!Shows, Saving!Applied, Saving!NewAccount, Saving!Account
<1>4. QED BY <1>1, <1>2, <1>3 DEF LastSaved

\* A read is answered from the document under the pending writes.
LEMMA SavingServed ==
    ASSUME Pictures!TypeOK, SavingInv, Saving!Serve
    PROVE  SavingInv'
<1>1. PICK i \in DOMAIN reads, d \in Saving!Document :
          /\ d = Saving!View
          /\ reads' = [reads EXCEPT ![i].served = TRUE, ![i].got = d]
  BY DEF Saving!Serve
<1>2. UNCHANGED <<doc, writes, told, orphans, calls, signedIn, userData, formSheet, saved>>
  BY DEF Saving!Serve, Saving!server, Saving!screen
<1>3. d.exists <=> Saving!Exists
  BY <1>1 DEF Saving!View, Saving!Missing
<1>4. reads \in Seq(Saving!Read) /\ i \in DOMAIN reads
  BY SavingTyped
<1> DEFINE r == [reads[i] EXCEPT !.served = TRUE, !.got = d]
<1>5. reads[i] \in Saving!Read /\ Len(reads) \in Nat
  BY <1>4, SeqAt
<1>6. r \in Saving!Read /\ r.of = reads[i].of /\ r.got = d
  BY <1>5 DEF Saving!Read
<1>7. reads' = [reads EXCEPT ![i] = r]
  BY <1>1, <1>4
<1> HIDE DEF r
<1>8. /\ Len(reads') = Len(reads) /\ DOMAIN reads' = DOMAIN reads
      /\ reads'[i] = r /\ \A j \in DOMAIN reads : j # i => reads'[j] = reads[j]
  BY <1>4, <1>6, <1>7, ExceptAt
<1>9. \A j \in DOMAIN reads : /\ reads'[j].of = reads[j].of
                              /\ \/ reads'[j] = reads[j]
                                 \/ reads'[j].got.exists <=> Saving!Exists
  BY <1>3, <1>6, <1>8
<1>10. AccountLeads' /\ AnswerTold' /\ LastSaved' /\ (Saving!Exists' <=> Saving!Exists)
  BY <1>2, QueueRests DEF SavingInv
<1>11. AccountStands'
  BY <1>2, <1>8, <1>9, <1>10 DEF SavingInv, AccountStands
<1>12. FirstSignIn'
  <2>1. SUFFICES ASSUME ~userData.arrived
                 PROVE  FirstSignIn'
    BY <1>2 DEF FirstSignIn
  <2>2. /\ userData.url = "none" /\ ~formSheet.open /\ calls = {}
        /\ signedIn <=> reads # <<>>
        /\ Len(reads) <= 2
        /\ Len(reads) = 1 => reads[1].of = "signIn" /\ Saving!Exists
        /\ Len(reads) = 2 => /\ reads[1].of = "account" /\ reads[2].of = "signIn"
                             /\ reads[1].served => (reads[1].got.exists <=> Saving!Exists)
        /\ \A k \in DOMAIN writes : k > orphans => writes[k] = Saving!Account
    BY <2>1 DEF SavingInv, FirstSignIn
  <2>3. reads # <<>> /\ reads' # <<>> /\ DOMAIN reads = 1..Len(reads)
    BY <1>4, <1>5, <1>7, <1>8, SeqAt
  <2>4. Len(reads) = 1 => reads'[1].of = "signIn" /\ Saving!Exists
    BY <1>9, <2>2, <2>3
  <2>5. Len(reads) = 2 => /\ reads'[1].of = "account" /\ reads'[2].of = "signIn"
                          /\ reads'[1].served => (reads'[1].got.exists <=> Saving!Exists)
    <3>1. Len(reads) = 2 => 1 \in DOMAIN reads /\ 2 \in DOMAIN reads
      BY <2>3
    <3>2. QED BY <1>9, <2>2, <3>1
  <2>6. signedIn' <=> reads' # <<>>
    BY <1>2, <2>2, <2>3
  <2>7. \A k \in DOMAIN writes' : k > orphans' => writes'[k] = Saving!Account
    BY <1>2, <2>2
  <2>8. QED BY <1>2, <1>8, <1>10, <2>2, <2>4, <2>5, <2>6, <2>7 DEF FirstSignIn, Saving!Account
<1>13. QED BY <1>10, <1>11, <1>12 DEF SavingInv

\* The reads that are left when the first is delivered.
LEMMA ReadTaken ==
    ASSUME Pictures!TypeOK, NEW of, Saving!Arrives(of)
    PROVE  /\ Head(reads) = reads[1] /\ reads[1].of = of /\ reads[1].served
           /\ 1 \in DOMAIN reads /\ Len(reads) \in Nat /\ Len(reads) >= 1 /\ reads # <<>>
           /\ Len(reads') = Len(reads) - 1
           /\ reads' = <<>> <=> Len(reads) = 1
           /\ DOMAIN reads = 1..Len(reads) /\ DOMAIN reads' = 1..(Len(reads) - 1)
           /\ \A i \in DOMAIN reads' : i + 1 \in DOMAIN reads /\ reads'[i] = reads[i + 1]
<1>1. reads \in Seq(Saving!Read) /\ reads # <<>>
  BY SavingTyped DEF Saving!Arrives
<1>2. /\ Head(reads) = reads[1] /\ 1 \in DOMAIN reads
      /\ Tail(reads) \in Seq(Saving!Read) /\ Len(Tail(reads)) = Len(reads) - 1
      /\ DOMAIN Tail(reads) = 1..(Len(reads) - 1)
      /\ \A i \in 1..(Len(reads) - 1) : Tail(reads)[i] = reads[i + 1] /\ i + 1 \in DOMAIN reads
  BY <1>1, TailAt
<1>3. Len(reads) \in Nat /\ DOMAIN reads = 1..Len(reads) /\ (Tail(reads) = <<>> <=> Len(Tail(reads)) = 0)
  BY <1>1, <1>2, SeqAt
<1>4. reads' = Tail(reads) /\ Head(reads).served /\ Head(reads).of = of
  BY DEF Saving!Arrives
<1>5. Len(reads) >= 1 /\ (Len(reads) - 1 = 0 <=> Len(reads) = 1)
  BY <1>2, <1>3
<1>6. QED BY <1>1, <1>2, <1>3, <1>4, <1>5

\* addUsertoFirestore's read makes an account when there is none on its way.
LEMMA SavingAccountRead ==
    ASSUME Pictures!TypeOK, SavingInv, Saving!AccountRead
    PROVE  SavingInv'
<1>1. UNCHANGED <<doc, told, orphans, calls, signedIn, userData, formSheet, saved>>
  BY DEF Saving!AccountRead, Saving!server, Saving!screen
<1>2. /\ Head(reads) = reads[1] /\ reads[1].of = "account" /\ reads[1].served
      /\ 1 \in DOMAIN reads /\ Len(reads) \in Nat /\ Len(reads) >= 1 /\ reads # <<>>
      /\ Len(reads') = Len(reads) - 1
      /\ reads' = <<>> <=> Len(reads) = 1
      /\ DOMAIN reads = 1..Len(reads) /\ DOMAIN reads' = 1..(Len(reads) - 1)
      /\ \A i \in DOMAIN reads' : i + 1 \in DOMAIN reads /\ reads'[i] = reads[i + 1]
  BY ReadTaken DEF Saving!AccountRead
<1>3. IF reads[1].got.exists THEN UNCHANGED writes ELSE Saving!Enqueue(Saving!Account)
  BY <1>2 DEF Saving!AccountRead
<1>4. ~userData.arrived =>
        /\ userData.url = "none" /\ ~formSheet.open /\ calls = {} /\ signedIn
        /\ Len(reads) = 2 /\ reads[2].of = "signIn" /\ (reads[1].got.exists <=> Saving!Exists)
        /\ \A i \in DOMAIN writes : i > orphans => writes[i] = Saving!Account
  <2>1. "account" # "signIn" /\ (Len(reads) <= 2 => Len(reads) = 1 \/ Len(reads) = 2)
    BY <1>2
  <2>2. QED BY <1>2, <2>1 DEF SavingInv, FirstSignIn
<1>5. userData.arrived => Saving!Exists /\ reads[1].got.exists
  BY <1>2 DEF SavingInv, AccountStands
<1>6. CASE reads[1].got.exists
  <2>1. UNCHANGED writes
    BY <1>3, <1>6
  <2>2. AccountLeads' /\ AnswerTold' /\ LastSaved' /\ (Saving!Exists' <=> Saving!Exists)
    BY <1>1, <2>1, QueueRests DEF SavingInv
  <2>3. AccountStands'
    BY <1>1, <1>2, <2>2 DEF SavingInv, AccountStands
  <2>4. FirstSignIn'
    <3>1. SUFFICES ASSUME ~userData.arrived
                   PROVE  FirstSignIn'
      BY <1>1 DEF FirstSignIn
    <3>2. Len(reads') = 1 /\ 1 \in DOMAIN reads' /\ reads' # <<>> /\ reads'[1] = reads[2]
      BY <1>2, <1>4, <3>1
    <3>3. Len(reads') <= 2 /\ Len(reads') # 2
      BY <3>2
    <3>4. reads'[1].of = "signIn" /\ Saving!Exists' /\ signedIn'
      BY <1>1, <1>4, <1>6, <2>2, <3>1, <3>2
    <3>5. \A i \in DOMAIN writes' : i > orphans' => writes'[i] = Saving!Account
      BY <1>1, <1>4, <2>1, <3>1
    <3>6. QED BY <1>1, <1>4, <3>1, <3>2, <3>3, <3>4, <3>5 DEF FirstSignIn, Saving!Account
  <2>5. QED BY <2>2, <2>3, <2>4 DEF SavingInv
<1>7. CASE ~reads[1].got.exists
  <2>1. Saving!Enqueue(Saving!Account) /\ ~userData.arrived /\ ~Saving!Exists
    BY <1>3, <1>4, <1>5, <1>7
  <2>2. Saving!Account \in Saving!Mutation
    BY Kinds
  <2>3. /\ \A i \in DOMAIN writes : writes'[i] = writes[i]
        /\ writes'[Len(writes) + 1] = Saving!Account
        /\ \A i \in DOMAIN writes' : i \in DOMAIN writes \/ i = Len(writes) + 1
        /\ Saving!Exists'
    BY <1>1, <2>1, <2>2, WriteJoins
  <2>4. AccountLeads' /\ AnswerTold'
    BY <1>1, <2>1, <2>2, JoinsInOrder DEF SavingInv
  <2>5. LastSaved' /\ AccountStands'
    BY <1>1, <2>1 DEF SavingInv, LastSaved, AccountStands
  <2>6. FirstSignIn'
    <3>2. Len(reads') = 1 /\ 1 \in DOMAIN reads' /\ reads' # <<>> /\ reads'[1] = reads[2]
      BY <1>2, <1>4, <2>1
    <3>3. Len(reads') <= 2 /\ Len(reads') # 2
      BY <3>2
    <3>4. reads'[1].of = "signIn" /\ signedIn'
      BY <1>1, <1>4, <2>1, <3>2
    <3>5. \A i \in DOMAIN writes' : i > orphans' => writes'[i] = Saving!Account
      BY <1>1, <1>4, <2>1, <2>3
    <3>6. QED BY <1>1, <1>4, <2>1, <2>3, <3>2, <3>3, <3>4, <3>5 DEF FirstSignIn, Saving!Account
  <2>7. QED BY <2>4, <2>5, <2>6 DEF SavingInv
<1>8. QED BY <1>6, <1>7

\* A profile arrives: there is an account by then.
LEMMA SavingProfileRead ==
    ASSUME Pictures!TypeOK, SavingInv, Saving!SignInRead \/ Saving!PageRead
    PROVE  SavingInv'
<1>1. UNCHANGED <<doc, writes, told, orphans, calls, signedIn, formSheet, saved>>
  BY DEF Saving!SignInRead, Saving!PageRead, Saving!server, Saving!screen
<1>2. PICK of \in {"signIn", "page"} : Saving!Arrives(of)
  BY DEF Saving!SignInRead, Saving!PageRead
<1>3. /\ reads[1].of = of /\ 1 \in DOMAIN reads /\ Len(reads) \in Nat /\ Len(reads) >= 1
      /\ DOMAIN reads = 1..Len(reads) /\ DOMAIN reads' = 1..(Len(reads) - 1)
      /\ \A i \in DOMAIN reads' : i + 1 \in DOMAIN reads /\ reads'[i] = reads[i + 1]
  BY <1>2, ReadTaken
<1>4. ~userData.arrived => Saving!Exists /\ Len(reads) = 1 /\ Saving!SignInRead
  <2>1. Len(reads) <= 2 => Len(reads) = 1 \/ Len(reads) = 2
    BY <1>3
  <2>2. ~userData.arrived => Saving!Exists /\ Len(reads) = 1 /\ reads[1].of = "signIn"
    BY <1>2, <1>3, <2>1 DEF SavingInv, FirstSignIn
  <2>3. Saving!PageRead => reads[1].of = "page"
    BY ReadTaken DEF Saving!PageRead
  <2>4. QED BY <2>2, <2>3
<1>5. Saving!Exists
  BY <1>4 DEF SavingInv, AccountStands
<1>6. userData'.arrived
  <2>1. \A d : Saving!Decoded(d).arrived
    BY DEF Saving!Decoded
  <2>2. Saving!FromGoogle.arrived
    BY DEF Saving!FromGoogle
  <2>3. CASE Saving!SignInRead
    BY <2>1, <2>2, <2>3 DEF Saving!SignInRead
  <2>4. CASE Saving!PageRead /\ userData.arrived
    BY <2>1, <2>4 DEF Saving!PageRead
  <2>5. QED BY <1>4, <2>3, <2>4
<1>7. AccountLeads' /\ AnswerTold' /\ LastSaved' /\ Saving!Exists'
  BY <1>1, <1>5, QueueRests DEF SavingInv
<1>8. AccountStands'
  <2>1. CASE userData.arrived
    BY <1>3, <1>7, <2>1 DEF SavingInv, AccountStands
  <2>2. CASE ~userData.arrived
    <3>1. DOMAIN reads' = {}
      BY <1>3, <1>4, <2>2
    <3>2. QED BY <1>7, <3>1 DEF AccountStands
  <2>3. QED BY <2>1, <2>2
<1>9. FirstSignIn'
  BY <1>6 DEF FirstSignIn
<1>10. QED BY <1>7, <1>8, <1>9 DEF SavingInv

\* The backend takes a write behind those it has answered, an update only of a
\* document that is there, and refuses only URLs.
LEMMA SavingCommitted ==
    ASSUME Pictures!TypeOK, SavingInv, Saving!Commit
    PROVE  SavingInv'
<1> DEFINE k == Len(told) + 1
           w == writes[k]
<1>1. UNCHANGED <<writes, orphans, reads, calls, signedIn, userData, formSheet, saved>>
  BY DEF Saving!Commit, Saving!screen
<1>2. /\ k \in DOMAIN writes /\ Len(told) \in Nat /\ DOMAIN told = 1..Len(told)
      /\ Len(writes) \in Nat /\ DOMAIN writes = 1..Len(writes)
      /\ \A i \in DOMAIN writes : writes[i] \in Saving!Mutation
      /\ \A i \in DOMAIN told : told[i] = "ok" /\ i \in DOMAIN writes
  <2>1. /\ Len(told) \in Nat /\ DOMAIN told = 1..Len(told)
        /\ Len(writes) \in Nat /\ DOMAIN writes = 1..Len(writes)
        /\ \A i \in DOMAIN writes : writes[i] \in Saving!Mutation
        /\ \A i \in DOMAIN told : i \in DOMAIN writes
    BY WritesAt, ToldAt
  <2>2. Len(told) < Len(writes) /\ \A i \in DOMAIN told : told[i] = "ok"
    BY DEF Saving!Commit
  <2>3. k \in DOMAIN writes
    BY <2>1, <2>2
  <2>4. QED BY <2>1, <2>2, <2>3
<1>3. \/ /\ w = Saving!Account \/ doc.exists
         /\ doc' = Saving!Applied(w, doc) /\ told' = Append(told, "ok")
      \/ /\ w.kind = "url" \/ (w # Saving!Account /\ ~doc.exists)
         /\ UNCHANGED doc /\ told' = Append(told, "error")
  BY DEF Saving!Commit
<1>4. w # Saving!Account => doc.exists
  <2>1. SUFFICES ASSUME w # Saving!Account, ~doc.exists
                 PROVE  FALSE
    OBVIOUS
  <2>2. writes[1] = Saving!Account
    BY <1>2, <2>1 DEF SavingInv, AccountLeads
  <2>3. k # 1
    BY <2>1, <2>2
  <2>4. 1 \in DOMAIN told
    BY <1>2, <2>3
  <2>5. QED BY <1>2, <2>1, <2>4 DEF SavingInv, AnswerTold
<1>5. ASSUME NEW a \in {"ok", "error"}, told' = Append(told, a)
      PROVE  /\ DOMAIN told' = 1..k /\ Len(told') = k /\ told'[k] = a
             /\ \A i \in DOMAIN told : told'[i] = told[i]
  <2>1. told \in Seq({"ok", "error"})
    BY SavingTyped
  <2>2. /\ Len(Append(told, a)) = Len(told) + 1 /\ DOMAIN Append(told, a) = 1..(Len(told) + 1)
        /\ \A i \in 1..Len(told) : Append(told, a)[i] = told[i]
        /\ Append(told, a)[Len(told) + 1] = a
    BY <2>1, AppendAt
  <2>3. QED BY <1>2, <1>5, <2>2
<1>6. \A i \in 1..k : i = k \/ i \in DOMAIN told
  BY <1>2
<1>7. \A i \in DOMAIN told : /\ k \in (i + 1)..k
                             /\ \A j \in (i + 1)..Len(told) : j \in (i + 1)..k
  BY <1>2
<1> HIDE DEF k, w
<1>8. CASE told' = Append(told, "error")
  <2>1. UNCHANGED doc /\ w.kind = "url" /\ w # Saving!Account
    <3>1. Append(told, "error") # Append(told, "ok")
      <4>1. told \in Seq({"ok", "error"})
        BY SavingTyped
      <4>2. Append(told, "error")[Len(told) + 1] = "error" /\ Append(told, "ok")[Len(told) + 1] = "ok"
        BY <4>1, AppendAt
      <4>3. QED BY <4>2
    <3>2. w \in Saving!Mutation /\ (w.kind = "url" => w # Saving!Account)
      BY <1>2, Kinds DEF w
    <3>3. QED BY <1>3, <1>4, <1>8, <3>1, <3>2
  <2>2. Saving!Exists' <=> Saving!Exists
    BY <1>1, <2>1 DEF Saving!Exists, Saving!Account
  <2>3. \A f : Saving!Shows(f)' <=> Saving!Shows(f)
    BY <1>1, <2>1 DEF Saving!Shows, Saving!Applied, Saving!NewAccount, Saving!Account
  <2>4. AccountLeads'
    BY <1>1, <2>1 DEF SavingInv, AccountLeads, Saving!AccountBlanksNothing, Saving!Account,
       Saving!FormWrite
  <2>5. DOMAIN told' = 1..k /\ Len(told') = k /\ told'[k] = "error" /\ \A i \in DOMAIN told : told'[i] = told[i]
    BY <1>5, <1>8
  <2>6. AnswerTold'
    <3>1. ASSUME NEW i \in DOMAIN told', i # k
          PROVE  /\ i \in DOMAIN told /\ told'[i] = told[i]
                 /\ \A j \in (i + 1)..Len(told) : j \in (i + 1)..Len(told')
      BY <1>6, <1>7, <2>5, <3>1
    <3>2. writes[k].kind = "url"
      BY <2>1 DEF w
    <3>3. QED BY <1>1, <2>1, <2>5, <3>1, <3>2
          DEF SavingInv, AnswerTold, Saving!Applied, Saving!NewAccount, Saving!Account
  <2>7. LastSaved'
    BY <1>1, <2>2, <2>3 DEF SavingInv, LastSaved
  <2>8. FirstSignIn' /\ AccountStands'
    BY <1>1, <2>2 DEF SavingInv, FirstSignIn, AccountStands, Saving!Account
  <2>9. QED BY <2>4, <2>6, <2>7, <2>8 DEF SavingInv
<1>9. CASE /\ w = Saving!Account \/ doc.exists
           /\ doc' = Saving!Applied(w, doc) /\ told' = Append(told, "ok")
  <2>1. w \in Saving!Mutation /\ doc \in Saving!Document
    BY <1>2, SavingTyped DEF w
  <2>2. /\ doc'.exists
        /\ doc'.form = IF w.kind = "url" THEN doc.form
                       ELSE Saving!Applied(w, Saving!NewAccount).form
    BY <1>9, <2>1, Kinds
  <2>3. Saving!Exists /\ Saving!Exists'
    BY <1>2, <1>9, <2>2 DEF Saving!Exists, w
  <2>4. \A f : Saving!Shows(f) => Saving!Shows(f)'
    BY <1>1, <1>2, <2>2 DEF Saving!Shows, Saving!Applied, Saving!NewAccount, Saving!Account, w
  <2>5. AccountLeads'
    <3>1. ASSUME NEW i \in DOMAIN writes, writes[i] = Saving!Account
          PROVE  /\ doc'.form = Blank \/ \E j \in (i + 1)..Len(writes) : writes[j] = Saving!FormWrite(doc'.form)
                 /\ doc'.url => \E j \in (i + 1)..Len(writes) : writes[j].kind = "url"
      <4>1. i = 1
        BY <3>1 DEF SavingInv, AccountLeads
      <4>2. CASE k = 1
        <5>1. doc' = Saving!NewAccount
          BY <1>9, <3>1, <4>1, <4>2 DEF Saving!Applied, w
        <5>2. QED BY <5>1 DEF Saving!NewAccount
      <4>3. CASE k # 1
        <5>1. k \in (i + 1)..Len(writes) /\ 1 \in DOMAIN told
          BY <1>2, <1>6, <4>1, <4>3
        <5>2. doc.exists
          BY <1>2, <5>1 DEF SavingInv, AnswerTold
        <5>3. w # Saving!Account
          BY <1>2, <4>1, <4>3 DEF SavingInv, AccountLeads, w
        <5>4. /\ doc.form = Blank \/ \E j \in (i + 1)..Len(writes) : writes[j] = Saving!FormWrite(doc.form)
              /\ doc.url => \E j \in (i + 1)..Len(writes) : writes[j].kind = "url"
          BY <3>1, <5>2 DEF SavingInv, AccountLeads, Saving!AccountBlanksNothing
        <5>5. CASE w.kind = "form"
          <6>1. w = Saving!FormWrite(w.form)
            BY <2>1, <5>5 DEF Saving!Mutation, Saving!FormWrite, Saving!URLWrite, Saving!Account
          <6>2. doc' = [doc EXCEPT !.form = w.form]
            BY <1>9, <5>2, <5>3, <5>5 DEF Saving!Applied
          <6>3. doc'.form = w.form /\ doc'.url = doc.url
            BY <2>1, <6>2 DEF Saving!Document
          <6>4. QED BY <5>1, <5>4, <6>1, <6>3 DEF w
        <5>6. CASE w.kind = "url"
          <6>1. doc'.form = doc.form
            BY <2>2, <5>6
          <6>2. QED BY <5>1, <5>4, <5>6, <6>1 DEF w
        <5>7. QED BY <2>1, <5>3, <5>5, <5>6, Kinds
      <4>4. QED BY <4>2, <4>3
    <3>2. Saving!AccountBlanksNothing'
      BY <1>1, <3>1 DEF Saving!AccountBlanksNothing, Saving!Account, Saving!FormWrite
    <3>3. QED BY <1>1, <2>2, <3>2 DEF SavingInv, AccountLeads, Saving!Account
  <2>6. DOMAIN told' = 1..k /\ Len(told') = k /\ told'[k] = "ok" /\ \A i \in DOMAIN told : told'[i] = told[i]
    BY <1>5, <1>9
  <2>7. AnswerTold'
    <3>1. ASSUME NEW i \in DOMAIN told'
          PROVE  told'[i] = "ok"
      BY <1>2, <1>6, <2>6
    <3>2. ASSUME NEW i \in DOMAIN told', writes[i].kind # "url",
                 \A j \in (i + 1)..Len(told') : writes[j].kind = "url"
          PROVE  doc'.form = Saving!Applied(writes[i], Saving!NewAccount).form
      <4>1. CASE i = k
        BY <2>2, <3>2, <4>1 DEF w
      <4>2. CASE i # k
        <5>1. i \in DOMAIN told
          BY <1>6, <2>6, <4>2
        <5>2. writes[k].kind = "url" /\ \A j \in (i + 1)..Len(told) : writes[j].kind = "url"
          BY <1>7, <2>6, <3>2, <5>1
        <5>3. doc.form = Saving!Applied(writes[i], Saving!NewAccount).form
          BY <3>2, <5>1, <5>2 DEF SavingInv, AnswerTold
        <5>4. QED BY <2>2, <5>2, <5>3 DEF w
      <4>3. QED BY <4>1, <4>2
    <3>3. QED BY <1>1, <2>2, <3>1, <3>2
          DEF AnswerTold, Saving!Applied, Saving!NewAccount, Saving!Account
  <2>8. LastSaved'
    BY <1>1, <2>3, <2>4 DEF SavingInv, LastSaved
  <2>9. FirstSignIn' /\ AccountStands'
    BY <1>1, <2>3 DEF SavingInv, FirstSignIn, AccountStands, Saving!Account
  <2>10. QED BY <2>5, <2>7, <2>8, <2>9 DEF SavingInv
<1>10. QED BY <1>3, <1>8, <1>9 DEF w

\* An answered write leaves the queue; a taken one is in the document by then.
LEMMA SavingAcknowledged ==
    ASSUME Pictures!TypeOK, SavingInv, Saving!Acknowledge
    PROVE  SavingInv'
<1> DEFINE n == Len(writes)
           k == Len(told)
<1>1. /\ UNCHANGED <<doc, reads, signedIn, formSheet, saved>>
      /\ told # <<>> /\ told' = Tail(told)
      /\ writes' = Tail(writes) /\ orphans' = Saving!OrphansLeft
      /\ IF orphans > 0 THEN UNCHANGED <<calls, userData>>
         ELSE Saving!Completion(Head(writes), Head(told))
  BY DEF Saving!Acknowledge, Saving!server
<1>2. /\ writes # <<>> /\ Head(writes) = writes[1] /\ 1 \in DOMAIN writes /\ 1 \in DOMAIN told
      /\ n \in Nat /\ DOMAIN writes = 1..n /\ orphans \in 0..n
      /\ k \in Nat /\ DOMAIN told = 1..k /\ k <= n
      /\ \A i \in DOMAIN writes : writes[i] \in Saving!Mutation
      /\ \A i \in DOMAIN told : told[i] \in {"ok", "error"} /\ i \in DOMAIN writes
  <2>1. /\ k \in Nat /\ DOMAIN told = 1..k /\ k # 0 /\ n \in Nat /\ DOMAIN writes = 1..n
        /\ orphans \in 0..n /\ k <= n
        /\ \A i \in DOMAIN writes : writes[i] \in Saving!Mutation
        /\ \A i \in DOMAIN told : told[i] \in {"ok", "error"} /\ i \in DOMAIN writes
    BY <1>1, ToldAt, WritesAt, SavingTyped
  <2>2. 1 \in DOMAIN told /\ 1 \in DOMAIN writes
    BY <2>1
  <2>3. writes # <<>>
    BY <2>2
  <2>4. QED BY <2>1, <2>2, <2>3, WritesAt
<1>3. /\ DOMAIN writes' = 1..(n - 1) /\ Len(writes') = n - 1
      /\ \A i \in DOMAIN writes' : writes'[i] = writes[i + 1] /\ i + 1 \in DOMAIN writes
  <2>1. writes \in Seq(Saving!Mutation) /\ writes # <<>>
    BY <1>2, SavingTyped
  <2>2. /\ Len(Tail(writes)) = n - 1 /\ DOMAIN Tail(writes) = 1..(n - 1)
        /\ \A i \in 1..(n - 1) : Tail(writes)[i] = writes[i + 1] /\ i + 1 \in DOMAIN writes
    BY <2>1, TailAt
  <2>3. QED BY <1>1, <2>2
<1>4. /\ DOMAIN told' = 1..(k - 1) /\ Len(told') = k - 1
      /\ \A i \in DOMAIN told' : told'[i] = told[i + 1] /\ i + 1 \in DOMAIN told
  <2>1. told \in Seq({"ok", "error"}) /\ told # <<>>
    BY <1>1, SavingTyped
  <2>2. /\ Len(Tail(told)) = k - 1 /\ DOMAIN Tail(told) = 1..(k - 1)
        /\ \A i \in 1..(k - 1) : Tail(told)[i] = told[i + 1] /\ i + 1 \in DOMAIN told
    BY <2>1, TailAt
  <2>3. QED BY <1>1, <2>2
<1> HIDE DEF n, k
<1>0. \A i \in DOMAIN writes : i # 1 => i - 1 \in DOMAIN writes' /\ writes'[i - 1] = writes[i]
  <2>1. \A i \in DOMAIN writes : i # 1 => i - 1 \in DOMAIN writes' /\ (i - 1) + 1 = i
    BY <1>2, <1>3
  <2>2. QED BY <1>3, <2>1
<1>5. /\ writes[1] = Saving!Account => doc.exists
      /\ (writes[1].kind # "url" /\ \A j \in 2..n : writes[j].kind = "url")
            => doc.form = Saving!Applied(writes[1], Saving!NewAccount).form
  <2>1. writes[1] = Saving!Account => writes[1].kind # "url"
    BY DEF Saving!Account
  <2>2. told[1] = "ok" => doc.exists
    BY <1>2 DEF SavingInv, AnswerTold
  <2>3. told[1] = "error" => writes[1].kind = "url"
    BY <1>2 DEF SavingInv, AnswerTold
  <2>4. (writes[1].kind # "url" /\ \A j \in (1 + 1)..k : writes[j].kind = "url")
            => doc.form = Saving!Applied(writes[1], Saving!NewAccount).form
    BY <1>2 DEF SavingInv, AnswerTold, k
  <2>5. \A j \in (1 + 1)..k : j \in 2..n
    BY <1>2
  <2>6. QED BY <1>2, <2>1, <2>2, <2>3, <2>4, <2>5
<1>6. Saving!Exists' <=> Saving!Exists
  <2>1. Saving!Exists => Saving!Exists'
    <3>1. ASSUME ~doc.exists, NEW i \in DOMAIN writes, writes[i] = Saving!Account
          PROVE  i - 1 \in DOMAIN writes' /\ writes'[i - 1] = Saving!Account
      BY <1>0, <1>5, <3>1
    <3>2. QED BY <1>1, <3>1 DEF Saving!Exists, Saving!Account
  <2>2. Saving!Exists' => Saving!Exists
    BY <1>1, <1>3 DEF Saving!Exists, Saving!Account
  <2>3. QED BY <2>1, <2>2
<1>7. AccountLeads'
  <2>1. \A i \in DOMAIN writes' : writes'[i] # Saving!Account
    <3>1. ASSUME NEW i \in DOMAIN writes', writes'[i] = Saving!Account
          PROVE  FALSE
      <4>1. i + 1 = 1
        BY <1>3, <3>1 DEF SavingInv, AccountLeads
      <4>2. QED BY <1>2, <1>3, <4>1
    <3>2. QED BY <3>1
  <2>2. doc.exists \/ DOMAIN writes' = {}
    <3>1. ASSUME NEW i \in DOMAIN writes'
          PROVE  doc.exists
      <4>1. doc.exists \/ writes[1] = Saving!Account
        BY <1>3, <2>1, <3>1 DEF SavingInv, AccountLeads
      <4>2. QED BY <1>5, <4>1
    <3>2. QED BY <3>1
  <2>3. QED BY <1>1, <2>1, <2>2
        DEF AccountLeads, Saving!AccountBlanksNothing, Saving!Account, Saving!FormWrite
<1>8. AnswerTold'
  <2>1. ASSUME NEW i \in DOMAIN told'
        PROVE  /\ i + 1 \in DOMAIN told /\ told'[i] = told[i + 1] /\ writes'[i] = writes[i + 1]
               /\ \A j \in (i + 1 + 1)..k : j - 1 \in (i + 1)..Len(told') /\ writes'[j - 1] = writes[j]
    <3>1. i + 1 \in DOMAIN told /\ told'[i] = told[i + 1] /\ i \in DOMAIN writes'
      BY <1>2, <1>3, <1>4
    <3>2. \A j \in (i + 1 + 1)..k : j - 1 \in (i + 1)..Len(told') /\ j \in DOMAIN writes /\ j # 1
      BY <1>2, <1>4
    <3>3. QED BY <1>0, <1>3, <3>1, <3>2
  <2>2. ASSUME NEW i \in DOMAIN told', writes'[i].kind # "url",
               \A j \in (i + 1)..Len(told') : writes'[j].kind = "url"
        PROVE  doc.form = Saving!Applied(writes'[i], Saving!NewAccount).form
    <3>1. \A j \in (i + 1 + 1)..k : writes[j].kind = "url"
      BY <2>1, <2>2
    <3>2. QED BY <2>1, <2>2, <3>1 DEF SavingInv, AnswerTold, k
  <2>3. \A i \in DOMAIN told' : /\ told'[i] = "ok" => doc.exists
                                /\ told'[i] = "error" => writes'[i].kind = "url"
    BY <2>1 DEF SavingInv, AnswerTold
  <2>4. QED BY <1>1, <2>2, <2>3
        DEF AnswerTold, Saving!Applied, Saving!NewAccount, Saving!Account
<1>9. \A f : Saving!Shows(f) => Saving!Shows(f)'
  <2>1. ASSUME NEW f, NEW i \in DOMAIN writes, writes[i].kind # "url",
               f = Saving!Applied(writes[i], Saving!NewAccount).form,
               \A j \in (i + 1)..n : writes[j].kind = "url"
        PROVE  Saving!Shows(f)'
    <3>1. CASE i = 1
      <4>1. f = doc.form
        <5>1. \A j \in 2..n : writes[j].kind = "url"
          BY <2>1, <3>1
        <5>2. QED BY <1>5, <2>1, <3>1, <5>1
      <4>2. ASSUME NEW j \in DOMAIN writes'
            PROVE  writes'[j].kind = "url"
        <5>1. j + 1 \in (i + 1)..n
          BY <1>2, <1>3, <3>1
        <5>2. QED BY <1>3, <2>1, <5>1
      <4>3. QED BY <1>1, <4>1, <4>2 DEF Saving!Shows
    <3>2. CASE i # 1
      <4>1. i - 1 \in DOMAIN writes' /\ writes'[i - 1] = writes[i]
        BY <1>0, <3>2
      <4>2. ASSUME NEW j \in ((i - 1) + 1)..Len(writes')
            PROVE  writes'[j].kind = "url"
        <5>1. j + 1 \in (i + 1)..n /\ j \in DOMAIN writes'
          BY <1>2, <1>3, <4>1
        <5>2. QED BY <1>3, <2>1, <5>1
      <4>3. QED BY <2>1, <4>1, <4>2 DEF Saving!Shows, Saving!Applied, Saving!NewAccount, Saving!Account
    <3>3. QED BY <3>1, <3>2
  <2>2. ASSUME NEW f, f = doc.form, \A i \in DOMAIN writes : writes[i].kind = "url"
        PROVE  Saving!Shows(f)'
    <3>1. \A i \in DOMAIN writes' : writes'[i].kind = "url"
      BY <1>3, <2>2
    <3>2. QED BY <1>1, <2>2, <3>1 DEF Saving!Shows
  <2>3. QED BY <2>1, <2>2 DEF Saving!Shows, n
<1>10. LastSaved'
  BY <1>1, <1>6, <1>9 DEF SavingInv, LastSaved
<1>11. userData'.arrived <=> userData.arrived
  <2>1. userData' = userData \/ userData' = [userData EXCEPT !.url = "storage"]
    BY <1>1 DEF Saving!Completion
  <2>2. QED BY <2>1, SavingTyped
<1>12. AccountStands'
  BY <1>1, <1>6, <1>11 DEF SavingInv, AccountStands
<1>13. FirstSignIn'
  <2>1. SUFFICES ASSUME ~userData.arrived
                 PROVE  FirstSignIn'
    BY <1>11 DEF FirstSignIn
  <2>2. /\ userData.url = "none" /\ ~formSheet.open /\ calls = {}
        /\ signedIn <=> reads # <<>>
        /\ Len(reads) <= 2
        /\ Len(reads) = 1 => reads[1].of = "signIn" /\ Saving!Exists
        /\ Len(reads) = 2 => /\ reads[1].of = "account" /\ reads[2].of = "signIn"
                             /\ reads[1].served => (reads[1].got.exists <=> Saving!Exists)
        /\ \A i \in DOMAIN writes : i > orphans => writes[i] = Saving!Account
    BY <2>1 DEF SavingInv, FirstSignIn
  <2>3. UNCHANGED <<calls, userData>>
    <3>1. CASE orphans > 0
      BY <1>1, <3>1
    <3>2. CASE ~(orphans > 0)
      <4>1. writes[1] = Saving!Account
        BY <1>2, <2>2, <3>2
      <4>2. writes[1] # Saving!URLWrite(GooglePic, 0)
        BY <4>1 DEF Saving!Account, Saving!URLWrite
      <4>3. Saving!Completion(writes[1], Head(told))
        BY <1>1, <1>2, <3>2
      <4>4. QED BY <2>2, <4>2, <4>3 DEF Saving!Completion
    <3>3. QED BY <3>1, <3>2
  <2>4. ASSUME NEW i \in DOMAIN writes', i > orphans'
        PROVE  writes'[i] = Saving!Account
    <3>1. i + 1 > orphans
      BY <1>1, <1>2, <1>3, <2>4 DEF Saving!OrphansLeft
    <3>2. QED BY <1>3, <2>2, <3>1
  <2>5. QED BY <1>1, <1>6, <2>2, <2>3, <2>4 DEF FirstSignIn, Saving!Account
<1>14. QED BY <1>7, <1>8, <1>10, <1>12, <1>13 DEF SavingInv

\* Signing in asks for the account and then for the profile.
LEMMA SavingSignedIn ==
    ASSUME Pictures!TypeOK, SavingInv, Saving!SignIn
    PROVE  SavingInv'
<1> DEFINE new == Saving!FirstReads
<1>1. /\ UNCHANGED <<doc, writes, told, orphans, calls, userData, formSheet, saved>>
      /\ ~signedIn /\ signedIn' /\ reads' = reads \o new
  BY DEF Saving!SignIn, Saving!server, Saving!Ask
<1>2. /\ new \in Seq(Saving!Read) /\ Len(new) = 2
      /\ new[1].of = "account" /\ ~new[1].served
      /\ new[2].of = "signIn" /\ ~new[2].served
  <2> DEFINE one == <<Saving!Asked("account")>>
             two == <<Saving!Asked("signIn")>>
  <2>1. new = one \o two
    BY DEF Saving!FirstReads
  <2>2. /\ Saving!Asked("account") \in Saving!Read /\ Saving!Asked("signIn") \in Saving!Read
    BY DEF Saving!Asked, Saving!Read, Saving!Missing, Saving!Document, Saving!Fields
  <2>3. /\ one \in Seq(Saving!Read) /\ two \in Seq(Saving!Read)
        /\ Len(one) = 1 /\ Len(two) = 1
        /\ one[1] = Saving!Asked("account") /\ two[1] = Saving!Asked("signIn")
    BY <2>2
  <2>4. /\ Saving!Asked("account").of = "account" /\ ~Saving!Asked("account").served
        /\ Saving!Asked("signIn").of = "signIn" /\ ~Saving!Asked("signIn").served
    BY DEF Saving!Asked
  <2> HIDE DEF one, two, new
  <2>5. /\ one \o two \in Seq(Saving!Read)
        /\ Len(one \o two) = Len(one) + Len(two)
        /\ \A i \in 1..Len(one) : (one \o two)[i] = one[i]
        /\ \A i \in 1..Len(two) : (one \o two)[Len(one) + i] = two[i]
    BY <2>3, ConcatAt
  <2>6. new[1] = one[1] /\ new[2] = two[1] /\ Len(new) = 2
    BY <2>1, <2>3, <2>5
  <2>7. QED BY <2>1, <2>3, <2>4, <2>5, <2>6
<1> HIDE DEF new
<1>4. reads \in Seq(Saving!Read)
  BY SavingTyped
<1>5. /\ reads \o new \in Seq(Saving!Read)
      /\ Len(reads \o new) = Len(reads) + Len(new)
      /\ DOMAIN (reads \o new) = 1..(Len(reads) + Len(new))
      /\ \A i \in 1..Len(reads) : (reads \o new)[i] = reads[i]
      /\ \A i \in 1..Len(new) : (reads \o new)[Len(reads) + i] = new[i]
  BY <1>2, <1>4, ConcatAt
<1>6. Len(reads) \in Nat /\ DOMAIN reads = 1..Len(reads) /\ (reads = <<>> <=> Len(reads) = 0)
  BY <1>4, SeqAt
<1>7. /\ Len(reads') = Len(reads) + 2 /\ DOMAIN reads' = 1..(Len(reads) + 2)
      /\ \A i \in DOMAIN reads : reads'[i] = reads[i]
      /\ reads'[Len(reads) + 1] = new[1] /\ reads'[Len(reads) + 2] = new[2]
  BY <1>1, <1>2, <1>5, <1>6
<1>8. AccountLeads' /\ AnswerTold' /\ LastSaved' /\ (Saving!Exists' <=> Saving!Exists)
  BY <1>1, QueueRests DEF SavingInv
<1>9. AccountStands'
  <2>1. ASSUME NEW i \in DOMAIN reads'
        PROVE  i \in DOMAIN reads \/ i = Len(reads) + 1 \/ i = Len(reads) + 2
    BY <1>6, <1>7
  <2>2. \A i \in DOMAIN reads' : reads'[i].served => i \in DOMAIN reads
    BY <1>2, <1>7, <2>1
  <2>3. QED BY <1>1, <1>7, <1>8, <2>2 DEF SavingInv, AccountStands
<1>10. FirstSignIn'
  <2>1. SUFFICES ASSUME ~userData.arrived
                 PROVE  FirstSignIn'
    BY <1>1 DEF FirstSignIn
  <2>2. /\ userData.url = "none" /\ ~formSheet.open /\ calls = {} /\ reads = <<>>
        /\ \A i \in DOMAIN writes : i > orphans => writes[i] = Saving!Account
    BY <1>1, <2>1 DEF SavingInv, FirstSignIn
  <2>3. Len(reads) = 0
    BY <1>6, <2>2
  <2>4. Len(reads') = 2 /\ reads'[1] = new[1] /\ reads'[2] = new[2] /\ reads' # <<>>
    BY <1>7, <2>3
  <2>5. \A i \in DOMAIN writes' : i > orphans' => writes'[i] = Saving!Account
    BY <1>1, <2>2
  <2>6. /\ reads'[1].of = "account" /\ ~reads'[1].served /\ reads'[2].of = "signIn"
    BY <1>2, <2>4
  <2>7. Len(reads') <= 2 /\ Len(reads') # 1
    BY <2>4
  <2>8. signedIn' <=> reads' # <<>>
    BY <1>1, <2>4
  <2>9. QED BY <1>1, <2>2, <2>5, <2>6, <2>7, <2>8 DEF FirstSignIn, Saving!Account
<1>11. QED BY <1>8, <1>9, <1>10 DEF SavingInv

\* What the person does with a profile on the screen.
LEMMA SavingPage ==
    ASSUME Pictures!TypeOK, SavingInv,
           Saving!OpenPage \/ Saving!Logout \/ Saving!OpenForm \/ Saving!CloseForm
    PROVE  SavingInv'
<1>1. UNCHANGED <<doc, writes, told, userData, saved>>
  BY DEF Saving!OpenPage, Saving!Logout, Saving!OpenForm, Saving!CloseForm, Saving!server, Saving!screen
<1>2. AccountLeads' /\ AnswerTold' /\ LastSaved' /\ (Saving!Exists' <=> Saving!Exists)
  BY <1>1, QueueRests DEF SavingInv
<1>3. userData.arrived
  BY DEF SavingInv, FirstSignIn, Saving!OpenPage, Saving!Logout, Saving!OpenForm, Saving!CloseForm
<1>4. FirstSignIn'
  BY <1>1, <1>3 DEF FirstSignIn
<1>5. \A i \in DOMAIN reads' : reads'[i].of = "account" => i \in DOMAIN reads /\ reads'[i] = reads[i]
  <2>1. CASE Saving!OpenPage
    <3> DEFINE new == <<Saving!Asked("page")>>
    <3>1. reads' = reads \o new
      BY <2>1 DEF Saving!OpenPage, Saving!Ask
    <3>2. reads \in Seq(Saving!Read) /\ new \in Seq(Saving!Read) /\ Len(new) = 1 /\ new[1].of = "page"
      BY SavingTyped DEF Saving!Asked, Saving!Read, Saving!Missing, Saving!Document, Saving!Fields
    <3> HIDE DEF new
    <3>3. /\ DOMAIN (reads \o new) = 1..(Len(reads) + Len(new))
          /\ \A i \in 1..Len(reads) : (reads \o new)[i] = reads[i]
          /\ \A i \in 1..Len(new) : (reads \o new)[Len(reads) + i] = new[i]
          /\ Len(reads) \in Nat /\ DOMAIN reads = 1..Len(reads)
      BY <3>2, ConcatAt, SeqAt
    <3>4. (reads \o new)[Len(reads) + 1] = new[1]
      BY <3>2, <3>3
    <3>5. \A i \in DOMAIN (reads \o new) : i \in DOMAIN reads \/ i = Len(reads) + 1
      BY <3>2, <3>3
    <3>6. QED BY <3>1, <3>2, <3>3, <3>4, <3>5
  <2>2. CASE Saving!Logout \/ Saving!OpenForm \/ Saving!CloseForm
    BY <2>2 DEF Saving!Logout, Saving!OpenForm, Saving!CloseForm
  <2>3. QED BY <2>1, <2>2
<1>6. AccountStands'
  BY <1>1, <1>2, <1>3, <1>5 DEF SavingInv, AccountStands
<1>7. QED BY <1>2, <1>4, <1>6 DEF SavingInv

\* The form's write joins behind the account, and is what the device sees.
LEMMA SavingSaved ==
    ASSUME Pictures!TypeOK, SavingInv, Saving!Save
    PROVE  SavingInv'
<1>1. PICK f \in Forms \cup {formSheet.form} :
          /\ userData' = [userData EXCEPT !.form = f]
          /\ Saving!Enqueue(Saving!FormWrite(f))
          /\ saved' = [yes |-> TRUE, form |-> f]
  BY DEF Saving!Save
<1>2. UNCHANGED <<doc, told, reads>> /\ formSheet.open
  BY DEF Saving!Save, Saving!server
<1>3. userData.arrived /\ userData'.arrived
  <2>1. userData.arrived
    BY <1>2 DEF SavingInv, FirstSignIn
  <2>2. QED BY <1>1, <2>1, SavingTyped
<1>4. Saving!Exists
  BY <1>3 DEF SavingInv, AccountStands
<1>5. /\ Saving!FormWrite(f) \in Saving!Mutation /\ Saving!FormWrite(f) # Saving!Account
      /\ Saving!FormWrite(f).kind # "url"
      /\ Saving!Applied(Saving!FormWrite(f), Saving!NewAccount).form = f
  <2>1. f \in Saving!Fields
    BY SavingTyped DEF Saving!Fields
  <2>2. QED BY <2>1 DEF Saving!Mutation, Saving!FormWrite, Saving!Account, Saving!Applied, Saving!NewAccount
<1>6. Saving!Exists' /\ Saving!Shows(f)'
  BY <1>1, <1>2, <1>4, <1>5, WriteJoins
<1>7. AccountLeads' /\ AnswerTold'
  BY <1>1, <1>2, <1>4, <1>5, JoinsInOrder DEF SavingInv
<1>8. LastSaved'
  BY <1>1, <1>6 DEF LastSaved
<1>9. FirstSignIn'
  BY <1>3 DEF FirstSignIn
<1>10. AccountStands'
  BY <1>2, <1>3, <1>6 DEF SavingInv, AccountStands
<1>11. QED BY <1>7, <1>8, <1>9, <1>10 DEF SavingInv

\* Only a picture's URL is written, and only once there is a profile.
LEMMA SavingPicture ==
    ASSUME Pictures!TypeOK, SavingInv, Saving!Storage
    PROVE  SavingInv'
<1>1. UNCHANGED <<doc, told, orphans, reads, signedIn, userData, formSheet, saved>>
  BY DEF Saving!Storage, Saving!FetchEnds, Saving!PutEnds, Saving!URLAnswered,
     Saving!DownloadEnds, Saving!ImageArrives, Saving!server, Saving!screen
<1>2. calls # {}
  BY DEF Saving!Storage, Saving!FetchEnds, Saving!PutEnds, Saving!URLAnswered,
     Saving!DownloadEnds, Saving!ImageArrives
<1>3. userData.arrived
  BY <1>2 DEF SavingInv, FirstSignIn
<1>4. Saving!Exists
  BY <1>3 DEF SavingInv, AccountStands
<1>5. FirstSignIn'
  BY <1>1, <1>3 DEF FirstSignIn
<1>6. UNCHANGED writes \/ \E p \in Pics \cup {GooglePic}, k \in 0..pages : Saving!Enqueue(Saving!URLWrite(p, k))
  BY DEF Saving!Storage, Saving!FetchEnds, Saving!PutEnds, Saving!URLAnswered,
     Saving!DownloadEnds, Saving!ImageArrives
<1>7. AccountLeads' /\ AnswerTold' /\ LastSaved' /\ Saving!Exists'
  <2>1. CASE UNCHANGED writes
    BY <1>1, <1>4, <2>1, QueueRests DEF SavingInv
  <2>2. CASE \E p \in Pics \cup {GooglePic}, k \in 0..pages : Saving!Enqueue(Saving!URLWrite(p, k))
    <3>1. PICK p \in Pics \cup {GooglePic}, k \in 0..pages : Saving!Enqueue(Saving!URLWrite(p, k))
      BY <2>2
    <3>2. /\ Saving!URLWrite(p, k) \in Saving!Mutation /\ Saving!URLWrite(p, k) # Saving!Account
          /\ Saving!URLWrite(p, k).kind = "url"
      BY PagesCounted DEF Saving!Mutation, Saving!URLWrite, Saving!Account
    <3>3. Saving!Exists' /\ \A f : Saving!Shows(f) => Saving!Shows(f)'
      BY <1>1, <1>4, <3>1, <3>2, WriteJoins
    <3>4. AccountLeads' /\ AnswerTold'
      BY <1>1, <1>4, <3>1, <3>2, JoinsInOrder DEF SavingInv
    <3>5. QED BY <1>1, <3>3, <3>4 DEF SavingInv, LastSaved
  <2>3. QED BY <1>6, <2>1, <2>2
<1>8. AccountStands'
  BY <1>1, <1>3, <1>7 DEF SavingInv, AccountStands
<1>9. QED BY <1>5, <1>7, <1>8 DEF SavingInv

\* Without its answers the queue is as good: nothing in it is said to be taken.
LEMMA AnswersLost ==
    ASSUME AccountLeads, UNCHANGED <<doc, writes, saved>>, told' = <<>>
    PROVE  /\ AccountLeads' /\ AnswerTold'
           /\ Saving!Exists' <=> Saving!Exists
           /\ LastSaved => LastSaved'
<1>1. DOMAIN told' = {}
  OBVIOUS
<1>2. AccountLeads' /\ AnswerTold'
  BY <1>1 DEF AccountLeads, AnswerTold, Saving!AccountBlanksNothing, Saving!Account, Saving!FormWrite
<1>3. Saving!Exists' <=> Saving!Exists
  BY DEF Saving!Exists, Saving!Account
<1>4. \A f : Saving!Shows(f)' <=> Saving!Shows(f)
  BY DEF Saving!Shows, Saving!Applied, Saving!NewAccount, Saving!Account
<1>5. QED BY <1>2, <1>3, <1>4 DEF LastSaved

\* A stream that breaks takes the answers under way with it.
LEMMA SavingResent ==
    ASSUME Pictures!TypeOK, SavingInv, Saving!Resend
    PROVE  SavingInv'
<1>1. UNCHANGED <<doc, writes, orphans, reads, calls, signedIn, userData, formSheet, saved>> /\ told' = <<>>
  BY DEF Saving!Resend, Saving!server, Saving!screen
<1>2. AccountLeads' /\ AnswerTold' /\ LastSaved' /\ (Saving!Exists' <=> Saving!Exists)
  BY <1>1, AnswersLost DEF SavingInv
<1>3. FirstSignIn' /\ AccountStands'
  BY <1>1, <1>2 DEF SavingInv, FirstSignIn, AccountStands, Saving!Account
<1>4. QED BY <1>2, <1>3 DEF SavingInv

\* A kill does, too; it leaves the queue without completions, and nothing else
\* in flight.
LEMMA SavingCrashed ==
    ASSUME Pictures!TypeOK, SavingInv, Saving!Crash
    PROVE  SavingInv'
<1>1. /\ UNCHANGED <<doc, writes, saved>> /\ told' = <<>>
      /\ orphans' = Len(writes) /\ reads' = <<>> /\ calls' = {} /\ ~signedIn'
      /\ userData' = [form |-> Blank, url |-> "none", arrived |-> FALSE]
      /\ formSheet' = [open |-> FALSE, form |-> Blank]
  BY DEF Saving!Crash, Saving!server
<1>2. AccountLeads' /\ AnswerTold' /\ LastSaved'
  BY <1>1, AnswersLost DEF SavingInv
<1>3. AccountStands'
  BY <1>1 DEF AccountStands
<1>4. ~(\E i \in DOMAIN writes : i > Len(writes))
  BY WritesAt
<1>5. FirstSignIn'
  <2>1. Len(reads') = 0 /\ reads' = <<>>
    BY <1>1
  <2>2. Len(reads') <= 2 /\ Len(reads') # 1 /\ Len(reads') # 2
    BY <2>1
  <2>3. QED BY <1>1, <1>4, <2>2 DEF FirstSignIn
<1>6. QED BY <1>2, <1>3, <1>5 DEF SavingInv

LEMMA SavingStep ==
    ASSUME Pictures!TypeOK, SavingInv, Saving!Next
    PROVE  SavingInv'
BY SavingServed, SavingAccountRead, SavingProfileRead, SavingCommitted, SavingAcknowledged,
   SavingSignedIn, SavingPage, SavingSaved, SavingPicture, SavingResent,
   SavingCrashed
   DEF Saving!Next, Saving!Firestore, Saving!Person

\* On a visit to the form the saved profile and the account are as SavingInv says.
LEMMA SavingKept == PagesSpec => [](visit = "saving" => SavingInv)
<1> DEFINE I == Pictures!TypeOK /\ (visit = "saving" => SavingInv)
<1>1. PagesInit => SavingInv
  <2>1. SUFFICES ASSUME Saving!Init
                 PROVE  SavingInv
    BY DEF PagesInit
  <2>2. /\ writes = <<>> /\ told = <<>> /\ reads = <<>> /\ calls = {} /\ ~signedIn
        /\ userData = [form |-> Blank, url |-> "none", arrived |-> FALSE]
        /\ formSheet = [open |-> FALSE, form |-> Blank]
        /\ saved = [yes |-> FALSE, form |-> Blank]
    BY <2>1 DEF Saving!Init
  <2>3. DOMAIN writes = {} /\ DOMAIN told = {} /\ Len(reads) = 0
    BY <2>2
  <2>4. Len(reads) <= 2 /\ Len(reads) # 1 /\ Len(reads) # 2
    BY <2>3
  <2>5. AccountLeads /\ AnswerTold /\ LastSaved /\ AccountStands
    BY <2>2, <2>3 DEF AccountLeads, AnswerTold, LastSaved, AccountStands, Saving!AccountBlanksNothing
  <2>6. FirstSignIn
    BY <2>2, <2>3, <2>4 DEF FirstSignIn
  <2>7. QED BY <2>5, <2>6 DEF SavingInv
<1>2. Pictures!TypeOK /\ (visit = "saving" => SavingInv) /\ [PagesNext]_pageVars
      => (visit = "saving" => SavingInv)'
  <2>1. SUFFICES ASSUME Pictures!TypeOK, SavingInv, [PagesNext]_pageVars, visit = "saving"
                 PROVE  SavingInv'
    BY ProfileVisited
  <2>2. CASE Saving!Next
    BY <2>1, <2>2, SavingStep
  <2>3. CASE UNCHANGED profileVars
    <3>1. /\ UNCHANGED <<doc, writes, told, orphans, reads, calls, signedIn, userData, formSheet, saved>>
      BY <2>3 DEF profileVars
    <3>2. AccountLeads' /\ AnswerTold' /\ LastSaved' /\ (Saving!Exists' <=> Saving!Exists)
      BY <2>1, <3>1, QueueRests DEF SavingInv
    <3>3. FirstSignIn' /\ AccountStands'
      BY <2>1, <3>1, <3>2 DEF SavingInv, FirstSignIn, AccountStands, Saving!Account
    <3>4. QED BY <3>2, <3>3 DEF SavingInv
  <2>4. QED BY <2>1, <2>2, <2>3, ProfileVisited
<1>3. QED BY <1>1, <1>2, ProfileKept, PTL DEF PagesSpec

\* Whoever signs in, out and in again, is killed, loses the stream or saves a
\* profile meanwhile: a set of the account by addUsertoFirestore finds a document
\* only when it is sent again, and what it blanks is written once more behind it.
THEOREM AccountsBlankNothing == PagesSpec => []AccountBlanksNothing
<1>1. (visit = "saving" => SavingInv) => AccountBlanksNothing
  BY DEF AccountBlanksNothing, SavingInv, AccountLeads
<1>2. QED BY <1>1, SavingKept, PTL

\* However many forms are saved, and whatever comes in between, the device
\* sees the one saved last.
THEOREM TheLastFormIsSeen == PagesSpec => []SavedIsKept
<1>1. Pictures!TypeOK /\ (visit = "saving" => SavingInv) => SavedIsKept
  <2>1. SUFFICES ASSUME Pictures!TypeOK, SavingInv, saved.yes
                 PROVE  Saving!View.exists /\ Saving!View.form = saved.form
    BY DEF SavedIsKept, Saving!SavedIsKept
  <2>2. Saving!Exists /\ Saving!Shows(saved.form) /\ saved.form \in Saving!Fields
    BY <2>1, SavingTyped DEF SavingInv, LastSaved
  <2>3. ASSUME NEW f, NEW g, Saving!Shows(f), Saving!Shows(g)
        PROVE  f = g
    <3>1. DOMAIN writes = 1..Len(writes) /\ Len(writes) \in Nat
      BY <2>1, WritesAt
    <3>2. ASSUME NEW i \in DOMAIN writes, NEW j \in DOMAIN writes,
                 writes[i].kind # "url", writes[j].kind # "url",
                 \A k \in (i + 1)..Len(writes) : writes[k].kind = "url",
                 \A k \in (j + 1)..Len(writes) : writes[k].kind = "url"
          PROVE  i = j
      <4>1. ~(j \in (i + 1)..Len(writes)) /\ ~(i \in (j + 1)..Len(writes))
        BY <3>2
      <4>2. QED BY <3>1, <4>1
    <3>3. QED BY <2>3, <3>2 DEF Saving!Shows
  <2>4. (CHOOSE f \in Saving!Fields : Saving!Shows(f)) = saved.form
    BY <2>2, <2>3
  <2>5. QED BY <2>2, <2>4 DEF Saving!View
<1>2. QED BY <1>1, SavingKept, ProfileKept, PTL

(***************************************************************************)
(* The types of all pages                                                  *)
(***************************************************************************)

\* A sequence is a function on its places.
LEMMA SeqOver ==
    ASSUME NEW S, NEW s \in Seq(S), NEW D, DOMAIN s = D
    PROVE  s \in [D -> S]
<1>1. s \in [DOMAIN s -> S]
  BY SeqAt
<1>2. QED BY <1>1

\* In every visit, for any number of people, photos, events, loads, taps and
\* crashes: the lists, queues and callbacks of the page have their types.
THEOREM PagesAreTyped == PagesSpec => []PagesTyped
<1>1. AttendeesInv => Attendees!TypeOK /\ AttendeesFailing!TypeOK
  <2>1. SUFFICES ASSUME AttendeesInv
                 PROVE  Attendees!TypeOK /\ AttendeesFailing!TypeOK
    OBVIOUS
  <2>2. AttendeesTyped
    BY <2>1 DEF AttendeesInv
  <2>3. DOMAIN ids = DOMAIN stage /\ DOMAIN pending = DOMAIN stage /\ Len(stage) \in Nat
    BY <2>2, LoadsAt
  <2>4. ids \in Seq(SUBSET People) /\ pending \in Seq(SUBSET People)
    BY <2>2 DEF AttendeesTyped
  <2>5. ids \in [DOMAIN stage -> SUBSET People] /\ pending \in [DOMAIN stage -> SUBSET People]
    BY <2>3, <2>4, SeqOver
  <2>6. overlaps \in 0..MaxAppearances
    BY <2>2, <2>3, AttendeesAssumed DEF AttendeesTyped
  <2>7. QED
    BY <2>2, <2>5, <2>6 DEF AttendeesTyped, Stages, Attendees!TypeOK, AttendeesFailing!TypeOK,
       Attendees!Loads, AttendeesFailing!Loads
<1>2. PhotosInv => Photos!TypeOK /\ PhotosFailing!TypeOK
  <2>1. SUFFICES ASSUME PhotosInv
                 PROVE  Photos!TypeOK /\ PhotosFailing!TypeOK
    OBVIOUS
  <2>2. PhotosTyped /\ GalleryLoads
    BY <2>1 DEF PhotosInv
  <2>3. /\ items \in Seq(SUBSET Shots) /\ downloads \in Seq(SUBSET Shots)
        /\ images \in Seq(SUBSET Shots) /\ before \in Seq(SUBSET Shots) /\ since \in Seq(Nat)
        /\ shown \in Seq(DOMAIN photoStage)
    BY <2>2 DEF PhotosTyped
  <2>4. /\ DOMAIN items = DOMAIN photoStage /\ DOMAIN downloads = DOMAIN photoStage
        /\ DOMAIN images = DOMAIN photoStage /\ DOMAIN before = DOMAIN photoStage
        /\ DOMAIN since = DOMAIN photoStage
    BY <2>2, PhotosAt
  <2>5. /\ items \in [DOMAIN photoStage -> SUBSET Shots] /\ downloads \in [DOMAIN photoStage -> SUBSET Shots]
        /\ images \in [DOMAIN photoStage -> SUBSET Shots] /\ before \in [DOMAIN photoStage -> SUBSET Shots]
        /\ since \in [DOMAIN photoStage -> Nat]
    BY <2>3, <2>4, SeqOver
  <2>6. since \in [DOMAIN photoStage -> 0..Len(shown)]
    <3>1. Len(shown) \in Nat
      BY <2>3, SeqAt
    <3>2. \A l \in DOMAIN photoStage : since[l] \in Nat /\ since[l] <= Len(shown)
      BY <2>2, <2>5 DEF GalleryLoads
    <3>3. \A l \in DOMAIN photoStage : since[l] \in 0..Len(shown)
      BY <3>1, <3>2
    <3>4. QED BY <2>5, <3>3
  <2>7. \A l \in DOMAIN photoStage : photoStage[l] = "download" <=> downloads[l] # {}
    BY <2>2 DEF GalleryLoads
  <2>8. QED
    BY <2>2, <2>5, <2>6, <2>7 DEF PhotosTyped, PhotoStages, Photos!TypeOK, PhotosFailing!TypeOK,
       Photos!Loads, PhotosFailing!Loads
<1>3. PlansInv => Plans!TypeOK
  BY DEF PlansInv
<1>4. Pictures!TypeOK => Saving!TypeOK
  BY SameTypes
<1>5. AttendeesInv /\ PhotosInv /\ PlansInv /\ Pictures!TypeOK => PagesTyped
  BY <1>1, <1>2, <1>3, <1>4, Zenon DEF PagesTyped
<1>6. QED BY <1>5, AttendeesKept, PhotosKept, PlansKept, ProfileKept, PTL

=============================================================================
