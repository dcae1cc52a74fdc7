--------------------------- MODULE EventFormProofs ---------------------------
(***************************************************************************)
(* An event carries the picks of its own form: proved for any places,      *)
(* texts and images and any number of searches and events.                 *)
(***************************************************************************)
EXTENDS EventForm, SequenceFacts

\* While the sheet is open its fields are what was picked in it; Done leaves
\* some of them, but to a sheet that is thrown away.
PicksInv ==
    /\ screen # "tab" => form = picked
    /\ EventHasItsOwnPicks

\* An open form has room for its event.
FormTyped == FormTypeOK /\ (screen # "tab" => Len(events) < MaxEvents)

LEMMA Nothing ==
    /\ <<>> \in Seq(Text) /\ <<>> \in Seq(SUBSET Place) /\ Len(<<>>) = 0
    /\ 0 \in 0..MaxSearches /\ 0 <= MaxEvents
BY FormAssumption DEF FormAssumption

LEMMA NewSheetType ==
    ASSUME NewSheet
    PROVE  /\ asked' \in Seq(Text) /\ searches' \in 0..MaxSearches /\ found' \in Seq(SUBSET Place)
           /\ Len(asked') + Len(found') <= searches'
           /\ locations' \in SUBSET Place /\ alert' \in BOOLEAN
<1>1. /\ asked' = <<>> /\ searches' = 0 /\ found' = <<>> /\ locations' = {}
      /\ alert' \in BOOLEAN
  BY Zenon DEF NewSheet
<1>2. QED BY <1>1, Nothing

LEMMA TypeInit == FormInit => FormTyped
<1> SUFFICES ASSUME FormInit PROVE FormTyped
  OBVIOUS
<1>1. Empty \in Fields
  BY DEF Empty, Fields
<1>2. asked \in Seq(Text) /\ found \in Seq(SUBSET Place) /\ Len(asked) + Len(found) <= searches
  BY Nothing DEF FormInit
<1>3. events \in Seq([doc : Fields, picks : Fields]) /\ Len(events) <= MaxEvents
  BY Nothing DEF FormInit
<1>4. searches \in 0..MaxSearches
  BY Nothing DEF FormInit
<1>5. QED BY <1>1, <1>2, <1>3, <1>4 DEF FormInit, FormTyped, FormTypeOK

\* The fields of the form.
LEMMA TypeForm ==
    ASSUME FormTyped, Open \/ Dismiss \/ Done \/ OpenPicker \/ ClosePicker
    PROVE  FormTyped'
<1> USE DEF FormTyped
<1>1. CASE Open
  <2>1. Empty \in Fields
    BY DEF Empty, Fields
  <2>2. QED BY <1>1, <2>1 DEF Open, Fresh, sheet, FormTypeOK
<1>2. CASE Dismiss \/ OpenPicker
  BY <1>2 DEF Dismiss, OpenPicker, sheet, FormTypeOK
<1>3. CASE Done
  <2>1. Cleared \in Fields
    BY DEF Cleared, Fields, FormTypeOK
  <2>2. [doc |-> form, picks |-> picked] \in [doc : Fields, picks : Fields]
    BY DEF FormTypeOK
  <2>3. events' \in Seq([doc : Fields, picks : Fields]) /\ Len(events') = Len(events) + 1
    BY <1>3, <2>2 DEF Done, FormTypeOK
  <2>4. Len(events') <= MaxEvents
    BY <1>3, <2>3, FormAssumption DEF Done, FormTypeOK, FormAssumption
  <2>5. QED BY <1>3, <2>1, <2>3, <2>4 DEF Done, sheet, FormTypeOK
<1>4. CASE ClosePicker
  <2>1. PICK i \in Image \cup {form.image} :
           form' = [form EXCEPT !.image = i] /\ picked' = [picked EXCEPT !.image = i]
    BY <1>4 DEF ClosePicker
  <2>2. form' \in Fields /\ picked' \in Fields
    BY <2>1 DEF Fields, FormTypeOK
  <2>3. QED BY <1>4, <2>2 DEF ClosePicker, sheet, FormTypeOK
<1>5. QED BY <1>1, <1>2, <1>3, <1>4

\* The search.
LEMMA TypeSearch ==
    ASSUME FormTyped,
           \/ OpenSearch \/ ShowLocations \/ DismissAlert \/ CloseSearch
           \/ \E t \in Text : Search(t)
           \/ \E i \in DOMAIN asked : Answer(i)
           \/ \E p \in Place : Pick(p)
    PROVE  FormTyped'
<1> USE DEF FormTyped
<1>1. CASE OpenSearch \/ CloseSearch
  BY <1>1, NewSheetType DEF OpenSearch, CloseSearch, FormTypeOK
<1>2. CASE ShowLocations
  BY <1>2 DEF ShowLocations, NothingFound, FormTypeOK
<1>3. CASE DismissAlert
  BY <1>3 DEF DismissAlert, FormTypeOK
<1>4. ASSUME NEW t \in Text, Search(t) PROVE FormTyped'
  BY <1>4, FormAssumption DEF Search, FormTypeOK, FormAssumption
<1>5. ASSUME NEW i \in DOMAIN asked, Answer(i) PROVE FormTyped'
  <2>1. asked' \in Seq(Text) /\ Len(asked') = Len(asked) - 1
    <3>1. asked \in Seq(Text) /\ asked' = RemoveAt(asked, i)
      BY <1>5 DEF Answer, FormTypeOK
    <3>2. QED BY <3>1, RemovedAt
  <2>2. Results[asked[i]] \in SUBSET Place
    BY FormAssumption DEF FormTypeOK, FormAssumption
  <2>3. alert' \in BOOLEAN
    BY <1>5, Zenon DEF Answer, FormTypeOK
  <2>4. found' \in Seq(SUBSET Place) /\ Len(asked') + Len(found') <= searches
    <3>1. found' = Append(found, Results[asked[i]]) \/ found' = found
      BY <1>5, Zenon DEF Answer
    <3>2. found \in Seq(SUBSET Place) /\ Len(asked) + Len(found) <= searches /\ searches \in Nat
          /\ Len(asked) \in Nat
      BY FormAssumption DEF FormTypeOK, FormAssumption
    <3>3. ASSUME found' = Append(found, Results[asked[i]])
          PROVE  found' \in Seq(SUBSET Place) /\ Len(found') = Len(found) + 1
      BY <2>2, <3>2, <3>3, AppendProperties
    <3>4. Len(found) \in Nat
      BY <3>2
    <3>5. QED BY <2>1, <3>1, <3>2, <3>3, <3>4
  <2>5. QED BY <1>5, <2>1, <2>3, <2>4 DEF Answer, FormTypeOK
<1>6. ASSUME NEW p \in Place, Pick(p) PROVE FormTyped'
  <2>1. form' \in Fields /\ picked' \in Fields
    BY <1>6, FormAssumption DEF Pick, Fields, FormTypeOK, FormAssumption
  <2>2. QED BY <1>6, <2>1, NewSheetType DEF Pick, FormTypeOK
<1>7. QED BY <1>1, <1>2, <1>3, <1>4, <1>5, <1>6

LEMMA TypeStep == FormTyped /\ [FormNext]_formVars => FormTyped'
<1> SUFFICES ASSUME FormTyped, [FormNext]_formVars PROVE FormTyped'
  OBVIOUS
<1>1. CASE UNCHANGED formVars
  BY <1>1 DEF formVars, sheet, FormTyped, FormTypeOK
<1>2. QED BY <1>1, TypeForm, TypeSearch DEF FormNext

\* Whatever is searched, answered late, picked or cancelled, fields and lists
\* have their types, and answers are never more than searches.
THEOREM FormTypeCorrect == FormSpec => []FormTypeOK
<1>1. FormTyped => FormTypeOK
  BY DEF FormTyped
<1>2. QED BY <1>1, TypeInit, TypeStep, PTL DEF FormSpec

-----------------------------------------------------------------------------

LEMMA PicksStep == FormTyped /\ PicksInv /\ [FormNext]_formVars => PicksInv'
<1> SUFFICES ASSUME FormTyped, PicksInv, [FormNext]_formVars PROVE PicksInv'
  OBVIOUS
<1> USE DEF PicksInv, EventHasItsOwnPicks
<1>1. CASE UNCHANGED formVars
  BY <1>1 DEF formVars
<1>2. CASE Open
  BY <1>2 DEF Open, Fresh
<1>3. CASE Dismiss \/ OpenPicker \/ OpenSearch \/ ShowLocations \/ DismissAlert \/ CloseSearch
  BY <1>3 DEF Dismiss, OpenPicker, OpenSearch, ShowLocations, DismissAlert, CloseSearch
<1>4. CASE Done
  <2>1. form = picked
    BY <1>4 DEF Done
  <2>2. events' = Append(events, [doc |-> form, picks |-> form]) /\ screen' = "tab"
    BY <1>4, <2>1 DEF Done
  <2>3. QED BY <2>2 DEF FormTyped, FormTypeOK
<1>5. CASE ClosePicker
  BY <1>5 DEF ClosePicker
<1>6. CASE (\E t \in Text : Search(t)) \/ (\E i \in DOMAIN asked : Answer(i))
  BY <1>6 DEF Search, Answer
<1>7. ASSUME NEW p \in Place, Pick(p) PROVE PicksInv'
  BY <1>7 DEF Pick
<1>8. QED BY <1>1, <1>2, <1>3, <1>4, <1>5, <1>6, <1>7 DEF FormNext

\* An event's document holds the address, the coordinates and the image picked
\* in its own form, however many forms, searches and events came before it.
THEOREM EventsHaveTheirPicks == FormSpec => []EventHasItsOwnPicks
<1>1. FormInit => PicksInv
  BY DEF FormInit, PicksInv, EventHasItsOwnPicks
<1>2. PicksInv => EventHasItsOwnPicks
  BY DEF PicksInv
<1>3. QED BY <1>1, <1>2, PicksStep, TypeInit, TypeStep, PTL DEF FormSpec
=============================================================================
