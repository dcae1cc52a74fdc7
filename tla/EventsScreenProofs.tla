-------------------------- MODULE EventsScreenProofs --------------------------
(***************************************************************************)
(* The Events tab never deletes somebody else's event: proved for any      *)
(* finite number of events and any number of overlapping fetches and       *)
(* deletions.                                                              *)
(***************************************************************************)
EXTENDS EventsScreen, SequenceFacts

\* What is stored of a swipe or a fetch, and what moving it on makes of it.
LEMMA SwipeShape ==
    ASSUME TypeOK, NEW s \in Swipe, swipes[s].at # "none"
    PROVE  /\ swipes[s] \in SwipeCall
           /\ swipes[s].event \in Event /\ swipes[s].index \in Nat \ {0}
BY DEF TypeOK, SwipeCall, None

LEMMA SetSwipeType ==
    ASSUME TypeOK, NEW s \in Swipe, NEW call \in SwipeCall \cup {None}, SetSwipe(s, call)
    PROVE  swipes' \in [Swipe -> SwipeCall \cup {None}]
BY DEF TypeOK, SetSwipe

LEMMA SwipeOnType ==
    ASSUME TypeOK, NEW s \in Swipe, swipes[s].at # "none",
           NEW at \in {"begin", "read", "write", "deleting", "true", "false"},
           SwipeOn(s, at)
    PROVE  swipes' \in [Swipe -> SwipeCall \cup {None}]
<1>1. [swipes[s] EXCEPT !.at = at] \in SwipeCall
  BY SwipeShape DEF SwipeCall
<1>2. QED BY <1>1, SetSwipeType DEF SwipeOn

LEMMA SetDocType ==
    ASSUME TypeOK, NEW e \in Event, NEW d \in {"unborn", "live", "deleted"}, SetDoc(e, d)
    PROVE  docs' \in [Event -> {"unborn", "live", "deleted"}]
BY DEF TypeOK, SetDoc

\* A listing is a sequence of rows.
LEMMA ListingType ==
    ASSUME NEW s \in Listings
    PROVE  s \in Seq(Row)
<1> DEFINE R == {RowOf(e) : e \in Live}
           N == Cardinality(R)
<1>1. R \subseteq Row
  BY DEF RowOf, Decoded, Row, Live
<1>2. IsFiniteSet(R)
  <2> DEFINE f == [e \in Live |-> RowOf(e)]
  <2>1. IsFiniteSet(Live)
    BY FS_Subset, ScreenAssumption DEF ScreenAssumption, Live
  <2>2. f \in Surjection(Live, R)
    BY Zenon DEF Surjection
  <2>3. QED BY <2>1, <2>2, FS_Surjection
<1>3. N \in Nat
  BY <1>2, FS_CardinalityType
<1>4. s \in [1..N -> R]
  BY DEF Listings, SetToSeqs
<1> HIDE DEF R, N
<1>5. s \in [1..N -> Row]
  BY <1>1, <1>4
<1>6. QED BY <1>3, <1>5

LEMMA RowType ==
    ASSUME TypeOK, NEW i \in DOMAIN rows
    PROVE  rows[i] \in Row /\ i \in Nat \ {0}
<1>1. DOMAIN rows = 1..Len(rows) /\ Len(rows) \in Nat
  BY LenProperties DEF TypeOK
<1>2. QED BY <1>1, ElementOfSeq DEF TypeOK

-----------------------------------------------------------------------------

LEMMA TypeInit == Init => TypeOK
<1> SUFFICES ASSUME Init PROVE TypeOK
  OBVIOUS
<1>1. docs \in [Event -> {"unborn", "live", "deleted"}] /\ going \in SUBSET Event
  BY DEF Init
<1>2. rows \in Seq(Row)
  BY EmptySeq DEF Init
<1>3. /\ fetches \in [Fetch -> FetchCall \cup {None}]
      /\ swipes \in [Swipe -> SwipeCall \cup {None}]
      /\ page \in Page \cup {None}
  BY DEF Init
<1>4. changes \in 0..MaxChanges
  BY ScreenAssumption DEF Init, ScreenAssumption
<1>5. QED BY <1>1, <1>2, <1>3, <1>4 DEF Init, TypeOK

LEMMA TypeDocs ==
    ASSUME TypeOK, NEW e \in Event, RemoteChange(e) \/ StopGoing(e)
    PROVE  TypeOK'
<1>1. changes' \in 0..MaxChanges
  BY ScreenAssumption DEF RemoteChange, StopGoing, Change, TypeOK, ScreenAssumption
<1>2. docs' \in [Event -> {"unborn", "live", "deleted"}]
  BY SetDocType DEF RemoteChange, StopGoing, TypeOK
<1>3. going' \in SUBSET Event
  BY DEF RemoteChange, StopGoing, TypeOK
<1>4. QED BY <1>1, <1>2, <1>3 DEF RemoteChange, StopGoing, TypeOK

LEMMA TypeFetch ==
    ASSUME TypeOK, NEW f \in Fetch,
           FetchEvents(f) \/ FetchServed(f) \/ FetchDelivered(f) \/ FetchFailed(f)
    PROVE  TypeOK'
<1>1. \A call \in FetchCall \cup {None} :
         [fetches EXCEPT ![f] = call] \in [Fetch -> FetchCall \cup {None}]
  BY DEF TypeOK
<1>2. CASE FetchEvents(f)
  <2>1. [at |-> "asked"] \in FetchCall
    BY DEF FetchCall
  <2>2. QED BY <1>1, <1>2, <2>1 DEF FetchEvents, TypeOK
<1>3. CASE FetchServed(f)
  <2>1. PICK s \in Listings : fetches' = [fetches EXCEPT ![f] = [at |-> "served", rows |-> s]]
    BY <1>3 DEF FetchServed
  <2>2. [at |-> "served", rows |-> s] \in FetchCall
    BY ListingType DEF FetchCall
  <2>3. QED BY <1>1, <1>3, <2>1, <2>2 DEF FetchServed, TypeOK
<1>4. CASE FetchDelivered(f)
  <2>1. fetches[f].rows \in Seq(Row)
    BY <1>4 DEF FetchDelivered, FetchCall, None, TypeOK
  <2>2. QED BY <1>1, <1>4, <2>1 DEF FetchDelivered, Shown, TypeOK
<1>5. CASE FetchFailed(f)
  BY <1>1, <1>5 DEF FetchFailed, TypeOK
<1>6. QED BY <1>2, <1>3, <1>4, <1>5

LEMMA TypeSwipe ==
    ASSUME TypeOK, NEW s \in Swipe,
           \/ \E i \in DOMAIN rows : SwipeAway(s, i)
           \/ DeleteBegin(s) \/ DeleteRead(s) \/ DeleteWrite(s)
           \/ DeleteAnswered(s) \/ Completion(s) \/ CompletionTraps(s)
    PROVE  TypeOK'
<1>1. ASSUME NEW i \in DOMAIN rows, SwipeAway(s, i) PROVE TypeOK'
  <2>1. [at |-> "begin", event |-> rows[i].id, index |-> i] \in SwipeCall
    BY RowType DEF SwipeCall, Row
  <2>2. swipes' \in [Swipe -> SwipeCall \cup {None}]
    BY <1>1, <2>1, SetSwipeType DEF SwipeAway
  <2>3. QED BY <1>1, <2>2 DEF SwipeAway, TypeOK
<1>2. CASE DeleteBegin(s) \/ DeleteRead(s) \/ DeleteWrite(s)
  <2>1. swipes' \in [Swipe -> SwipeCall \cup {None}]
    BY <1>2, SwipeOnType, SetSwipeType DEF DeleteBegin, DeleteRead, DeleteWrite
  <2>2. QED BY <1>2, <2>1 DEF DeleteBegin, DeleteRead, DeleteWrite, TypeOK
<1>3. CASE DeleteAnswered(s)
  <2>1. swipes' \in [Swipe -> SwipeCall \cup {None}]
    BY <1>3, SwipeOnType DEF DeleteAnswered
  <2>2. docs' \in [Event -> {"unborn", "live", "deleted"}]
    BY <1>3, SwipeShape, SetDocType DEF DeleteAnswered, TypeOK
  <2>3. going' \in SUBSET Event
    BY <1>3 DEF DeleteAnswered, TypeOK
  <2>4. QED BY <1>3, <2>1, <2>2, <2>3 DEF DeleteAnswered, TypeOK
<1>4. CASE Completion(s)
  <2>1. swipes' \in [Swipe -> SwipeCall \cup {None}]
    BY <1>4, SetSwipeType DEF Completion
  <2>2. rows' \in Seq(Row)
    BY <1>4, RemovedAt DEF Completion, TypeOK
  <2>3. QED BY <1>4, <2>1, <2>2 DEF Completion, TypeOK
<1>5. CASE CompletionTraps(s)
  <2>1. rows' \in Seq(Row)
    BY <1>5, EmptySeq DEF CompletionTraps
  <2>2. QED BY <1>5, <2>1 DEF CompletionTraps, TypeOK
<1>6. QED BY <1>1, <1>2, <1>3, <1>4, <1>5

LEMMA TypePage ==
    ASSUME TypeOK,
           \/ \E i \in DOMAIN rows : OpenPage(i)
           \/ PageAppears \/ AddMe \/ ClosePage
    PROVE  TypeOK'
<1>1. ASSUME NEW i \in DOMAIN rows, OpenPage(i) PROVE TypeOK'
  <2>1. page' \in Page
    BY <1>1, RowType DEF OpenPage, Page
  <2>2. QED BY <1>1, <2>1 DEF OpenPage, TypeOK
<1>2. CASE PageAppears
  <2>1. page \in Page
    BY <1>2 DEF PageAppears, TypeOK
  <2>2. (Me \in page.row.attendees) \in BOOLEAN
    OBVIOUS
  <2>3. ASSUME NEW b \in BOOLEAN
        PROVE  [page EXCEPT !.appeared = TRUE, !.isUserAttendee = b] \in Page
    BY <2>1 DEF Page
  <2>4. page' \in Page
    BY <1>2, <2>2, <2>3 DEF PageAppears
  <2>5. QED BY <1>2, <2>4 DEF PageAppears, TypeOK
<1>3. CASE AddMe
  BY <1>3 DEF AddMe, Live, TypeOK
<1>4. CASE ClosePage
  BY <1>4 DEF ClosePage, TypeOK
<1>5. QED BY <1>1, <1>2, <1>3, <1>4

LEMMA TypeStep == TypeOK /\ [Next]_vars => TypeOK'
<1> SUFFICES ASSUME TypeOK, [Next]_vars PROVE TypeOK'
  OBVIOUS
<1>1. CASE UNCHANGED vars
  BY <1>1 DEF vars, TypeOK
<1>2. CASE ToggleSearch
  BY <1>2 DEF ToggleSearch, TypeOK
<1>3. CASE DismissAlert
  BY <1>3 DEF DismissAlert, TypeOK
<1>4. QED BY <1>1, <1>2, <1>3, TypeDocs, TypeFetch, TypeSwipe, TypePage DEF Next

\* What the Events tab keeps has its type, whatever overlaps: in particular
\* every row is a row, and every pending deletion is of an event.
THEOREM ScreenTypeCorrect == Spec => []TypeOK
<1>1. QED BY TypeInit, TypeStep, PTL DEF Spec

-----------------------------------------------------------------------------

\* A deletion past its ownership check is of an event of mine: an event does
\* not change hands while the deletion is under way.
DeletionsAreMine ==
    \A s \in Swipe : swipes[s].at \in {"write", "deleting"} => swipes[s].event \in Mine

LEMMA MineInit == Init => DeletionsAreMine
BY DEF Init, DeletionsAreMine, None

\* A swipe that moves on without passing the check puts nothing new there.
LEMMA OthersStay ==
    ASSUME TypeOK, DeletionsAreMine, NEW s \in Swipe, NEW call, SetSwipe(s, call),
           call.at \in {"write", "deleting"} => call.event \in Mine
    PROVE  DeletionsAreMine'
BY DEF TypeOK, DeletionsAreMine, SetSwipe

LEMMA MoveOn ==
    ASSUME TypeOK, NEW s \in Swipe, swipes[s].at # "none",
           NEW at \in {"begin", "read", "write", "deleting", "true", "false"}
    PROVE  LET call == [swipes[s] EXCEPT !.at = at]
           IN  call.at = at /\ call.event = swipes[s].event
BY SwipeShape DEF SwipeCall

LEMMA MineStep == TypeOK /\ DeletionsAreMine /\ [Next]_vars => DeletionsAreMine'
<1> SUFFICES ASSUME TypeOK, DeletionsAreMine, [Next]_vars PROVE DeletionsAreMine'
  OBVIOUS
<1>1. ASSUME UNCHANGED swipes PROVE DeletionsAreMine'
  BY <1>1 DEF DeletionsAreMine
<1>2. ASSUME NEW s \in Swipe, NEW i \in DOMAIN rows, SwipeAway(s, i)
      PROVE  DeletionsAreMine'
  BY <1>2, OthersStay DEF SwipeAway
<1>3. ASSUME NEW s \in Swipe, DeleteBegin(s) PROVE DeletionsAreMine'
  BY <1>3, OthersStay, MoveOn DEF DeleteBegin, SwipeOn
<1>4. ASSUME NEW s \in Swipe, DeleteRead(s) PROVE DeletionsAreMine'
  <2>1. CASE IsOwner(swipes[s].event) /\ SwipeOn(s, "write")
    BY <1>4, <2>1, OthersStay, MoveOn DEF DeleteRead, SwipeOn, IsOwner
  <2>2. CASE SwipeOn(s, "false")
    BY <1>4, <2>2, OthersStay, MoveOn DEF DeleteRead, SwipeOn
  <2>3. CASE SetSwipe(s, None)
    BY <2>3, OthersStay DEF None
  <2>4. QED BY <1>4, <2>1, <2>2, <2>3 DEF DeleteRead
<1>5. ASSUME NEW s \in Swipe, DeleteWrite(s) PROVE DeletionsAreMine'
  <2>1. swipes[s].event \in Mine
    BY <1>5 DEF DeleteWrite, DeletionsAreMine
  <2>2. QED BY <1>5, <2>1, OthersStay, MoveOn DEF DeleteWrite, SwipeOn
<1>6. ASSUME NEW s \in Swipe, DeleteAnswered(s) PROVE DeletionsAreMine'
  BY <1>6, OthersStay, MoveOn DEF DeleteAnswered, SwipeOn
<1>7. ASSUME NEW s \in Swipe, Completion(s) PROVE DeletionsAreMine'
  BY <1>7, OthersStay DEF Completion, None
<1>8. ASSUME NEW s \in Swipe, CompletionTraps(s) PROVE DeletionsAreMine'
  BY <1>8 DEF CompletionTraps, DeletionsAreMine, None
<1>9. ASSUME NEW e \in Event, RemoteChange(e) \/ StopGoing(e) PROVE UNCHANGED swipes
  BY <1>9 DEF RemoteChange, StopGoing
<1>10. ASSUME NEW f \in Fetch,
              FetchEvents(f) \/ FetchServed(f) \/ FetchDelivered(f) \/ FetchFailed(f)
       PROVE  UNCHANGED swipes
  BY <1>10 DEF FetchEvents, FetchServed, FetchDelivered, FetchFailed
<1>11. ASSUME \/ \E i \in DOMAIN rows : OpenPage(i)
              \/ ToggleSearch \/ DismissAlert \/ PageAppears \/ AddMe \/ ClosePage
              \/ UNCHANGED vars
       PROVE  UNCHANGED swipes
  BY <1>11 DEF OpenPage, ToggleSearch, DismissAlert, PageAppears, AddMe, ClosePage, vars
<1>12. QED
  BY <1>1, <1>2, <1>3, <1>4, <1>5, <1>6, <1>7, <1>8, <1>9, <1>10, <1>11 DEF Next

\* Only two steps delete a document: somebody else's, which is counted, and
\* the answer to a deletion of this screen.
LEMMA OthersStep ==
    ASSUME TypeOK, DeletionsAreMine, [Next]_vars, NEW e \in Event \ Mine,
           docs[e] = "live", docs'[e] = "deleted"
    PROVE  changes' = changes + 1
<1>1. ASSUME NEW s \in Swipe, DeleteAnswered(s) PROVE FALSE
  <2>1. swipes[s].event \in Mine
    BY <1>1 DEF DeleteAnswered, DeletionsAreMine
  <2>2. docs'[e] = docs[e]
    BY <1>1, <2>1 DEF DeleteAnswered, SetDoc, TypeOK
  <2>3. QED BY <2>2
<1>2. ASSUME NEW x \in Event, RemoteChange(x) PROVE changes' = changes + 1
  BY <1>2 DEF RemoteChange, Change
<1>3. ASSUME UNCHANGED docs PROVE FALSE
  BY <1>3
<1>4. ASSUME NEW s \in Swipe,
             \/ \E i \in DOMAIN rows : SwipeAway(s, i)
             \/ DeleteBegin(s) \/ DeleteRead(s) \/ DeleteWrite(s)
             \/ Completion(s) \/ CompletionTraps(s)
      PROVE  UNCHANGED docs
  BY <1>4 DEF SwipeAway, DeleteBegin, DeleteRead, DeleteWrite, Completion, CompletionTraps
<1>5. ASSUME \/ \E x \in Event : StopGoing(x)
             \/ \E f \in Fetch : \/ FetchEvents(f) \/ FetchServed(f)
                                 \/ FetchDelivered(f) \/ FetchFailed(f)
             \/ \E i \in DOMAIN rows : OpenPage(i)
             \/ ToggleSearch \/ DismissAlert \/ PageAppears \/ AddMe \/ ClosePage
             \/ UNCHANGED vars
      PROVE  UNCHANGED docs
  BY <1>5 DEF StopGoing, FetchEvents, FetchServed, FetchDelivered, FetchFailed,
              OpenPage, ToggleSearch, DismissAlert, PageAppears, AddMe, ClosePage, vars
<1>6. QED BY <1>1, <1>2, <1>3, <1>4, <1>5 DEF Next

\* A swipe may hit another row than the one swiped, and its answer may come
\* after any number of refreshes: this screen deletes events of mine only.
THEOREM OthersSurvive == Spec => OthersEventsSurvive
<1>1. TypeOK /\ DeletionsAreMine /\ [Next]_vars =>
         [\A e \in Event \ Mine :
            (docs[e] = "live" /\ docs'[e] = "deleted") => changes' = changes + 1]_vars
  BY OthersStep
<1>2. QED BY <1>1, TypeInit, TypeStep, MineInit, MineStep, PTL DEF Spec, OthersEventsSurvive

-----------------------------------------------------------------------------
(* The rows *)

\* What RowsWellFormed says of the rows, of any listing.
WellFormed(s) ==
    /\ \A i, j \in DOMAIN s : s[i].id = s[j].id => i = j
    /\ \A i, j \in DOMAIN s : i < j => Date[s[i].id] <= Date[s[j].id]
    /\ \A i \in DOMAIN s : docs[s[i].id] # "unborn"

\* ... and of those a snapshot that is still to be delivered will leave.
RowsInv ==
    /\ WellFormed(rows)
    /\ \A f \in Fetch : fetches[f].at = "served" => WellFormed(fetches[f].rows)

\* A listing has one row for each live document, by date.
LEMMA ListingWellFormed ==
    ASSUME TypeOK, NEW s \in Listings
    PROVE  WellFormed(s)
<1>1. /\ \A i \in DOMAIN s : s[i] \in {RowOf(e) : e \in Live}
      /\ \A i, j \in DOMAIN s : s[i] = s[j] => i = j
      /\ ByDate(s)
  BY DEF Listings, SetToSeqs
<1>2. \A i \in DOMAIN s : s[i].id \in Live /\ s[i] = RowOf(s[i].id)
  BY <1>1 DEF RowOf
<1>3. \A i, j \in DOMAIN s : s[i].id = s[j].id => i = j
  BY <1>1, <1>2
<1>4. \A i \in DOMAIN s : docs[s[i].id] # "unborn"
  BY <1>2 DEF Live
<1>5. QED BY <1>1, <1>3, <1>4 DEF WellFormed, ByDate

LEMMA RemoveAtWellFormed ==
    ASSUME TypeOK, WellFormed(rows), NEW i \in DOMAIN rows
    PROVE  WellFormed(RemoveAt(rows, i))
<1> DEFINE r == RemoveAt(rows, i)
           g(k) == IF k < i THEN k ELSE k + 1
<1>1. DOMAIN rows = 1..Len(rows) /\ Len(rows) \in Nat /\ DOMAIN r = 1..(Len(rows) - 1)
  BY RemovedAt DEF TypeOK
<1>2. \A k \in DOMAIN r : r[k] = rows[g(k)]
  BY RemovedAt DEF TypeOK
<1>3. \A k \in DOMAIN r : g(k) \in DOMAIN rows
  BY <1>1
<1>4. \A k, l \in DOMAIN r : (k < l => g(k) < g(l)) /\ (g(k) = g(l) => k = l)
  BY <1>1
<1> HIDE DEF r, g
<1>5. WellFormed(r)
  BY <1>2, <1>3, <1>4 DEF WellFormed
<1>6. QED BY <1>5 DEF r

\* No document is ever unborn again, so well-formed rows stay so.
LEMMA WellFormedStays ==
    ASSUME NEW s, WellFormed(s), \A i \in DOMAIN s : s[i].id \in Event,
           \A e \in Event : docs[e] # "unborn" => docs'[e] # "unborn"
    PROVE  WellFormed(s)'
BY DEF WellFormed

LEMMA RowsInit == Init => RowsInv
BY DEF Init, RowsInv, WellFormed, None

LEMMA RowIds ==
    ASSUME NEW s \in Seq(Row), NEW i \in DOMAIN s
    PROVE  s[i].id \in Event
<1>1. i \in 1..Len(s)
  BY LenProperties
<1>2. s[i] \in Row
  BY <1>1, ElementOfSeq
<1>3. QED BY <1>2 DEF Row

LEMMA DocsBornStayBorn ==
    ASSUME TypeOK, [Next]_vars, NEW e \in Event, docs[e] # "unborn"
    PROVE  docs'[e] # "unborn"
<1>1. ASSUME UNCHANGED docs PROVE docs'[e] # "unborn"
  BY <1>1
<1>2. ASSUME NEW x \in Event, RemoteChange(x) PROVE docs'[e] # "unborn"
  BY <1>2 DEF RemoteChange, SetDoc, TypeOK
<1>3. ASSUME NEW s \in Swipe, DeleteAnswered(s) PROVE docs'[e] # "unborn"
  BY <1>3 DEF DeleteAnswered, SetDoc, TypeOK
<1>4. ASSUME NEW s \in Swipe,
             \/ \E i \in DOMAIN rows : SwipeAway(s, i)
             \/ DeleteBegin(s) \/ DeleteRead(s) \/ DeleteWrite(s)
             \/ Completion(s) \/ CompletionTraps(s)
      PROVE  UNCHANGED docs
  BY <1>4 DEF SwipeAway, DeleteBegin, DeleteRead, DeleteWrite, Completion, CompletionTraps
<1>5. ASSUME \/ \E x \in Event : StopGoing(x)
             \/ \E f \in Fetch : \/ FetchEvents(f) \/ FetchServed(f)
                                 \/ FetchDelivered(f) \/ FetchFailed(f)
             \/ \E i \in DOMAIN rows : OpenPage(i)
             \/ ToggleSearch \/ DismissAlert \/ PageAppears \/ AddMe \/ ClosePage
             \/ UNCHANGED vars
      PROVE  UNCHANGED docs
  BY <1>5 DEF StopGoing, FetchEvents, FetchServed, FetchDelivered, FetchFailed,
              OpenPage, ToggleSearch, DismissAlert, PageAppears, AddMe, ClosePage, vars
<1>6. QED BY <1>1, <1>2, <1>3, <1>4, <1>5 DEF Next

\* The rows, or the snapshots, a step leaves are some there were, or are well
\* formed by the documents of this moment.
LEMMA RowsKept ==
    ASSUME TypeOK, RowsInv, [Next]_vars,
           \/ rows' = rows
           \/ \E f \in Fetch : fetches[f].at = "served" /\ rows' = fetches[f].rows
           \/ \E s \in Seq(Row) : rows' = s /\ WellFormed(s),
           \A f \in Fetch : fetches'[f].at = "served" =>
              \/ fetches'[f] = fetches[f]
              \/ \E s \in Seq(Row) : fetches'[f].rows = s /\ WellFormed(s)
    PROVE  RowsInv'
<1>1. \A e \in Event : docs[e] # "unborn" => docs'[e] # "unborn"
  BY DocsBornStayBorn
<1>2. ASSUME NEW s \in Seq(Row), WellFormed(s) PROVE WellFormed(s)'
  <2>1. \A i \in DOMAIN s : s[i].id \in Event
    BY RowIds
  <2>2. QED BY <1>1, <1>2, <2>1, WellFormedStays
<1>3. \A f \in Fetch : fetches[f].at = "served" => fetches[f].rows \in Seq(Row)
  BY DEF TypeOK, FetchCall, None
<1>4. \E s \in Seq(Row) : rows' = s /\ WellFormed(s)
  BY <1>3 DEF RowsInv, TypeOK
<1>5. WellFormed(rows)'
  <2> PICK s \in Seq(Row) : rows' = s /\ WellFormed(s)
    BY <1>4
  <2>1. WellFormed(s)'
    BY <1>2
  <2>2. QED BY <2>1 DEF WellFormed
<1>6. ASSUME NEW f \in Fetch, fetches'[f].at = "served" PROVE WellFormed(fetches[f].rows)'
  <2> PICK s \in Seq(Row) : fetches'[f].rows = s /\ WellFormed(s)
    BY <1>3, <1>6 DEF RowsInv
  <2>1. WellFormed(s)'
    BY <1>2
  <2>2. QED BY <2>1 DEF WellFormed
<1>7. QED BY <1>5, <1>6 DEF RowsInv

LEMMA RowsStep == TypeOK /\ RowsInv /\ [Next]_vars => RowsInv'
<1> SUFFICES ASSUME TypeOK, RowsInv, [Next]_vars PROVE RowsInv'
  OBVIOUS
<1>1. ASSUME UNCHANGED <<rows, fetches>> PROVE RowsInv'
  BY <1>1, RowsKept
<1>2. ASSUME NEW f \in Fetch, FetchServed(f) PROVE RowsInv'
  <2>1. PICK s \in Listings : fetches' = [fetches EXCEPT ![f] = [at |-> "served", rows |-> s]]
    BY <1>2 DEF FetchServed
  <2>2. s \in Seq(Row) /\ WellFormed(s)
    BY ListingType, ListingWellFormed
  <2>3. /\ rows' = rows
        /\ \A g \in Fetch : fetches'[g] = fetches[g] \/ fetches'[g].rows = s
    BY <1>2, <2>1 DEF FetchServed, TypeOK
  <2>4. QED BY <2>2, <2>3, RowsKept
<1>3. ASSUME NEW f \in Fetch, FetchEvents(f) \/ FetchFailed(f) \/ FetchDelivered(f)
      PROVE  RowsInv'
  <2>1. \A g \in Fetch : fetches'[g] = fetches[g] \/ fetches'[g].at # "served"
    BY <1>3 DEF FetchEvents, FetchFailed, FetchDelivered, None, TypeOK
  <2>2. rows' = rows \/ (fetches[f].at = "served" /\ rows' = fetches[f].rows)
    BY <1>3 DEF FetchEvents, FetchFailed, FetchDelivered, Shown
  <2>3. QED BY <2>1, <2>2, RowsKept
<1>4. ASSUME NEW s \in Swipe, Completion(s) PROVE RowsInv'
  <2>1. CASE rows' = rows
    BY <1>4, <2>1, RowsKept DEF Completion
  <2>2. CASE swipes[s].index \in DOMAIN rows /\ rows' = RemoveAt(rows, swipes[s].index)
    <3>1. rows' \in Seq(Row) /\ WellFormed(RemoveAt(rows, swipes[s].index))
      BY <2>2, RemovedAt, RemoveAtWellFormed DEF TypeOK, RowsInv
    <3>2. \E r \in Seq(Row) : rows' = r /\ WellFormed(r)
      BY <2>2, <3>1
    <3>3. QED BY <1>4, <3>2, RowsKept DEF Completion
  <2>3. QED BY <1>4, <2>1, <2>2 DEF Completion
<1>5. ASSUME NEW s \in Swipe, CompletionTraps(s) PROVE RowsInv'
  <2>1. <<>> \in Seq(Row) /\ WellFormed(<<>>)
    BY EmptySeq DEF WellFormed
  <2>2. \A f \in Fetch : fetches'[f].at # "served"
    BY <1>5 DEF CompletionTraps, None
  <2>3. \E r \in Seq(Row) : rows' = r /\ WellFormed(r)
    BY <1>5, <2>1 DEF CompletionTraps
  <2>4. QED BY <2>2, <2>3, RowsKept
<1>6. ASSUME NEW s \in Swipe,
             \/ \E i \in DOMAIN rows : SwipeAway(s, i)
             \/ DeleteBegin(s) \/ DeleteRead(s) \/ DeleteWrite(s) \/ DeleteAnswered(s)
      PROVE  UNCHANGED <<rows, fetches>>
  BY <1>6 DEF SwipeAway, DeleteBegin, DeleteRead, DeleteWrite, DeleteAnswered
<1>7. ASSUME \/ \E x \in Event : RemoteChange(x) \/ StopGoing(x)
             \/ \E i \in DOMAIN rows : OpenPage(i)
             \/ ToggleSearch \/ DismissAlert \/ PageAppears \/ AddMe \/ ClosePage
             \/ UNCHANGED vars
      PROVE  UNCHANGED <<rows, fetches>>
  BY <1>7 DEF RemoteChange, StopGoing, OpenPage, ToggleSearch, DismissAlert, PageAppears,
              AddMe, ClosePage, vars
<1>8. QED BY <1>1, <1>2, <1>3, <1>4, <1>5, <1>6, <1>7 DEF Next

\* However many fetches and deletions overlap, and whatever row a late answer
\* removes, the list has no event twice, is in the order of the dates, and
\* shows only events that exist or did.
THEOREM RowsAreWellFormed == Spec => []RowsWellFormed
<1>1. RowsInv => RowsWellFormed
  BY DEF RowsInv, WellFormed, RowsWellFormed, ByDate
<1>2. QED BY <1>1, TypeInit, TypeStep, RowsInit, RowsStep, PTL DEF Spec
=============================================================================
