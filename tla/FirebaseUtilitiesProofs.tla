----------------------- MODULE FirebaseUtilitiesProofs -----------------------
(***************************************************************************)
(* What TLAPS proves of FirebaseUtilities, for any clients, users, events, *)
(* slots and bounds: its types, its safety, that it implements EventBoard, *)
(* and that a read shows the document under the writes pending on it.      *)
(***************************************************************************)
EXTENDS FirebaseUtilities, SequenceTheorems, WellFoundedInduction, TLAPS

(* The steps handlers are made of keep the types *)

LEMMA SetCallType ==
    ASSUME TypeOK, NEW c \in Client, NEW s \in Slot, NEW call \in Call \cup {NoCall},
           SetCall(c, s, call)
    PROVE  calls' \in [Client -> [Slot -> Call \cup {NoCall}]]
BY DEF TypeOK, SetCall

\* The server has answered a part of a client's queue, from its head on.
LEMMA AnswersShape ==
    ASSUME TypeOK, NEW c \in Client
    PROVE  /\ queue[c] \in Seq(Mutation) /\ answers[c] \in Seq({"ok", "error"})
           /\ Len(queue[c]) \in Nat /\ Len(answers[c]) \in Nat
           /\ Len(answers[c]) <= Len(queue[c])
           /\ DOMAIN queue[c] = 1..Len(queue[c])
BY DEF TypeOK

\* One answer more.
LEMMA OneAnswer ==
    ASSUME TypeOK, NEW c \in Client, NEW a \in {"ok", "error"}, Unhandled(c),
           answers' = [answers EXCEPT ![c] = Append(@, a)]
    PROVE  /\ answers' \in [Client -> Seq({"ok", "error"})]
           /\ Len(answers'[c]) = Len(answers[c]) + 1
           /\ \A d \in Client : d # c => answers'[d] = answers[d]
           /\ \A d \in Client : Len(answers'[d]) <= Len(queue[d])
<1>1. /\ Append(answers[c], a) \in Seq({"ok", "error"})
      /\ Len(Append(answers[c], a)) = Len(answers[c]) + 1
  BY AnswersShape, AppendProperties
<1>2. answers'[c] = Append(answers[c], a) /\ \A d \in Client : d # c => answers'[d] = answers[d]
  BY DEF TypeOK
<1>3. Len(answers'[c]) <= Len(queue[c])
  BY <1>1, <1>2, AnswersShape DEF Unhandled
<1>4. \A d \in Client : Len(answers'[d]) <= Len(queue[d])
  BY <1>2, <1>3, AnswersShape
<1>5. answers' \in [Client -> Seq({"ok", "error"})]
  BY <1>1 DEF TypeOK
<1>6. QED BY <1>1, <1>2, <1>4, <1>5

LEMMA EnqueueType ==
    ASSUME TypeOK, NEW c \in Client, NEW m \in Mutation, Enqueue(c, m)
    PROVE  /\ queue' \in [Client -> Seq(Mutation)]
           /\ \A d \in Client : Len(answers[d]) <= Len(queue'[d])
<1>1. queue[c] \in Seq(Mutation)
  BY DEF TypeOK
<1>2. /\ Append(queue[c], m) \in Seq(Mutation)
      /\ Len(Append(queue[c], m)) = Len(queue[c]) + 1
      /\ Len(queue[c]) \in Nat
  BY <1>1, AppendProperties
<1>3. queue' = [queue EXCEPT ![c] = Append(@, m)]
  BY DEF Enqueue
<1>4. \A d \in Client : d # c => queue'[d] = queue[d]
  BY <1>3 DEF TypeOK
<1>5. Len(answers[c]) <= Len(queue'[c])
  <2>1. Len(answers[c]) \in Nat /\ Len(answers[c]) <= Len(queue[c])
    BY AnswersShape
  <2>2. queue'[c] = Append(queue[c], m)
    BY <1>3 DEF TypeOK
  <2>3. QED BY <1>2, <2>1, <2>2
<1>6. QED
  BY <1>2, <1>3, <1>4, <1>5 DEF TypeOK

\* A chain that moves on keeps its arguments.
LEMMA ContinueType ==
    ASSUME TypeOK, NEW c \in Client, NEW s \in Slot, NEW at,
           [calls[c][s] EXCEPT !.at = at] \in Call,
           Continue(c, s, at)
    PROVE  calls' \in [Client -> [Slot -> Call \cup {NoCall}]]
BY SetCallType DEF Continue

LEMMA TapType ==
    ASSUME TypeOK, NEW c \in Client, NEW e \in Event,
           NEW op \in {"create", "join", "leave", "delete"}, Tap(c, op, e)
    PROVE  /\ asked' \in SUBSET Request
           /\ taps' \in 0..MaxTaps
<1>1. Ask(op, uid[c], e) \in Request
  BY DEF TypeOK, Ask, Request
<1>2. QED
  BY <1>1, ClientAssumption DEF TypeOK, Tap

\* A chain in flight has the arguments of its function.
LEMMA CallShape ==
    ASSUME TypeOK, NEW c \in Client, NEW s \in Slot
    PROVE  /\ calls[c][s] \in Call \cup {NoCall}
           /\ calls[c][s].op = "addAttendee" =>
                 calls[c][s] \in [op : {"addAttendee"}, at : {"user", "event", "write"},
                                  event : Event, uid : User]
           /\ calls[c][s].op = "deleteEvent" =>
                 calls[c][s] \in [op : {"deleteEvent"}, at : {"event", "write"},
                                  event : Event, uid : UserId]
           /\ calls[c][s].op = "addUser" =>
                 calls[c][s] \in [op : {"addUser"}, at : {"user", "write"}]
BY DEF TypeOK, Call, NoCall

-----------------------------------------------------------------------------
(* Type correctness *)

LEMMA TypeInit == Init => TypeOK
BY DocsAssumption, ClientAssumption
   DEF Init, TypeOK, Doc, Unborn, UserId, NoCall, Request, Call

LEMMA TypeSignIn ==
    ASSUME TypeOK, NEW c \in Client, SignIn(c)
    PROVE  TypeOK'
<1>1. calls' \in [Client -> [Slot -> Call \cup {NoCall}]]
  <2>1. [op |-> "addUser", at |-> "user"] \in Call
    BY DEF Call
  <2>2. CASE UserOf[c] \in Columbia
    BY <2>1, <2>2, SetCallType DEF SignIn, StartCall
  <2>3. CASE UserOf[c] \notin Columbia
    BY <2>3 DEF SignIn, TypeOK
  <2>4. QED BY <2>2, <2>3
<1>2. QED
  BY <1>1 DEF SignIn, TypeOK, serverVars

LEMMA TypeUserData ==
    ASSUME TypeOK, NEW c \in Client, UserDataArrives(c) \/ Logout(c)
    PROVE  TypeOK'
<1>1. CASE UserDataArrives(c)
  BY <1>1, ClientAssumption DEF UserDataArrives, TypeOK, serverVars, UserId
<1>2. CASE Logout(c)
  BY <1>2, ClientAssumption DEF Logout, TypeOK, serverVars
<1>3. QED BY <1>1, <1>2

LEMMA TypeTaps ==
    ASSUME TypeOK, NEW c \in Client, NEW e \in Event,
           AddEvent(c, e) \/ TapAdd(c, e) \/ LeaveEvent(c, e) \/ TapDelete(c, e)
    PROVE  TypeOK'
<1>0. uid[c] \in UserId /\ (uid[c] # NoUser => uid[c] \in User)
  BY DEF TypeOK, UserId
<1>1. CASE AddEvent(c, e)
  <2>1. Write("event", e, uid[c]) \in Mutation
    BY <1>0 DEF Write, Mutation, WriteKind
  <2>2. EventCall("addEvent", "ack", e, uid[c]) \in Call
    BY <1>0 DEF EventCall, Call
  <2>3. /\ queue' \in [Client -> Seq(Mutation)]
        /\ \A d \in Client : Len(answers[d]) <= Len(queue'[d])
    BY <1>1, <2>1, EnqueueType DEF AddEvent
  <2>4. calls' \in [Client -> [Slot -> Call \cup {NoCall}]]
    BY <1>1, <2>2, SetCallType DEF AddEvent, StartCall
  <2>5. asked' \in SUBSET Request /\ taps' \in 0..MaxTaps
    BY <1>1, TapType DEF AddEvent
  <2>6. QED
    BY <1>1, <2>3, <2>4, <2>5 DEF AddEvent, TypeOK, serverVars
<1>2. CASE TapAdd(c, e)
  <2>1. EventCall("addAttendee", "user", e, uid[c]) \in Call
    BY <1>0, <1>2 DEF EventCall, Call, TapAdd
  <2>2. calls' \in [Client -> [Slot -> Call \cup {NoCall}]]
    BY <1>2, <2>1, SetCallType DEF TapAdd, StartCall
  <2>3. asked' \in SUBSET Request /\ taps' \in 0..MaxTaps
    BY <1>2, TapType DEF TapAdd
  <2>4. QED
    BY <1>2, <2>2, <2>3 DEF TapAdd, TypeOK, serverVars
<1>3. CASE LeaveEvent(c, e)
  <2>1. Write("remove", e, uid[c]) \in Mutation
    BY <1>0 DEF Write, Mutation, WriteKind
  <2>2. /\ queue' \in [Client -> Seq(Mutation)]
        /\ \A d \in Client : Len(answers[d]) <= Len(queue'[d])
    BY <1>3, <2>1, EnqueueType DEF LeaveEvent
  <2>3. asked' \in SUBSET Request /\ taps' \in 0..MaxTaps
    BY <1>3, TapType DEF LeaveEvent
  <2>4. QED
    BY <1>3, <2>2, <2>3 DEF LeaveEvent, TypeOK, serverVars
<1>4. CASE TapDelete(c, e)
  <2>1. EventCall("deleteEvent", "event", e, uid[c]) \in Call
    BY <1>0 DEF EventCall, Call
  <2>2. calls' \in [Client -> [Slot -> Call \cup {NoCall}]]
    BY <1>4, <2>1, SetCallType DEF TapDelete, StartCall
  <2>3. asked' \in SUBSET Request /\ taps' \in 0..MaxTaps
    BY <1>4, TapType DEF TapDelete
  <2>4. QED
    BY <1>4, <2>2, <2>3 DEF TapDelete, TypeOK, serverVars
<1>5. QED BY <1>1, <1>2, <1>3, <1>4

\* A step of a chain that reads: the chain moves on or ends.
LEMMA TypeReads ==
    ASSUME TypeOK, NEW c \in Client, NEW s \in Slot,
           \/ AddUserRead(c, s) \/ AttendeeUserRead(c, s)
           \/ AttendeeEventRead(c, s) \/ DeleteRead(c, s)
    PROVE  TypeOK'
<1>1. ASSUME End(c, s)
      PROVE  calls' \in [Client -> [Slot -> Call \cup {NoCall}]]
  BY <1>1, SetCallType DEF End
<1>2. CASE AddUserRead(c, s)
  <2>1. [calls[c][s] EXCEPT !.at = "write"] \in Call
    BY <1>2, CallShape DEF AddUserRead, At, Call
  <2>2. QED
    BY <1>1, <1>2, <2>1, ContinueType DEF AddUserRead, TypeOK, serverVars
<1>3. CASE AttendeeUserRead(c, s)
  <2>1. [calls[c][s] EXCEPT !.at = "event"] \in Call
    BY <1>3, CallShape DEF AttendeeUserRead, At, Call
  <2>2. QED
    BY <1>1, <1>3, <2>1, ContinueType DEF AttendeeUserRead, TypeOK, serverVars
<1>4. CASE AttendeeEventRead(c, s)
  <2>1. [calls[c][s] EXCEPT !.at = "write"] \in Call
    BY <1>4, CallShape DEF AttendeeEventRead, At, Call
  <2>2. QED
    BY <1>1, <1>4, <2>1, ContinueType DEF AttendeeEventRead, TypeOK, serverVars
<1>5. CASE DeleteRead(c, s)
  <2>1. [calls[c][s] EXCEPT !.at = "write"] \in Call
    BY <1>5, CallShape DEF DeleteRead, At, Call
  <2>2. QED
    BY <1>1, <1>5, <2>1, ContinueType DEF DeleteRead, TypeOK, serverVars
<1>6. QED BY <1>2, <1>3, <1>4, <1>5

\* A step of a chain that writes: the write joins the queue, the chain ends.
LEMMA TypeWrites ==
    ASSUME TypeOK, NEW c \in Client, NEW s \in Slot,
           AddUserWrite(c, s) \/ AttendeeWrite(c, s) \/ DeleteWrite(c, s)
    PROVE  TypeOK'
<1>1. ASSUME End(c, s)
      PROVE  calls' \in [Client -> [Slot -> Call \cup {NoCall}]]
  BY <1>1, SetCallType DEF End
<1>2. CASE AddUserWrite(c, s)
  <2>1. NewUser(UserOf[c]) \in Mutation
    BY ClientAssumption DEF NewUser, Mutation
  <2>2. QED
    BY <1>1, <1>2, <2>1, EnqueueType DEF AddUserWrite, TypeOK, serverVars
<1>3. CASE AttendeeWrite(c, s)
  <2>1. Write("union", calls[c][s].event, calls[c][s].uid) \in Mutation
    BY <1>3, CallShape DEF AttendeeWrite, At, Write, Mutation, WriteKind, UserId
  <2>2. QED
    BY <1>1, <1>3, <2>1, EnqueueType DEF AttendeeWrite, TypeOK, serverVars
<1>4. CASE DeleteWrite(c, s)
  <2>1. Write("delete", calls[c][s].event, calls[c][s].uid) \in Mutation
    BY <1>4, CallShape DEF DeleteWrite, At, Write, Mutation, WriteKind
  <2>2. QED
    BY <1>1, <1>4, <2>1, EnqueueType DEF DeleteWrite, TypeOK, serverVars
<1>5. QED BY <1>2, <1>3, <1>4

\* The write at the head of a queue, and what an application of it leaves.
LEMMA HeadType ==
    ASSUME TypeOK, NEW c \in Client, queue[c] # <<>>
    PROVE  /\ Head(queue[c]) \in Mutation
           /\ Head(queue[c]) = queue[c][1] /\ 1 \in DOMAIN queue[c]
           /\ Tail(queue[c]) \in Seq(Mutation)
           /\ Len(Tail(queue[c])) = Len(queue[c]) - 1
           /\ \A i \in DOMAIN Tail(queue[c]) :
                 i + 1 \in DOMAIN queue[c] /\ Tail(queue[c])[i] = queue[c][i + 1]
BY DEF TypeOK

\* The write the server handles next.
LEMMA NextType ==
    ASSUME TypeOK, NEW c \in Client, Unhandled(c)
    PROVE  /\ NextWrite(c) \in Mutation
           /\ NextWrite(c) = queue[c][Len(answers[c]) + 1]
           /\ Len(answers[c]) + 1 \in DOMAIN queue[c]
<1>1. Len(answers[c]) + 1 \in DOMAIN queue[c]
  BY AnswersShape DEF Unhandled
<1>2. QED BY <1>1, AnswersShape DEF NextWrite

LEMMA AppliedType ==
    ASSUME NEW m \in Mutation, m.kind # "user", NEW doc \in Doc
    PROVE  Applied(m, doc) \in Doc
BY DEF Applied, Mutation, WriteKind, Doc, NewEvent, Deleted, UserId

\* A write other than a set: what was born stays born and its owner's, and
\* only a delete takes it away.
LEMMA AppliedShape ==
    ASSUME NEW m \in Mutation, m.kind \notin {"user", "event"}, NEW doc \in Doc,
           Accepted(m, doc)
    PROVE  LET after == Applied(m, doc)
           IN  /\ after.state = "unborn" <=> doc.state = "unborn"
               /\ doc.state = "unborn" => after = doc
               /\ IsLive(after) => IsLive(doc) /\ after.ownerID = doc.ownerID
               /\ after.state = "deleted" =>
                     doc.state = "deleted" \/ (m.kind = "delete" /\ IsLive(doc))
<1>1. m.kind \in {"union", "remove", "delete"}
  BY DEF Mutation, WriteKind
<1>2. CASE m.kind \in {"union", "remove"}
  BY <1>2 DEF Accepted, Applied, IsLive, Doc
<1>3. CASE m.kind = "delete" /\ IsLive(doc)
  BY <1>3 DEF Applied, IsLive, Deleted
<1>4. CASE m.kind = "delete" /\ ~IsLive(doc)
  <2>1. Applied(m, doc) = doc
    BY <1>4 DEF Applied
  <2>2. QED BY <1>4, <2>1 DEF IsLive
<1>5. QED BY <1>1, <1>2, <1>3, <1>4

\* What a write leaves without an owner is no event.
LEMMA AppliedOwner ==
    ASSUME NEW m \in Mutation, m.kind # "user", NEW doc \in Doc, Accepted(m, doc),
           ~IsLive(doc) => doc.ownerID = NoUser, ~IsLive(Applied(m, doc))
    PROVE  Applied(m, doc).ownerID = NoUser
BY DEF Applied, Accepted, IsLive, NewEvent, Deleted, Doc, Mutation, WriteKind

LEMMA TypeCommit ==
    ASSUME TypeOK, NEW c \in Client, Commit(c)
    PROVE  TypeOK'
<1>1. NextWrite(c) \in Mutation
  BY NextType DEF Commit
<1>2. /\ answers' \in [Client -> Seq({"ok", "error"})]
      /\ \A d \in Client : Len(answers'[d]) <= Len(queue'[d])
  BY OneAnswer DEF Commit
<1>3. CASE CommitUser(c, NextWrite(c))
  BY <1>1, <1>2, <1>3 DEF Commit, CommitUser, TypeOK, Mutation
<1>4. CASE CommitEvent(c, NextWrite(c))
  <2>1. events' \in [Event -> Doc]
    BY <1>1, <1>4, AppliedType DEF CommitEvent, TypeOK, Mutation
  <2>2. QED
    BY <1>2, <1>4, <2>1 DEF Commit, CommitEvent, TypeOK
<1>5. QED BY <1>3, <1>4 DEF Commit

LEMMA TypeAcknowledge ==
    ASSUME TypeOK, NEW c \in Client, Acknowledge(c)
    PROVE  TypeOK'
<1> DEFINE m == Head(queue[c])
<1>0. /\ queue[c] # <<>>
      /\ Tail(answers[c]) \in Seq({"ok", "error"}) /\ Len(Tail(answers[c])) = Len(answers[c]) - 1
  <2>1. answers[c] # <<>>
    BY DEF Acknowledge
  <2>2. QED BY <2>1, AnswersShape
<1>1. m \in Mutation /\ Tail(queue[c]) \in Seq(Mutation) /\ Len(Tail(queue[c])) = Len(queue[c]) - 1
  BY <1>0, HeadType
<1>2. ASSUME NEW s \in Slot, s \in Waiting(c, m)
      PROVE  AfterAck(c, m) \in Call \cup {NoCall}
  BY <1>1, <1>2 DEF Waiting, AfterAck, EventCall, Call, Mutation, UserId
<1>3. calls' \in [Client -> [Slot -> Call \cup {NoCall}]]
  <2>1. [s \in Slot |-> IF s \in Waiting(c, m) THEN AfterAck(c, m) ELSE calls[c][s]]
           \in [Slot -> Call \cup {NoCall}]
    BY <1>2, CallShape
  <2>2. QED
    BY <2>1 DEF Acknowledge, TypeOK
<1>4. \A d \in Client : Len(answers'[d]) <= Len(queue'[d])
  <2>1. /\ answers'[c] = Tail(answers[c]) /\ queue'[c] = Tail(queue[c])
        /\ \A d \in Client : d # c => answers'[d] = answers[d] /\ queue'[d] = queue[d]
    BY DEF Acknowledge, TypeOK
  <2>2. Len(answers'[c]) <= Len(queue'[c])
    BY <1>0, <1>1, <2>1, AnswersShape
  <2>3. QED BY <2>1, <2>2, AnswersShape
<1>5. /\ queue' \in [Client -> Seq(Mutation)]
      /\ answers' \in [Client -> Seq({"ok", "error"})]
  BY <1>0, <1>1 DEF Acknowledge, TypeOK
<1>6. QED
  BY <1>3, <1>4, <1>5 DEF Acknowledge, TypeOK, serverVars

LEMMA TypeFaults ==
    ASSUME TypeOK, NEW c \in Client, Refuse(c) \/ Resend(c) \/ Crash(c)
    PROVE  TypeOK'
<1>1. CASE Refuse(c)
  <2>1. /\ answers' \in [Client -> Seq({"ok", "error"})]
        /\ \A d \in Client : Len(answers'[d]) <= Len(queue[d])
    BY <1>1, OneAnswer DEF Refuse
  <2>2. QED BY <1>1, <2>1 DEF Refuse, TypeOK, serverVars
<1>2. CASE Resend(c)
  <2>1. answers' \in [Client -> Seq({"ok", "error"})]
    BY <1>2 DEF Resend, TypeOK
  <2>2. \A d \in Client : Len(answers'[d]) <= Len(queue[d])
    BY <1>2, AnswersShape DEF Resend, TypeOK
  <2>3. QED BY <1>2, <2>1, <2>2 DEF Resend, TypeOK, serverVars
<1>3. CASE Crash(c)
  BY <1>3, ClientAssumption DEF Crash, TypeOK, serverVars, UserId, NoCall
<1>4. QED BY <1>1, <1>2, <1>3

LEMMA TypeStep == TypeOK /\ [Next]_vars => TypeOK'
<1> SUFFICES ASSUME TypeOK, [Next]_vars PROVE TypeOK'
  OBVIOUS
<1>1. CASE UNCHANGED vars
  BY <1>1 DEF vars, serverVars, clientVars, TypeOK
<1>2. ASSUME NEW c \in Client, Environment(c) PROVE TypeOK'
  BY <1>2, TypeSignIn, TypeUserData, TypeTaps, TypeFaults DEF Environment
<1>3. ASSUME NEW c \in Client, Network(c) PROVE TypeOK'
  BY <1>3, TypeUserData, TypeCommit, TypeAcknowledge DEF Network
<1>4. ASSUME NEW c \in Client, NEW s \in Slot, Chain(c, s) PROVE TypeOK'
  BY <1>4, TypeReads, TypeWrites DEF Chain
<1>5. QED BY <1>1, <1>2, <1>3, <1>4 DEF Next

\* Every reachable state is well typed, and the server has answered only
\* writes that are there.
THEOREM TypeCorrect == Spec => []TypeOK
<1>1. QED BY TypeInit, TypeStep, PTL DEF Spec

-----------------------------------------------------------------------------
(* Every attendee has an account *)

\* Adding a write to a queue: what was queued stays where it was.
LEMMA EnqueueShape ==
    ASSUME TypeOK, NEW c \in Client, NEW m \in Mutation, Enqueue(c, m)
    PROVE  /\ \A d \in Client : \A i \in DOMAIN queue[d] :
                 i \in DOMAIN queue'[d] /\ queue'[d][i] = queue[d][i]
           /\ \A d \in Client : \A i \in DOMAIN queue'[d] :
                 i \in DOMAIN queue[d] \/ (d = c /\ i = Len(queue[c]) + 1 /\ queue'[d][i] = m)
           /\ \A i \in DOMAIN queue[c] : i \in 1..Len(queue[c])
<1>1. queue[c] \in Seq(Mutation) /\ DOMAIN queue[c] = 1..Len(queue[c])
  BY DEF TypeOK
<1>2. /\ DOMAIN Append(queue[c], m) = 1..(Len(queue[c]) + 1)
      /\ Append(queue[c], m)[Len(queue[c]) + 1] = m
      /\ \A i \in 1..Len(queue[c]) : Append(queue[c], m)[i] = queue[c][i]
      /\ Len(queue[c]) \in Nat
  BY <1>1, AppendProperties
<1>3. queue' = [queue EXCEPT ![c] = Append(@, m)]
  BY DEF Enqueue
<1>4. QED
  BY <1>1, <1>2, <1>3 DEF TypeOK

\* A write joins a queue: a union may only if the account is seen from there.
LEMMA EnqueueAccounts ==
    ASSUME TypeOK, AccountsInv, UNCHANGED <<users, events, answers>>,
           NEW c \in Client, NEW m \in Mutation, Enqueue(c, m),
           m.kind = "union" => UserExists(c, m.uid)
    PROVE  /\ JoinsAreBacked' /\ AccountsAreTaken' /\ AttendeesHaveAccounts'
           /\ \A d \in Client, u \in User : UserExists(d, u) => UserExists(d, u)'
<1>1. JoinsAreBacked'
  <2> SUFFICES ASSUME NEW d \in Client, NEW i \in DOMAIN queue'[d],
                      queue'[d][i].kind = "union"
               PROVE  \/ queue'[d][i].uid \in users
                      \/ \E j \in 1..(i - 1) : queue'[d][j] = NewUser(queue'[d][i].uid)
    BY DEF JoinsAreBacked, NewUser
  <2>1. CASE i \in DOMAIN queue[d]
    <3>1. queue'[d][i] = queue[d][i] /\ DOMAIN queue[d] = 1..Len(queue[d])
          /\ Len(queue[d]) \in Nat
      BY <2>1, EnqueueShape DEF TypeOK
    <3>2. \/ queue[d][i].uid \in users
          \/ \E j \in 1..(i - 1) : queue[d][j] = NewUser(queue[d][i].uid)
      BY <2>1, <3>1 DEF AccountsInv, JoinsAreBacked
    <3>3. \A j \in 1..(i - 1) : j \in DOMAIN queue[d]
      BY <2>1, <3>1
    <3>4. QED
      BY <3>1, <3>2, <3>3, EnqueueShape
  <2>2. CASE i \notin DOMAIN queue[d]
    <3>1. d = c /\ i = Len(queue[c]) + 1 /\ queue'[d][i] = m
      BY <2>2, EnqueueShape
    <3>2. m.uid \in users \/ \E j \in DOMAIN queue[c] : queue[c][j] = NewUser(m.uid)
      BY <3>1 DEF UserExists
    <3>3. \A j \in DOMAIN queue[c] : j \in 1..(i - 1) /\ queue'[c][j] = queue[c][j]
      <4>1. Len(queue[c]) \in Nat
        BY DEF TypeOK
      <4>2. QED
        BY <3>1, <4>1, EnqueueShape
    <3>4. QED
      BY <3>1, <3>2, <3>3
  <2>3. QED BY <2>1, <2>2
<1>2. AccountsAreTaken'
  <2> SUFFICES ASSUME NEW d \in Client, NEW i \in 1..Len(answers[d]), queue'[d][i].kind = "user"
               PROVE  queue'[d][i].uid \in users
    BY DEF AccountsAreTaken
  <2>1. i \in DOMAIN queue[d]
    BY AnswersShape
  <2>2. QED
    BY <2>1, EnqueueShape DEF AccountsInv, AccountsAreTaken
<1>3. AttendeesHaveAccounts'
  BY DEF AccountsInv, AttendeesHaveAccounts
<1>4. \A d \in Client, u \in User : UserExists(d, u) => UserExists(d, u)'
  BY EnqueueShape DEF UserExists, NewUser
<1>5. QED BY <1>1, <1>2, <1>3, <1>4

\* A step that leaves the server and the queues alone, and starts no chain
\* beyond its read of the account.
LEMMA QuietAccounts ==
    ASSUME AccountsInv, UNCHANGED <<users, events, queue, answers>>,
           JoinersAreUsers'
    PROVE  AccountsInv'
BY DEF AccountsInv, JoinsAreBacked, AccountsAreTaken, AttendeesHaveAccounts, NewUser

\* Only a chain of addAttendee past its first read counts on an account.
LEMMA JoinersKept ==
    ASSUME TypeOK, JoinersAreUsers,
           \A d \in Client, u \in User : UserExists(d, u) => UserExists(d, u)',
           \A d \in Client, t \in Slot :
              \/ calls'[d][t] = calls[d][t]
              \/ calls'[d][t].op # "addAttendee"
              \/ calls'[d][t].at = "user"
              \/ calls[d][t].op = "addAttendee" /\ calls[d][t].at # "user"
                    /\ calls'[d][t].uid = calls[d][t].uid
              \/ calls'[d][t].uid \in User /\ UserExists(d, calls'[d][t].uid)
    PROVE  JoinersAreUsers'
<1> SUFFICES ASSUME NEW d \in Client, NEW t \in Slot,
                    calls'[d][t].op = "addAttendee", calls'[d][t].at # "user"
             PROVE  \A u : u = calls'[d][t].uid => UserExists(d, u)'
  BY DEF JoinersAreUsers, UserExists
<1>1. CASE calls[d][t].op = "addAttendee" /\ calls[d][t].at # "user"
           /\ calls'[d][t].uid = calls[d][t].uid
  <2>1. calls[d][t].uid \in User /\ UserExists(d, calls[d][t].uid)
    BY <1>1, CallShape DEF JoinersAreUsers
  <2>2. QED BY <1>1, <2>1
<1>2. CASE calls'[d][t].uid \in User /\ UserExists(d, calls'[d][t].uid)
  BY <1>2
<1>3. QED BY <1>1, <1>2

\* What the steps of a handler do to the chains.
LEMMA SetCallShape ==
    ASSUME TypeOK, NEW c \in Client, NEW s \in Slot, NEW call, SetCall(c, s, call)
    PROVE  /\ calls'[c][s] = call
           /\ \A d \in Client, t \in Slot : calls'[d][t] = calls[d][t] \/ (d = c /\ t = s)
BY DEF TypeOK, SetCall

LEMMA SameReads ==
    ASSUME UNCHANGED <<users, queue>>
    PROVE  \A d \in Client, u \in User : UserExists(d, u) => UserExists(d, u)'
BY DEF UserExists, NewUser

LEMMA AccountsSignIn ==
    ASSUME TypeOK, AccountsInv, NEW c \in Client,
           SignIn(c) \/ UserDataArrives(c) \/ Logout(c)
    PROVE  AccountsInv'
<1>1. JoinersAreUsers'
  <2>1. \A d \in Client, t \in Slot :
           calls'[d][t] = calls[d][t] \/ calls'[d][t].op # "addAttendee"
    BY SetCallShape DEF SignIn, UserDataArrives, Logout, StartCall
  <2>2. QED
    BY <2>1, SameReads, JoinersKept DEF SignIn, UserDataArrives, Logout, serverVars, AccountsInv
<1>2. QED
  BY <1>1, QuietAccounts DEF SignIn, UserDataArrives, Logout, serverVars

LEMMA AccountsTaps ==
    ASSUME TypeOK, AccountsInv, NEW c \in Client, NEW e \in Event,
           AddEvent(c, e) \/ TapAdd(c, e) \/ LeaveEvent(c, e) \/ TapDelete(c, e)
    PROVE  AccountsInv'
<1>0. uid[c] \in UserId /\ (uid[c] # NoUser => uid[c] \in User)
  BY DEF TypeOK, UserId
<1>1. \A d \in Client, t \in Slot :
         \/ calls'[d][t] = calls[d][t]
         \/ calls'[d][t].op # "addAttendee"
         \/ calls'[d][t].at = "user"
  BY SetCallShape DEF AddEvent, TapAdd, LeaveEvent, TapDelete, StartCall, EventCall
<1>2. CASE TapAdd(c, e) \/ TapDelete(c, e)
  <2>1. JoinersAreUsers'
    BY <1>1, <1>2, SameReads, JoinersKept DEF TapAdd, TapDelete, serverVars, AccountsInv
  <2>2. QED
    BY <1>2, <2>1, QuietAccounts DEF TapAdd, TapDelete, serverVars
<1>3. ASSUME NEW m \in Mutation, m.kind # "union", Enqueue(c, m),
             UNCHANGED <<users, events, answers>>
      PROVE  AccountsInv'
  <2>1. /\ JoinsAreBacked' /\ AccountsAreTaken' /\ AttendeesHaveAccounts'
        /\ \A d \in Client, u \in User : UserExists(d, u) => UserExists(d, u)'
    BY <1>3, EnqueueAccounts
  <2>2. QED
    BY <1>1, <2>1, JoinersKept DEF AccountsInv
<1>4. CASE AddEvent(c, e)
  <2>1. Write("event", e, uid[c]) \in Mutation /\ Write("event", e, uid[c]).kind # "union"
    BY <1>0 DEF Write, Mutation, WriteKind
  <2>2. QED
    BY <1>3, <1>4, <2>1 DEF AddEvent, serverVars
<1>5. CASE LeaveEvent(c, e)
  <2>1. Write("remove", e, uid[c]) \in Mutation /\ Write("remove", e, uid[c]).kind # "union"
    BY <1>0 DEF Write, Mutation, WriteKind
  <2>2. QED
    BY <1>3, <1>5, <2>1 DEF LeaveEvent, serverVars
<1>6. QED BY <1>2, <1>4, <1>5

LEMMA AccountsReads ==
    ASSUME TypeOK, AccountsInv, NEW c \in Client, NEW s \in Slot,
           \/ AddUserRead(c, s) \/ AttendeeUserRead(c, s)
           \/ AttendeeEventRead(c, s) \/ DeleteRead(c, s)
    PROVE  AccountsInv'
<1>1. \A d \in Client, t \in Slot :
         \/ calls'[d][t] = calls[d][t]
         \/ calls'[d][t].op # "addAttendee"
         \/ calls[d][t].op = "addAttendee" /\ calls[d][t].at # "user"
               /\ calls'[d][t].uid = calls[d][t].uid
         \/ calls'[d][t].uid \in User /\ UserExists(d, calls'[d][t].uid)
  <2>1. CASE AddUserRead(c, s)
    BY <2>1, SetCallShape, CallShape DEF AddUserRead, At, Continue, End, NoCall
  <2>2. CASE AttendeeUserRead(c, s)
    BY <2>2, SetCallShape, CallShape DEF AttendeeUserRead, At, Continue, End, NoCall
  <2>3. CASE AttendeeEventRead(c, s)
    BY <2>3, SetCallShape, CallShape DEF AttendeeEventRead, At, Continue, End, NoCall
  <2>4. CASE DeleteRead(c, s)
    BY <2>4, SetCallShape, CallShape DEF DeleteRead, At, Continue, End, NoCall
  <2>5. QED BY <2>1, <2>2, <2>3, <2>4
<1>2. UNCHANGED <<users, events, queue, answers>>
  BY DEF AddUserRead, AttendeeUserRead, AttendeeEventRead, DeleteRead, serverVars
<1>3. JoinersAreUsers'
  BY <1>1, <1>2, SameReads, JoinersKept DEF AccountsInv
<1>4. QED
  BY <1>2, <1>3, QuietAccounts

LEMMA AccountsWrites ==
    ASSUME TypeOK, AccountsInv, NEW c \in Client, NEW s \in Slot,
           AddUserWrite(c, s) \/ AttendeeWrite(c, s) \/ DeleteWrite(c, s)
    PROVE  AccountsInv'
<1>1. ASSUME NEW m \in Mutation, m.kind = "union" => UserExists(c, m.uid),
             Enqueue(c, m), End(c, s), UNCHANGED <<users, events, answers>>
      PROVE  AccountsInv'
  <2>1. /\ JoinsAreBacked' /\ AccountsAreTaken' /\ AttendeesHaveAccounts'
        /\ \A d \in Client, u \in User : UserExists(d, u) => UserExists(d, u)'
    BY <1>1, EnqueueAccounts
  <2>2. \A d \in Client, t \in Slot :
           calls'[d][t] = calls[d][t] \/ calls'[d][t].op # "addAttendee"
    BY <1>1, SetCallShape DEF End, NoCall
  <2>3. QED
    BY <2>1, <2>2, JoinersKept DEF AccountsInv
<1>2. CASE AddUserWrite(c, s)
  <2>1. NewUser(UserOf[c]) \in Mutation /\ NewUser(UserOf[c]).kind # "union"
    BY ClientAssumption DEF NewUser, Mutation
  <2>2. QED
    BY <1>1, <1>2, <2>1 DEF AddUserWrite, serverVars
<1>3. CASE AttendeeWrite(c, s)
  <2> DEFINE m == Write("union", calls[c][s].event, calls[c][s].uid)
  <2>1. m \in Mutation /\ m.uid = calls[c][s].uid
    BY <1>3, CallShape DEF AttendeeWrite, At, Write, Mutation, WriteKind, UserId
  <2>2. UserExists(c, m.uid)
    BY <1>3, <2>1 DEF AttendeeWrite, At, AccountsInv, JoinersAreUsers
  <2>3. QED
    BY <1>1, <1>3, <2>1, <2>2 DEF AttendeeWrite, serverVars
<1>4. CASE DeleteWrite(c, s)
  <2>1. /\ Write("delete", calls[c][s].event, calls[c][s].uid) \in Mutation
        /\ Write("delete", calls[c][s].event, calls[c][s].uid).kind # "union"
    BY <1>4, CallShape DEF DeleteWrite, At, Write, Mutation, WriteKind
  <2>2. QED
    BY <1>1, <1>4, <2>1 DEF DeleteWrite, serverVars
<1>5. QED BY <1>2, <1>3, <1>4

\* The writes ahead of the one the server handles next are answered, so the
\* accounts among them are there.
LEMMA NextIsBacked ==
    ASSUME TypeOK, AccountsInv, NEW c \in Client, Unhandled(c), NextWrite(c).kind = "union"
    PROVE  NextWrite(c).uid \in users
<1> DEFINE n == Len(answers[c]) + 1
<1>1. n \in DOMAIN queue[c] /\ NextWrite(c) = queue[c][n]
  BY NextType
<1>2. CASE queue[c][n].uid \in users
  BY <1>1, <1>2
<1>3. CASE \E j \in 1..(n - 1) : queue[c][j] = NewUser(queue[c][n].uid)
  <2>1. PICK j \in 1..(n - 1) : queue[c][j] = NewUser(queue[c][n].uid)
    BY <1>3
  <2>2. j \in 1..Len(answers[c])
    BY AnswersShape
  <2>3. queue[c][j].kind = "user" /\ queue[c][j].uid = queue[c][n].uid
    BY <2>1 DEF NewUser
  <2>4. QED BY <1>1, <2>2, <2>3 DEF AccountsInv, AccountsAreTaken
<1>4. QED BY <1>1, <1>2, <1>3 DEF AccountsInv, JoinsAreBacked

\* The union the server handles has nothing ahead of it but what the server has.
LEMMA AccountsCommit ==
    ASSUME TypeOK, AccountsInv, NEW c \in Client, Commit(c)
    PROVE  AccountsInv'
<1> DEFINE m == NextWrite(c)
           n == Len(answers[c]) + 1
<1>0. /\ m \in Mutation /\ m = queue[c][n] /\ n \in DOMAIN queue[c]
      /\ n \in Nat /\ 1..(n - 1) = 1..Len(answers[c])
  BY NextType, AnswersShape DEF Commit
<1>1. users \subseteq users' /\ UNCHANGED <<queue, calls>>
  BY DEF Commit, CommitUser, CommitEvent
<1>2. JoinsAreBacked'
  BY <1>1 DEF AccountsInv, JoinsAreBacked, NewUser
<1>3. JoinersAreUsers'
  BY <1>1 DEF AccountsInv, JoinersAreUsers, UserExists, NewUser
<1>4. AccountsAreTaken'
  <2>1. /\ Len(answers'[c]) = n
        /\ \A d \in Client : d # c => answers'[d] = answers[d]
    BY OneAnswer DEF Commit
  <2>2. m.kind = "user" => m.uid \in users'
    BY DEF Commit, CommitUser, CommitEvent
  <2>3. ASSUME NEW d \in Client, NEW i \in 1..Len(answers'[d]), queue[d][i].kind = "user"
        PROVE  queue[d][i].uid \in users'
    <3>1. CASE d = c /\ i = n
      BY <1>0, <2>2, <2>3, <3>1
    <3>2. CASE ~(d = c /\ i = n)
      <4>1. i \in 1..Len(answers[d])
        BY <1>0, <2>1, <2>3, <3>2, AnswersShape
      <4>2. QED BY <1>1, <2>3, <4>1 DEF AccountsInv, AccountsAreTaken
    <3>3. QED BY <3>1, <3>2
  <2>4. QED BY <1>1, <2>3 DEF AccountsAreTaken
<1>5. AttendeesHaveAccounts'
  <2>1. CASE CommitUser(c, m)
    BY <1>1, <2>1 DEF CommitUser, AccountsInv, AttendeesHaveAccounts
  <2>2. CASE CommitEvent(c, m)
    <3>1. m.kind = "union" => m.uid \in users
      BY <1>0, NextIsBacked DEF Commit
    <3>2. Applied(m, events[m.event]).attendees
             \subseteq events[m.event].attendees \cup (IF m.kind = "union" THEN {m.uid} ELSE {})
      BY <1>0, <2>2 DEF CommitEvent, Applied, NewEvent, Deleted, TypeOK, Doc, Mutation, WriteKind
    <3>3. \A e \in Event : events[e].attendees \subseteq users
      BY DEF AccountsInv, AttendeesHaveAccounts
    <3>4. \A e \in Event : events'[e] = events[e]
             \/ (e = m.event /\ events'[e] = Applied(m, events[m.event]))
      BY <2>2 DEF CommitEvent, TypeOK
    <3>5. QED
      BY <1>0, <2>2, <3>1, <3>2, <3>3, <3>4
         DEF CommitEvent, AttendeesHaveAccounts, Mutation
  <2>3. QED BY <2>1, <2>2 DEF Commit
<1>6. QED BY <1>2, <1>3, <1>4, <1>5 DEF AccountsInv

\* The write leaving the queue is an account the server has by now, or one
\* nobody counts on.
LEMMA AccountsAcknowledge ==
    ASSUME TypeOK, AccountsInv, NEW c \in Client, Acknowledge(c)
    PROVE  AccountsInv'
<1>0. queue[c] # <<>> /\ 1 \in 1..Len(answers[c])
  <2>1. answers[c] # <<>>
    BY DEF Acknowledge
  <2>2. QED BY <2>1, AnswersShape
<1>1. /\ UNCHANGED <<users, events>>
      /\ queue' = [queue EXCEPT ![c] = Tail(@)]
      /\ answers' = [answers EXCEPT ![c] = Tail(@)]
  BY DEF Acknowledge, serverVars
<1>2. /\ \A d \in Client : d # c => queue'[d] = queue[d]
      /\ queue'[c] = Tail(queue[c])
      /\ \A i \in DOMAIN queue'[c] : i + 1 \in DOMAIN queue[c] /\ queue'[c][i] = queue[c][i + 1]
      /\ DOMAIN queue'[c] = 1..(Len(queue[c]) - 1)
      /\ DOMAIN queue[c] = 1..Len(queue[c]) /\ Len(queue[c]) \in Nat
  BY <1>0, <1>1, HeadType DEF TypeOK
<1>3. \A u \in User : queue[c][1] = NewUser(u) => u \in users
  BY <1>0 DEF AccountsInv, AccountsAreTaken, NewUser
<1>4. \A d \in Client, u \in User : UserExists(d, u) => UserExists(d, u)'
  <2> SUFFICES ASSUME NEW d \in Client, NEW u \in User, UserExists(d, u),
                      u \notin users
               PROVE  UserExists(d, u)'
    BY <1>1 DEF UserExists, NewUser
  <2>1. PICK i \in DOMAIN queue[d] : queue[d][i] = NewUser(u)
    BY DEF UserExists
  <2>2. CASE d # c
    BY <1>2, <2>1, <2>2 DEF UserExists, NewUser
  <2>3. CASE d = c
    <3>1. i - 1 \in DOMAIN queue'[c] /\ queue'[c][i - 1] = NewUser(u)
      BY <1>2, <1>3, <2>1, <2>3
    <3>2. QED BY <2>3, <3>1 DEF UserExists, NewUser
  <2>4. QED BY <2>2, <2>3
<1>5. JoinsAreBacked'
  <2> SUFFICES ASSUME NEW d \in Client, NEW i \in DOMAIN queue'[d],
                      queue'[d][i].kind = "union", queue'[d][i].uid \notin users
               PROVE  \E j \in 1..(i - 1) : queue'[d][j] = NewUser(queue'[d][i].uid)
    BY <1>1 DEF JoinsAreBacked, NewUser
  <2>1. CASE d # c
    BY <1>2, <2>1 DEF AccountsInv, JoinsAreBacked
  <2>2. CASE d = c
    <3>0. i \in DOMAIN queue'[c]
      BY <2>2
    <3>1. i + 1 \in DOMAIN queue[c] /\ queue'[c][i] = queue[c][i + 1] /\ i \in Nat
      BY <1>2, <3>0
    <3>2. queue[c][i + 1].uid \in User
      <4>1. queue[c][i + 1] \in Mutation /\ queue[c][1] \in Mutation
        BY <1>2, <3>1 DEF TypeOK
      <4>2. \E j \in 1..((i + 1) - 1) : queue[c][j] = NewUser(queue[c][i + 1].uid)
        BY <2>2, <3>1 DEF AccountsInv, JoinsAreBacked
      <4>3. PICK j \in 1..i : queue[c][j] = NewUser(queue[c][i + 1].uid)
        BY <3>1, <4>2
      <4>4. queue[c][j] \in Mutation
        BY <1>2, <3>1, <4>3 DEF TypeOK
      <4>5. QED BY <4>3, <4>4 DEF Mutation, NewUser
    <3>3. PICK j \in 1..i : queue[c][j] = NewUser(queue[c][i + 1].uid)
      BY <2>2, <3>1 DEF AccountsInv, JoinsAreBacked
    <3>4. j # 1
      BY <1>3, <2>2, <3>1, <3>2, <3>3
    <3>5. j - 1 \in 1..(i - 1) /\ queue'[c][j - 1] = queue[c][j]
      BY <1>2, <3>1, <3>3, <3>4
    <3>6. QED BY <2>2, <3>1, <3>3, <3>5
  <2>3. QED BY <2>1, <2>2
<1>6. JoinersAreUsers'
  <2>1. \A d \in Client, t \in Slot :
           \/ calls'[d][t] = calls[d][t]
           \/ calls'[d][t].op # "addAttendee" \/ calls'[d][t].at = "user"
    BY DEF Acknowledge, TypeOK, AfterAck, EventCall, NoCall
  <2>2. QED BY <1>4, <2>1, JoinersKept DEF AccountsInv
<1>7. AccountsAreTaken' /\ AttendeesHaveAccounts'
  <2>1. AttendeesHaveAccounts'
    BY <1>1 DEF AccountsInv, AttendeesHaveAccounts
  <2>2. ASSUME NEW d \in Client, NEW i \in 1..Len(answers'[d]), queue'[d][i].kind = "user"
        PROVE  queue'[d][i].uid \in users
    <3>1. /\ \A b \in Client : b # c => answers'[b] = answers[b]
          /\ Len(answers'[c]) = Len(answers[c]) - 1
      <4>1. answers'[c] = Tail(answers[c]) /\ \A b \in Client : b # c => answers'[b] = answers[b]
        BY <1>1 DEF TypeOK
      <4>2. QED BY <1>0, <4>1, AnswersShape
    <3>2. CASE d # c
      BY <1>2, <2>2, <3>1, <3>2 DEF AccountsInv, AccountsAreTaken
    <3>3. CASE d = c
      <4>1. i \in 1..(Len(answers[c]) - 1)
        BY <2>2, <3>1, <3>3
      <4>2. i \in DOMAIN queue'[c] /\ i + 1 \in 1..Len(answers[c])
        BY <1>2, <4>1, AnswersShape
      <4>3. queue'[c][i] = queue[c][i + 1]
        BY <1>2, <4>2
      <4>4. QED BY <2>2, <3>3, <4>2, <4>3 DEF AccountsInv, AccountsAreTaken
    <3>4. QED BY <3>2, <3>3
  <2>3. AccountsAreTaken'
    BY <1>1, <2>2 DEF AccountsAreTaken
  <2>4. QED BY <2>1, <2>3
<1>8. QED BY <1>5, <1>6, <1>7 DEF AccountsInv

LEMMA AccountsFaults ==
    ASSUME "user" \notin MayFail, TypeOK, AccountsInv, NEW c \in Client,
           Refuse(c) \/ Resend(c) \/ Crash(c)
    PROVE  AccountsInv'
<1>1. UNCHANGED <<users, events, queue>>
  BY DEF Refuse, Resend, Crash, serverVars
<1>2. \A d \in Client, t \in Slot :
         calls'[d][t] = calls[d][t] \/ calls'[d][t].op # "addAttendee"
  <2>1. CASE Refuse(c) \/ Resend(c)
    BY <2>1 DEF Refuse, Resend
  <2>2. CASE Crash(c)
    BY <2>2 DEF Crash, TypeOK, NoCall
  <2>3. QED BY <2>1, <2>2
<1>3. JoinersAreUsers'
  BY <1>1, <1>2, SameReads, JoinersKept DEF AccountsInv
<1>4. AccountsAreTaken'
  <2>1. CASE Refuse(c)
    <3>1. /\ Len(answers'[c]) = Len(answers[c]) + 1
          /\ \A d \in Client : d # c => answers'[d] = answers[d]
      BY <2>1, OneAnswer DEF Refuse
    <3>2. queue[c][Len(answers[c]) + 1].kind # "user"
      BY <2>1 DEF Refuse, NextWrite
    <3>3. ASSUME NEW d \in Client, NEW i \in 1..Len(answers'[d]), queue[d][i].kind = "user"
          PROVE  i \in 1..Len(answers[d])
      BY <3>1, <3>2, <3>3, AnswersShape
    <3>4. QED BY <1>1, <3>3 DEF AccountsInv, AccountsAreTaken
  <2>2. CASE Resend(c) \/ Crash(c)
    <3>1. \A d \in Client : answers'[d] = answers[d] \/ answers'[d] = <<>>
      BY <2>2 DEF Resend, Crash, TypeOK
    <3>2. \A d \in Client : \A i \in 1..Len(answers'[d]) : i \in 1..Len(answers[d])
      BY <3>1
    <3>3. QED BY <1>1, <3>2 DEF AccountsInv, AccountsAreTaken
  <2>3. QED BY <2>1, <2>2
<1>5. JoinsAreBacked' /\ AttendeesHaveAccounts'
  BY <1>1 DEF AccountsInv, JoinsAreBacked, AttendeesHaveAccounts, NewUser
<1>6. QED BY <1>3, <1>4, <1>5 DEF AccountsInv

LEMMA AccountsStep ==
    ASSUME "user" \notin MayFail
    PROVE  TypeOK /\ AccountsInv /\ [Next]_vars => AccountsInv'
<1> SUFFICES ASSUME TypeOK, AccountsInv, [Next]_vars PROVE AccountsInv'
  OBVIOUS
<1>1. CASE UNCHANGED vars
  BY <1>1 DEF vars, serverVars, clientVars, AccountsInv, JoinsAreBacked, JoinersAreUsers,
     UserExists, AccountsAreTaken, AttendeesHaveAccounts, NewUser
<1>2. ASSUME NEW c \in Client, Environment(c) PROVE AccountsInv'
  BY <1>2, AccountsSignIn, AccountsTaps, AccountsFaults DEF Environment
<1>3. ASSUME NEW c \in Client, Network(c) PROVE AccountsInv'
  BY <1>3, AccountsSignIn, AccountsCommit, AccountsAcknowledge DEF Network
<1>4. ASSUME NEW c \in Client, NEW s \in Slot, Chain(c, s) PROVE AccountsInv'
  BY <1>4, AccountsReads, AccountsWrites DEF Chain
<1>5. QED BY <1>1, <1>2, <1>3, <1>4 DEF Next

\* If the backend never refuses an account: on every device the account's
\* write is ahead of every write, chain and pending read that counts on it,
\* through any interleaving, crash, refusal, failed read or resent write.
THEOREM AccountsStayAhead ==
    ASSUME "user" \notin MayFail
    PROVE  Spec => []AccountsInv
<1>1. Init => AccountsInv
  BY DEF Init, AccountsInv, JoinsAreBacked, JoinersAreUsers, AccountsAreTaken,
     AttendeesHaveAccounts, NoCall, Unborn
<1>2. QED BY <1>1, AccountsStep, TypeCorrect, PTL DEF Spec

\* ... so that every attendee of every event has an account.
THEOREM AccountsFirst ==
    ASSUME "user" \notin MayFail
    PROVE  Spec => []AttendeesHaveAccounts
<1>1. AccountsInv => AttendeesHaveAccounts
  BY DEF AccountsInv
<1>2. QED BY <1>1, AccountsStayAhead, PTL

-----------------------------------------------------------------------------
(***************************************************************************)
(* The refinement of EventBoard: the inductive invariant that ties every   *)
(* chain, queued write and document to the request it comes from, and the  *)
(* mapping of every step to a step of the board or to none.                *)
(***************************************************************************)

AskedToAttend(u, e) == Ask("join", u, e) \in asked \/ Ask("create", u, e) \in asked

AskedToCreate(e) == \E u \in UserId : Ask("create", u, e) \in asked

SetsEvent(m, e) == m.kind = "event" /\ m.event = e

\* The i-th write of a client's queue may still be applied: the server has not
\* handled it, or may handle it again.
Open(c, i) == i > Len(answers[c]) \/ Redelivery

\* Whoever asked for this event has asked for its deletion.
DeletionAsked(e) ==
    \A v \in UserId : Ask("create", v, e) \in asked => Ask("delete", v, e) \in asked

\* No live document of this event, and none to come.
Gone(e) ==
    /\ ~IsLive(events[e])
    /\ \A c \in Client : \A i \in DOMAIN queue[c] : SetsEvent(queue[c][i], e) => ~Open(c, i)

\* If a deletion of this event finds a document, its owner asked for one.
MayDelete(e) == Gone(e) \/ DeletionAsked(e)

\* There was a document already, or its creation is in this device's queue only.
SeenFrom(c, e) ==
    \/ events[e].state # "unborn"
    \/ \A d \in Client : \A i \in DOMAIN queue[d] : SetsEvent(queue[d][i], e) => d = c

\* A chain is at work for somebody who asked for it, on an event the device
\* has seen, and about to delete only what its owner wants deleted.
ChainBacked(c, call) ==
    /\ call.op = "addUser" => UserOf[c] \in Columbia
    /\ call.op = "addAttendee" => AskedToAttend(call.uid, call.event)
    /\ call.op = "deleteEvent" => /\ Ask("delete", call.uid, call.event) \in asked
                                  /\ AskedToCreate(call.event)
                                  /\ SeenFrom(c, call.event)
                                  /\ call.at = "write" => MayDelete(call.event)

ChainsBacked == \A c \in Client, s \in Slot : ChainBacked(c, calls[c][s])

\* So was a queued write.
WriteBacked(m) ==
    /\ m.kind = "user" => m.uid \in Columbia
    /\ m.kind = "event" => Ask("create", m.uid, m.event) \in asked
    /\ m.kind = "union" => AskedToAttend(m.uid, m.event)
    /\ m.kind = "remove" => m.uid \in User /\ Ask("leave", m.uid, m.event) \in asked
    /\ m.kind = "delete" => AskedToCreate(m.event) /\ MayDelete(m.event)

WritesBacked == \A c \in Client : \A i \in DOMAIN queue[c] : WriteBacked(queue[c][i])

\* An id is asked for by one user only.
OneCreator ==
    \A e \in Event, u, v \in UserId :
        (Ask("create", u, e) \in asked /\ Ask("create", v, e) \in asked) => u = v

\* An event that exists was asked for by its owner, one that did by somebody,
\* who has asked for its deletion if it is deleted.
DocsAsked ==
    \A e \in Event :
        /\ IsLive(events[e]) => Ask("create", events[e].ownerID, e) \in asked
        /\ events[e].state = "deleted" => DeletionAsked(e)
        /\ events[e].state # "unborn" => AskedToCreate(e)
        /\ events[e].state = "unborn" => events[e] = Unborn

\* The document of an event is set by one queued write at most, and one that
\* the server has still to handle finds no document there, unless it was
\* applied before.
SetsOnce ==
    \A e \in Event, c \in Client : \A i \in DOMAIN queue[c] :
        SetsEvent(queue[c][i], e) =>
            /\ Open(c, i) => events[e].state = "unborn" \/ Redelivery
            /\ \A d \in Client : \A j \in DOMAIN queue[d] :
                  SetsEvent(queue[d][j], e) => (d = c /\ j = i)

BoardInv == ChainsBacked /\ WritesBacked /\ OneCreator /\ DocsAsked /\ SetsOnce

-----------------------------------------------------------------------------
(* What is backed stays backed *)

\* What every step leaves alone: requests are not forgotten, an id asked for
\* gets no second creator and no further write that sets it, an event that is
\* gone stays gone and one that was born is never unborn again.
Steady ==
    /\ asked \subseteq asked'
    /\ \A e \in Event : AskedToCreate(e) =>
          /\ \A v \in UserId : Ask("create", v, e) \in asked' => Ask("create", v, e) \in asked
          /\ Gone(e) => Gone(e)'
          /\ events'[e].state = "unborn" => events[e].state = "unborn"
          /\ \A d \in Client : \A i \in DOMAIN queue'[d] :
                SetsEvent(queue'[d][i], e) =>
                    \E j \in DOMAIN queue[d] : SetsEvent(queue[d][j], e)

LEMMA SteadyFacts ==
    ASSUME Steady, NEW e \in Event, AskedToCreate(e)
    PROVE  /\ AskedToCreate(e)'
           /\ MayDelete(e) => MayDelete(e)'
           /\ \A c \in Client : SeenFrom(c, e) => SeenFrom(c, e)'
<1>1. AskedToCreate(e)'
  BY DEF Steady, AskedToCreate, Ask
<1>2. ASSUME MayDelete(e) PROVE MayDelete(e)'
  <2>1. CASE Gone(e)
    BY <2>1 DEF Steady, MayDelete
  <2>2. CASE DeletionAsked(e)
    BY <2>2 DEF Steady, MayDelete, DeletionAsked, Ask
  <2>3. QED BY <1>2, <2>1, <2>2 DEF MayDelete
<1>3. ASSUME NEW c \in Client, SeenFrom(c, e) PROVE SeenFrom(c, e)'
  BY <1>3 DEF Steady, SeenFrom, SetsEvent
<1>4. QED BY <1>1, <1>2, <1>3

LEMMA ChainStaysBacked ==
    ASSUME Steady, NEW c \in Client, NEW call \in Call \cup {NoCall}, ChainBacked(c, call)
    PROVE  ChainBacked(c, call)'
<1>1. CASE call.op \in {"addUser", "addAttendee"}
  BY <1>1 DEF ChainBacked, Steady, AskedToAttend, Ask
<1>2. CASE call.op = "deleteEvent"
  <2>1. call.event \in Event
    BY <1>2 DEF Call, NoCall
  <2>2. QED
    BY <1>2, <2>1, SteadyFacts DEF ChainBacked, Steady, Ask
<1>3. CASE call.op \notin {"addUser", "addAttendee", "deleteEvent"}
  BY <1>3 DEF ChainBacked
<1>4. QED BY <1>1, <1>2, <1>3

LEMMA WriteStaysBacked ==
    ASSUME Steady, NEW m \in Mutation, WriteBacked(m)
    PROVE  WriteBacked(m)'
<1>1. CASE m.kind = "delete"
  <2>1. m.event \in Event
    BY <1>1 DEF Mutation, WriteKind
  <2>2. QED
    BY <1>1, <2>1, SteadyFacts DEF WriteBacked
<1>2. CASE m.kind # "delete"
  BY <1>2 DEF WriteBacked, Steady, AskedToAttend, Ask
<1>3. QED BY <1>1, <1>2

\* What the steps do to the requests: no id gets a second creator.
AskedGrows ==
    /\ asked \subseteq asked'
    /\ \A e \in Event, v \in UserId :
          AskedToCreate(e) /\ Ask("create", v, e) \in asked' => Ask("create", v, e) \in asked

LEMMA TapGrows ==
    ASSUME NEW c \in Client, NEW e \in Event, NEW op, Tap(c, op, e),
           op = "create" => ~AskedToCreate(e)
    PROVE  AskedGrows
BY DEF Tap, AskedGrows, Ask

\* No write is open again that was not.
OpenShrinks == \A d \in Client : \A i \in DOMAIN queue[d] : Open(d, i)' => Open(d, i)

LEMMA SameOpen ==
    ASSUME UNCHANGED answers
    PROVE  OpenShrinks
BY DEF OpenShrinks, Open

\* The write that is answered is open no more, if nothing is resent.
LEMMA AnswerCloses ==
    ASSUME TypeOK, NEW c \in Client, NEW a \in {"ok", "error"}, Unhandled(c),
           answers' = [answers EXCEPT ![c] = Append(@, a)]
    PROVE  /\ OpenShrinks
           /\ \A d \in Client : \A i \in DOMAIN queue[d] :
                 Open(d, i)' => Redelivery \/ ~(d = c /\ i = Len(answers[c]) + 1)
           /\ Open(c, Len(answers[c]) + 1)
<1>1. ASSUME NEW d \in Client, NEW i \in DOMAIN queue[d], i > Len(answers'[d])
      PROVE  i > Len(answers[d]) /\ ~(d = c /\ i = Len(answers[c]) + 1)
  <2>1. CASE d = c
    <3>1. Len(answers[c]) \in Nat /\ Len(answers'[c]) = Len(answers[c]) + 1
      BY OneAnswer, AnswersShape
    <3>2. i \in Nat
      <4>1. DOMAIN queue[d] = 1..Len(queue[d])
        BY AnswersShape
      <4>2. QED BY <1>1, <4>1
    <3>3. QED BY <1>1, <2>1, <3>1, <3>2
  <2>2. CASE d # c
    BY <1>1, <2>2, OneAnswer
  <2>3. QED BY <2>1, <2>2
<1>2. Len(answers[c]) + 1 > Len(answers[c])
  BY AnswersShape
<1>3. QED BY <1>1, <1>2 DEF OpenShrinks, Open

LEMMA SteadyQuiet ==
    ASSUME TypeOK, AskedGrows, UNCHANGED <<events, queue>>, OpenShrinks
    PROVE  Steady
<1>1. ASSUME NEW e \in Event, Gone(e) PROVE Gone(e)'
  <2> SUFFICES ASSUME NEW d \in Client, NEW i \in DOMAIN queue[d], SetsEvent(queue[d][i], e)
               PROVE  ~Open(d, i)'
    BY <1>1 DEF Gone, SetsEvent, IsLive, Open
  <2>1. QED BY <1>1 DEF Gone, OpenShrinks
<1>2. QED
  BY <1>1 DEF Steady, AskedGrows

LEMMA SteadyEnqueue ==
    ASSUME TypeOK, AskedGrows, UNCHANGED <<events, answers>>,
           NEW c \in Client, NEW m \in Mutation, Enqueue(c, m),
           m.kind = "event" => ~AskedToCreate(m.event)
    PROVE  Steady
<1>1. ASSUME NEW e \in Event, AskedToCreate(e),
             NEW d \in Client, NEW i \in DOMAIN queue'[d], SetsEvent(queue'[d][i], e)
      PROVE  i \in DOMAIN queue[d] /\ SetsEvent(queue[d][i], e)
  BY <1>1, EnqueueShape DEF SetsEvent
<1>2. ASSUME NEW e \in Event, AskedToCreate(e), Gone(e) PROVE Gone(e)'
  BY <1>1, <1>2 DEF Gone, Open, IsLive, SetsEvent
<1>3. QED
  BY <1>1, <1>2 DEF Steady, AskedGrows

\* The server sets a document only where none was, so a document that is gone
\* does not come back.
LEMMA CommitDocs ==
    ASSUME TypeOK, NEW c \in Client, CommitEvent(c, NextWrite(c)), Unhandled(c)
    PROVE  LET m == NextWrite(c)
               n == Len(answers[c]) + 1
           IN  /\ m \in Mutation /\ m.event \in Event /\ m = queue[c][n] /\ n \in DOMAIN queue[c]
               /\ \A e \in Event : e # m.event => events'[e] = events[e]
               /\ events'[m.event] = Applied(m, events[m.event])
               /\ events'[m.event].state = "unborn" => events[m.event].state = "unborn"
               /\ IsLive(events'[m.event]) => IsLive(events[m.event]) \/ m.kind = "event"
<1> DEFINE m == NextWrite(c)
           n == Len(answers[c]) + 1
<1>1. m \in Mutation /\ m = queue[c][n] /\ n \in DOMAIN queue[c]
  BY NextType
<1>2. m.event \in Event /\ m.kind \in {"event", "union", "remove", "delete"}
  BY <1>1 DEF CommitEvent, Mutation, WriteKind
<1>3. /\ \A e \in Event : e # m.event => events'[e] = events[e]
      /\ events'[m.event] = Applied(m, events[m.event])
  BY <1>2 DEF CommitEvent, TypeOK
<1>4. events[m.event] \in Doc
  BY <1>2 DEF TypeOK
<1>5. /\ events'[m.event].state = "unborn" => events[m.event].state = "unborn"
      /\ IsLive(events'[m.event]) => IsLive(events[m.event]) \/ m.kind = "event"
  BY <1>2, <1>3, <1>4 DEF Applied, IsLive, NewEvent, Deleted, Doc
<1>6. QED BY <1>1, <1>2, <1>3, <1>5

LEMMA SteadyCommit ==
    ASSUME TypeOK, NEW c \in Client, Commit(c)
    PROVE  Steady
<1> DEFINE m == NextWrite(c)
<1>1. UNCHANGED <<queue, asked>> /\ Unhandled(c)
  BY DEF Commit
<1>2. OpenShrinks /\ Open(c, Len(answers[c]) + 1)
  BY AnswerCloses DEF Commit
<1>3. ASSUME NEW e \in Event, Gone(e)
      PROVE  ~IsLive(events'[e]) /\ (events'[e].state = "unborn" => events[e].state = "unborn")
  <2>1. CASE CommitUser(c, m)
    BY <1>3, <2>1 DEF CommitUser, Gone
  <2>2. CASE CommitEvent(c, m)
    <3>1. e # m.event => events'[e] = events[e]
      BY <1>1, <2>2, CommitDocs
    <3>2. e = m.event => ~SetsEvent(m, e)
      BY <1>1, <1>2, <1>3, <2>2, CommitDocs DEF Gone
    <3>3. QED
      BY <1>1, <1>3, <2>2, <3>1, <3>2, CommitDocs DEF Gone, SetsEvent
  <2>3. QED BY <2>1, <2>2 DEF Commit
<1>4. ASSUME NEW e \in Event, Gone(e) PROVE Gone(e)'
  <2> SUFFICES ASSUME NEW d \in Client, NEW i \in DOMAIN queue[d], SetsEvent(queue[d][i], e)
               PROVE  ~Open(d, i)'
    BY <1>1, <1>3, <1>4 DEF Gone, SetsEvent, IsLive, Open
  <2>1. QED BY <1>2, <1>4 DEF Gone, OpenShrinks
<1>5. ASSUME NEW e \in Event, events'[e].state = "unborn" PROVE events[e].state = "unborn"
  <2>1. CASE CommitUser(c, m)
    BY <1>5, <2>1 DEF CommitUser
  <2>2. CASE CommitEvent(c, m)
    BY <1>1, <1>5, <2>2, CommitDocs
  <2>3. QED BY <2>1, <2>2 DEF Commit
<1>6. QED
  BY <1>1, <1>4, <1>5 DEF Steady

\* The write that leaves was answered, so what is gone was not waiting for it.
LEMMA AckShape ==
    ASSUME TypeOK, NEW c \in Client, Acknowledge(c)
    PROVE  /\ UNCHANGED <<users, events, asked>>
           /\ 1 \in DOMAIN queue[c] /\ Head(queue[c]) = queue[c][1] /\ queue[c][1] \in Mutation
           /\ \A d \in Client : d # c => queue'[d] = queue[d] /\ answers'[d] = answers[d]
           /\ \A i \in DOMAIN queue'[c] : /\ i \in Nat
                                          /\ i + 1 \in DOMAIN queue[c]
                                          /\ queue'[c][i] = queue[c][i + 1]
           /\ Len(answers'[c]) = Len(answers[c]) - 1
<1>1. answers[c] # <<>> /\ queue[c] # <<>> /\ queue[c] \in Seq(Mutation)
  <2>1. answers[c] # <<>>
    BY DEF Acknowledge
  <2>2. QED BY <2>1, AnswersShape
<1>2. /\ Head(queue[c]) = queue[c][1] /\ 1 \in DOMAIN queue[c]
      /\ Head(queue[c]) \in Mutation /\ Tail(queue[c]) \in Seq(Mutation)
      /\ \A i \in DOMAIN Tail(queue[c]) :
            i + 1 \in DOMAIN queue[c] /\ Tail(queue[c])[i] = queue[c][i + 1]
  BY <1>1, HeadType
<1>3. /\ \A i \in DOMAIN Tail(queue[c]) : i \in Nat
      /\ Len(Tail(answers[c])) = Len(answers[c]) - 1
  BY <1>1, <1>2, AnswersShape
<1>4. /\ UNCHANGED <<users, events, asked>>
      /\ queue'[c] = Tail(queue[c]) /\ answers'[c] = Tail(answers[c])
      /\ \A d \in Client : d # c => queue'[d] = queue[d] /\ answers'[d] = answers[d]
  BY DEF Acknowledge, serverVars, TypeOK
<1>5. QED BY <1>1, <1>2, <1>3, <1>4

\* The writes that stay are as open as they were.
LEMMA AckOpen ==
    ASSUME TypeOK, NEW c \in Client, Acknowledge(c),
           NEW d \in Client, NEW i \in DOMAIN queue'[d]
    PROVE  \E j \in DOMAIN queue[d] : queue'[d][i] = queue[d][j] /\ (Open(d, i)' => Open(d, j))
<1>1. CASE d # c
  BY <1>1, AckShape DEF Open
<1>2. CASE d = c
  <2>1. i \in Nat /\ i + 1 \in DOMAIN queue[c] /\ queue'[c][i] = queue[c][i + 1]
    BY <1>2, AckShape
  <2>2. i > Len(answers'[c]) => i + 1 > Len(answers[c])
    BY <2>1, AckShape, AnswersShape
  <2>3. Open(c, i)' => Open(c, i + 1)
    BY <2>2 DEF Open
  <2>4. QED BY <1>2, <2>1, <2>3
<1>3. QED BY <1>1, <1>2

LEMMA SteadyAcknowledge ==
    ASSUME TypeOK, NEW c \in Client, Acknowledge(c)
    PROVE  Steady
<1>1. ASSUME NEW e \in Event, Gone(e) PROVE Gone(e)'
  <2> SUFFICES ASSUME NEW d \in Client, NEW i \in DOMAIN queue'[d], SetsEvent(queue'[d][i], e)
               PROVE  ~Open(d, i)'
    BY <1>1, AckShape DEF Gone, IsLive, SetsEvent, Open
  <2>1. PICK j \in DOMAIN queue[d] : queue'[d][i] = queue[d][j] /\ (Open(d, i)' => Open(d, j))
    BY AckOpen
  <2>2. QED BY <1>1, <2>1 DEF Gone
<1>2. ASSUME NEW e \in Event, NEW d \in Client, NEW i \in DOMAIN queue'[d],
             SetsEvent(queue'[d][i], e)
      PROVE  \E j \in DOMAIN queue[d] : SetsEvent(queue[d][j], e)
  <2>1. CASE d # c
    BY <1>2, <2>1, AckShape
  <2>2. CASE d = c
    BY <1>2, <2>2, AckShape
  <2>3. QED BY <2>1, <2>2
<1>3. QED
  BY <1>1, <1>2, AckShape DEF Steady

-----------------------------------------------------------------------------
(* Chains and writes come from requests *)

\* Each chain after the step is one that was backed before it or is now.
LEMMA ChainsKept ==
    ASSUME Steady,
           \A d \in Client, t \in Slot : \E call \in Call \cup {NoCall} :
              calls'[d][t] = call /\ (ChainBacked(d, call) \/ ChainBacked(d, call)')
    PROVE  ChainsBacked'
<1>1. \A d \in Client, t \in Slot : \E call \in Call \cup {NoCall} :
         calls'[d][t] = call /\ ChainBacked(d, call)'
  BY ChainStaysBacked
<1>2. SUFFICES ASSUME NEW d \in Client, NEW t \in Slot PROVE ChainBacked(d, calls[d][t])'
  BY DEF ChainsBacked
<1>3. PICK call \in Call \cup {NoCall} : calls'[d][t] = call /\ ChainBacked(d, call)'
  BY <1>1
<1>4. QED
  BY <1>3 DEF ChainBacked

LEMMA WritesKept ==
    ASSUME Steady,
           \A d \in Client : \A i \in DOMAIN queue'[d] : \E m \in Mutation :
              queue'[d][i] = m /\ (WriteBacked(m) \/ WriteBacked(m)')
    PROVE  WritesBacked'
<1>1. \A d \in Client : \A i \in DOMAIN queue'[d] : \E m \in Mutation :
         queue'[d][i] = m /\ WriteBacked(m)'
  BY WriteStaysBacked
<1>2. SUFFICES ASSUME NEW d \in Client, NEW i \in DOMAIN queue'[d]
              PROVE  WriteBacked(queue[d][i])'
  BY DEF WritesBacked
<1>3. PICK m \in Mutation : queue'[d][i] = m /\ WriteBacked(m)'
  BY <1>1
<1>4. QED
  BY <1>3 DEF WriteBacked

\* A step that starts or continues one chain, with a backed call.
LEMMA OneChainKept ==
    ASSUME TypeOK, ChainsBacked, Steady, NEW c \in Client, NEW s \in Slot,
           NEW call \in Call \cup {NoCall}, SetCall(c, s, call),
           ChainBacked(c, call) \/ ChainBacked(c, call)'
    PROVE  ChainsBacked'
<1>1. ASSUME NEW d \in Client, NEW t \in Slot
      PROVE  \E k \in Call \cup {NoCall} :
                calls'[d][t] = k /\ (ChainBacked(d, k) \/ ChainBacked(d, k)')
  <2>1. CASE d = c /\ t = s
    BY <2>1, SetCallShape
  <2>2. CASE ~(d = c /\ t = s)
    BY <2>2, SetCallShape, CallShape DEF ChainsBacked
  <2>3. QED BY <2>1, <2>2
<1>2. QED BY <1>1, ChainsKept

LEMMA SameChainsKept ==
    ASSUME TypeOK, ChainsBacked, Steady, UNCHANGED calls
    PROVE  ChainsBacked'
<1>1. \A d \in Client, t \in Slot : \E call \in Call \cup {NoCall} :
         calls'[d][t] = call /\ ChainBacked(d, call)
  BY CallShape DEF ChainsBacked
<1>2. QED BY <1>1, ChainsKept

LEMMA EndKept ==
    ASSUME TypeOK, ChainsBacked, Steady, NEW c \in Client, NEW s \in Slot, End(c, s)
    PROVE  ChainsBacked'
BY OneChainKept DEF End, ChainBacked, NoCall

LEMMA SameWritesKept ==
    ASSUME TypeOK, WritesBacked, Steady, UNCHANGED queue
    PROVE  WritesBacked'
<1>1. \A d \in Client : \A i \in DOMAIN queue'[d] : \E m \in Mutation :
         queue'[d][i] = m /\ WriteBacked(m)
  BY DEF WritesBacked, TypeOK
<1>2. QED BY <1>1, WritesKept

LEMMA EnqueueKept ==
    ASSUME TypeOK, WritesBacked, Steady, NEW c \in Client, NEW m \in Mutation, Enqueue(c, m),
           WriteBacked(m) \/ WriteBacked(m)'
    PROVE  WritesBacked'
<1>1. ASSUME NEW d \in Client, NEW i \in DOMAIN queue'[d]
      PROVE  \E k \in Mutation : queue'[d][i] = k /\ (WriteBacked(k) \/ WriteBacked(k)')
  <2>1. CASE i \in DOMAIN queue[d]
    BY <2>1, EnqueueShape DEF WritesBacked, TypeOK
  <2>2. CASE i \notin DOMAIN queue[d]
    BY <2>2, EnqueueShape
  <2>3. QED BY <2>1, <2>2
<1>2. QED BY <1>1, WritesKept

-----------------------------------------------------------------------------
(* Documents come from writes, each set once *)

\* More requests change nothing about the documents there are.
LEMMA DocsStayAsked ==
    ASSUME DocsAsked, AskedGrows, UNCHANGED events
    PROVE  DocsAsked'
<1>1. ASSUME NEW e \in Event, AskedToCreate(e), DeletionAsked(e) PROVE DeletionAsked(e)'
  BY <1>1 DEF DeletionAsked, AskedGrows, Ask
<1>2. ASSUME NEW e \in Event, events[e].state = "deleted" PROVE DeletionAsked(e)'
  BY <1>1, <1>2 DEF DocsAsked
<1>3. QED
  BY <1>2 DEF DocsAsked, AskedGrows, AskedToCreate, Ask, IsLive, Unborn

LEMMA SetsKeptQuiet ==
    ASSUME SetsOnce, DocsAsked, OneCreator, AskedGrows, UNCHANGED <<events, queue>>, OpenShrinks
    PROVE  SetsOnce' /\ DocsAsked'
<1>1. SetsOnce'
  <2>1. ASSUME NEW e \in Event, NEW d \in Client, NEW i \in DOMAIN queue[d],
               SetsEvent(queue[d][i], e), Open(d, i)'
        PROVE  events[e].state = "unborn" \/ Redelivery
    BY <2>1 DEF SetsOnce, OpenShrinks
  <2>2. QED BY <2>1 DEF SetsOnce, SetsEvent, Open
<1>2. DocsAsked'
  BY DocsStayAsked
<1>3. QED BY <1>1, <1>2

\* A write of another kind does not set a document; one that sets it is the
\* first that was ever asked for.
LEMMA SetsKeptEnqueue ==
    ASSUME TypeOK, SetsOnce, DocsAsked, WritesBacked, AskedGrows, UNCHANGED <<events, answers>>,
           NEW c \in Client, NEW m \in Mutation, Enqueue(c, m),
           m.kind = "event" => ~AskedToCreate(m.event)
    PROVE  SetsOnce' /\ DocsAsked'
<1>1. DocsAsked'
  BY DocsStayAsked
<1>2. ASSUME NEW e \in Event, SetsEvent(m, e)
      PROVE  /\ events[e].state = "unborn"
             /\ \A d \in Client : \A i \in DOMAIN queue[d] : ~SetsEvent(queue[d][i], e)
  <2>1. ~AskedToCreate(e)
    BY <1>2 DEF SetsEvent
  <2>2. events[e].state = "unborn"
    BY <2>1 DEF DocsAsked
  <2>3. ASSUME NEW d \in Client, NEW i \in DOMAIN queue[d], SetsEvent(queue[d][i], e)
        PROVE  FALSE
    <3>1. queue[d][i] \in Mutation /\ WriteBacked(queue[d][i])
      BY DEF TypeOK, WritesBacked
    <3>2. QED
      BY <2>1, <2>3, <3>1 DEF WriteBacked, SetsEvent, AskedToCreate, Mutation, WriteKind
  <2>4. QED BY <2>2, <2>3
<1>3. ASSUME NEW e \in Event, NEW d \in Client, NEW i \in DOMAIN queue'[d],
             SetsEvent(queue'[d][i], e)
      PROVE  \/ i \in DOMAIN queue[d] /\ SetsEvent(queue[d][i], e) /\ ~SetsEvent(m, e)
             \/ d = c /\ i = Len(queue[c]) + 1 /\ SetsEvent(m, e)
  BY <1>2, <1>3, EnqueueShape
<1>4. ASSUME NEW e \in Event, NEW d \in Client, NEW i \in DOMAIN queue'[d],
             SetsEvent(queue'[d][i], e), Open(d, i)'
      PROVE  events'[e].state = "unborn" \/ Redelivery
  BY <1>2, <1>3, <1>4 DEF SetsOnce, Open
<1>5. ASSUME NEW e \in Event,
             NEW d1 \in Client, NEW i1 \in DOMAIN queue'[d1], SetsEvent(queue'[d1][i1], e),
             NEW d2 \in Client, NEW i2 \in DOMAIN queue'[d2], SetsEvent(queue'[d2][i2], e)
      PROVE  d2 = d1 /\ i2 = i1
  BY <1>3, <1>5 DEF SetsOnce
<1>6. SetsOnce'
  BY <1>4, <1>5 DEF SetsOnce, SetsEvent, Open
<1>7. QED BY <1>1, <1>6

\* The server handles the one write that sets a document where none was.
LEMMA SetsKeptCommit ==
    ASSUME TypeOK, SetsOnce, DocsAsked, WritesBacked, NEW c \in Client, Commit(c)
    PROVE  SetsOnce' /\ DocsAsked'
<1> DEFINE m == NextWrite(c)
           n == Len(answers[c]) + 1
<1>0. /\ UNCHANGED <<queue, asked>> /\ Unhandled(c)
      /\ \A d \in Client : \A i \in DOMAIN queue[d] :
            Open(d, i)' => Open(d, i) /\ (Redelivery \/ ~(d = c /\ i = n))
  BY AnswerCloses DEF Commit, OpenShrinks
<1>1. CASE CommitUser(c, m)
  <2>1. UNCHANGED events
    BY <1>1 DEF CommitUser
  <2>2. SetsOnce'
    <3>1. ASSUME NEW e \in Event, NEW d \in Client, NEW i \in DOMAIN queue[d],
                 SetsEvent(queue[d][i], e), Open(d, i)'
          PROVE  events'[e].state = "unborn" \/ Redelivery
      BY <1>0, <2>1, <3>1 DEF SetsOnce
    <3>2. QED BY <1>0, <3>1 DEF SetsOnce, SetsEvent, Open
  <2>3. DocsAsked'
    BY <1>0, <2>1 DEF DocsAsked, DeletionAsked, AskedToCreate, Ask, IsLive, Unborn
  <2>4. QED BY <2>2, <2>3
<1>2. CASE CommitEvent(c, m)
  <2>1. /\ m \in Mutation /\ m.event \in Event /\ m = queue[c][n] /\ n \in DOMAIN queue[c]
        /\ \A e \in Event : e # m.event => events'[e] = events[e]
        /\ events'[m.event] = Applied(m, events[m.event])
    BY <1>0, <1>2, CommitDocs
  <2>2. events[m.event] \in Doc /\ WriteBacked(m) /\ m.kind \in {"event", "union", "remove", "delete"}
    BY <1>2, <2>1 DEF TypeOK, WritesBacked, CommitEvent, Mutation, WriteKind
  <2>3. CASE m.kind = "event"
    <3>1. events'[m.event] = NewEvent(m.uid) /\ Ask("create", m.uid, m.event) \in asked
          /\ m.uid \in UserId
      BY <2>1, <2>2, <2>3 DEF Applied, WriteBacked, Mutation, UserId
    <3>2. DocsAsked'
      <4> SUFFICES ASSUME NEW e \in Event
                   PROVE  /\ IsLive(events'[e]) => Ask("create", events'[e].ownerID, e) \in asked
                          /\ events'[e].state = "deleted" => DeletionAsked(e)
                          /\ events'[e].state # "unborn" => AskedToCreate(e)
                          /\ events'[e].state = "unborn" => events'[e] = Unborn
        BY <1>0 DEF DocsAsked, DeletionAsked, AskedToCreate, Ask, IsLive, Unborn
      <4>1. CASE e = m.event
        BY <3>1, <4>1 DEF NewEvent, AskedToCreate
      <4>2. CASE e # m.event
        BY <2>1, <4>2 DEF DocsAsked
      <4>3. QED BY <4>1, <4>2
    <3>3. ASSUME NEW e \in Event, NEW d \in Client, NEW i \in DOMAIN queue[d],
                 SetsEvent(queue[d][i], e), Open(d, i)'
          PROVE  events'[e].state = "unborn" \/ Redelivery
      <4> SUFFICES ASSUME ~Redelivery PROVE events'[e].state = "unborn"
        OBVIOUS
      <4>1. Open(d, i) /\ ~(d = c /\ i = n)
        BY <1>0, <3>3
      <4>2. e # m.event
        BY <2>1, <2>3, <3>3, <4>1 DEF SetsOnce, SetsEvent
      <4>3. QED BY <2>1, <3>3, <4>1, <4>2 DEF SetsOnce
    <3>4. SetsOnce'
      BY <1>0, <3>3 DEF SetsOnce, SetsEvent, Open
    <3>5. QED BY <3>2, <3>4
  <2>4. CASE m.kind # "event"
    <3>1. /\ events'[m.event].state = "unborn" <=> events[m.event].state = "unborn"
          /\ events[m.event].state = "unborn" => events'[m.event] = events[m.event]
          /\ IsLive(events'[m.event]) =>
                IsLive(events[m.event]) /\ events'[m.event].ownerID = events[m.event].ownerID
          /\ events'[m.event].state = "deleted" =>
                \/ events[m.event].state = "deleted"
                \/ m.kind = "delete" /\ IsLive(events[m.event])
      <4>1. Accepted(m, events[m.event])
        BY <1>2 DEF CommitEvent
      <4>2. m.kind \notin {"user", "event"}
        BY <2>2, <2>4
      <4>3. QED
        BY <2>1, <2>2, <4>1, <4>2, AppliedShape
    <3>2. DocsAsked'
      <4> SUFFICES ASSUME NEW e \in Event
                   PROVE  /\ IsLive(events'[e]) => Ask("create", events'[e].ownerID, e) \in asked
                          /\ events'[e].state = "deleted" => DeletionAsked(e)
                          /\ events'[e].state # "unborn" => AskedToCreate(e)
                          /\ events'[e].state = "unborn" => events'[e] = Unborn
        BY <1>0 DEF DocsAsked, DeletionAsked, AskedToCreate, Ask, IsLive, Unborn
      <4>1. CASE e = m.event
        <5>1. (m.kind = "delete" /\ IsLive(events[m.event])) => DeletionAsked(m.event)
          BY <2>2 DEF WriteBacked, MayDelete, Gone
        <5>2. QED BY <3>1, <4>1, <5>1 DEF DocsAsked
      <4>2. CASE e # m.event
        BY <2>1, <4>2 DEF DocsAsked
      <4>3. QED BY <4>1, <4>2
    <3>3. ASSUME NEW e \in Event, NEW d \in Client, NEW i \in DOMAIN queue[d],
                 SetsEvent(queue[d][i], e), Open(d, i)'
          PROVE  events'[e].state = "unborn" \/ Redelivery
      <4>1. events[e].state = "unborn" => events'[e].state = "unborn"
        BY <2>1, <3>1
      <4>2. QED BY <1>0, <3>3, <4>1 DEF SetsOnce
    <3>4. SetsOnce'
      BY <1>0, <3>3 DEF SetsOnce, SetsEvent, Open
    <3>5. QED BY <3>2, <3>4
  <2>5. QED BY <2>3, <2>4
<1>3. QED BY <1>1, <1>2 DEF Commit

LEMMA SetsKeptAcknowledge ==
    ASSUME TypeOK, SetsOnce, DocsAsked, NEW c \in Client, Acknowledge(c)
    PROVE  SetsOnce' /\ DocsAsked'
<1>1. DocsAsked'
  <2>1. AskedGrows
    BY AckShape DEF AskedGrows, Ask
  <2>2. QED BY <2>1, AckShape, DocsStayAsked
<1>2. ASSUME NEW e \in Event, NEW d \in Client, NEW i \in DOMAIN queue'[d],
             SetsEvent(queue'[d][i], e), Open(d, i)'
      PROVE  events'[e].state = "unborn" \/ Redelivery
  <2>1. PICK j \in DOMAIN queue[d] : queue'[d][i] = queue[d][j] /\ (Open(d, i)' => Open(d, j))
    BY AckOpen
  <2>2. QED BY <1>2, <2>1, AckShape DEF SetsOnce
<1>3. ASSUME NEW e \in Event,
             NEW d1 \in Client, NEW i1 \in DOMAIN queue'[d1], SetsEvent(queue'[d1][i1], e),
             NEW d2 \in Client, NEW i2 \in DOMAIN queue'[d2], SetsEvent(queue'[d2][i2], e)
      PROVE  d2 = d1 /\ i2 = i1
  <2>1. CASE d1 # c /\ d2 # c
    BY <1>3, <2>1, AckShape DEF SetsOnce
  <2>2. CASE d1 = c /\ d2 # c
    BY <1>3, <2>2, AckShape DEF SetsOnce
  <2>3. CASE d1 # c /\ d2 = c
    BY <1>3, <2>3, AckShape DEF SetsOnce
  <2>4. CASE d1 = c /\ d2 = c
    <3>1. i1 \in Nat /\ i2 \in Nat /\ i1 + 1 = i2 + 1
      BY <1>3, <2>4, AckShape DEF SetsOnce
    <3>2. QED BY <2>4, <3>1
  <2>5. QED BY <2>1, <2>2, <2>3, <2>4
<1>4. SetsOnce'
  BY <1>2, <1>3 DEF SetsOnce, SetsEvent, Open
<1>5. QED BY <1>1, <1>4

LEMMA CreatorKept ==
    ASSUME OneCreator, NEW c \in Client, NEW e \in Event, NEW op, Tap(c, op, e),
           op = "create" => ~AskedToCreate(e)
    PROVE  OneCreator'
BY DEF OneCreator, Tap, AskedToCreate, Ask

-----------------------------------------------------------------------------
(* Every step keeps the invariant *)

LEMMA BoardSignIn ==
    ASSUME TypeOK, BoardInv, NEW c \in Client,
           SignIn(c) \/ UserDataArrives(c) \/ Logout(c)
    PROVE  BoardInv'
<1>1. UNCHANGED <<users, events, queue, answers, asked>>
  BY DEF SignIn, UserDataArrives, Logout, serverVars
<1>2. AskedGrows
  BY <1>1 DEF AskedGrows, Ask
<1>3. Steady
  BY <1>1, <1>2, SameOpen, SteadyQuiet
<1>4. ChainsBacked'
  <2>1. CASE UNCHANGED calls
    BY <1>3, <2>1, SameChainsKept DEF BoardInv
  <2>2. CASE UserOf[c] \in Columbia /\ StartCall(c, [op |-> "addUser", at |-> "user"])
    <3>1. /\ [op |-> "addUser", at |-> "user"] \in Call
          /\ ChainBacked(c, [op |-> "addUser", at |-> "user"])
      BY <2>2 DEF Call, ChainBacked
    <3>2. QED BY <1>3, <2>2, <3>1, OneChainKept DEF StartCall, BoardInv
  <2>3. QED BY <2>1, <2>2 DEF SignIn, UserDataArrives, Logout
<1>5. WritesBacked'
  BY <1>1, <1>3, SameWritesKept DEF BoardInv
<1>6. SetsOnce' /\ DocsAsked'
  BY <1>1, <1>2, SameOpen, SetsKeptQuiet DEF BoardInv
<1>7. OneCreator'
  BY <1>1 DEF BoardInv, OneCreator, Ask
<1>8. QED BY <1>4, <1>5, <1>6, <1>7 DEF BoardInv

\* What a step that adds a write to a queue keeps, the chains apart.
LEMMA BoardEnqueue ==
    ASSUME TypeOK, BoardInv, AskedGrows, UNCHANGED <<events, answers>>, OneCreator',
           NEW c \in Client, NEW m \in Mutation, Enqueue(c, m),
           m.kind = "event" => ~AskedToCreate(m.event),
           WriteBacked(m) \/ WriteBacked(m)',
           Steady => ChainsBacked'
    PROVE  BoardInv'
<1>1. Steady
  BY SteadyEnqueue
<1>2. WritesBacked'
  BY <1>1, EnqueueKept DEF BoardInv
<1>3. SetsOnce' /\ DocsAsked'
  BY SetsKeptEnqueue DEF BoardInv
<1>4. QED BY <1>1, <1>2, <1>3 DEF BoardInv

\* An event of the list was asked for and seen from this device.
LEMMA ListedSeen ==
    ASSUME TypeOK, BoardInv, NEW c \in Client, NEW e \in Event, Listed(c, e)
    PROVE  AskedToCreate(e) /\ SeenFrom(c, e)
<1>1. CASE events[e].state # "unborn"
  BY <1>1 DEF BoardInv, DocsAsked, SeenFrom
<1>2. CASE Pending(c, "event", e)
  <2>1. PICK i \in DOMAIN queue[c] : SetsEvent(queue[c][i], e)
    BY <1>2 DEF Pending, SetsEvent
  <2>2. queue[c][i] \in Mutation /\ WriteBacked(queue[c][i])
    BY DEF TypeOK, BoardInv, WritesBacked
  <2>3. AskedToCreate(e)
    BY <2>1, <2>2 DEF WriteBacked, SetsEvent, AskedToCreate, Mutation, WriteKind
  <2>4. SeenFrom(c, e)
    BY <2>1 DEF BoardInv, SetsOnce, SeenFrom
  <2>5. QED BY <2>3, <2>4
<1>3. QED BY <1>1, <1>2 DEF Listed

LEMMA BoardTaps ==
    ASSUME TypeOK, BoardInv, NEW c \in Client, NEW e \in Event,
           AddEvent(c, e) \/ TapAdd(c, e) \/ LeaveEvent(c, e) \/ TapDelete(c, e)
    PROVE  BoardInv'
<1>0. uid[c] \in UserId /\ (uid[c] # NoUser => uid[c] \in User)
  BY DEF TypeOK, UserId
<1>1. CASE AddEvent(c, e)
  <2>0. /\ Write("event", e, uid[c]) \in Mutation
        /\ EventCall("addEvent", "ack", e, uid[c]) \in Call
    BY <1>0 DEF Write, Mutation, WriteKind, EventCall, Call
  <2> PICK m \in Mutation : m = Write("event", e, uid[c])
    BY <2>0
  <2> PICK call \in Call : call = EventCall("addEvent", "ack", e, uid[c])
    BY <2>0
  <2>1. m.kind = "event" /\ m.event = e /\ ChainBacked(c, call)
    BY DEF Write, EventCall, ChainBacked
  <2>2. ~AskedToCreate(e)
    BY <1>1 DEF AddEvent, AskedToCreate
  <2>3. AskedGrows /\ OneCreator'
    BY <1>1, <2>2, TapGrows, CreatorKept DEF AddEvent, BoardInv
  <2>4. WriteBacked(m)'
    BY <1>1 DEF AddEvent, Tap, WriteBacked, Write, Ask
  <2>5. Steady => ChainsBacked'
    BY <1>1, <2>1, OneChainKept DEF AddEvent, StartCall, BoardInv
  <2>6. Enqueue(c, m) /\ UNCHANGED <<events, answers>>
    BY <1>1 DEF AddEvent, serverVars
  <2>7. QED
    BY <2>1, <2>2, <2>3, <2>4, <2>5, <2>6, BoardEnqueue
<1>2. ASSUME NEW op \in {"join", "delete"}, Tap(c, op, e),
             NEW call \in Call, StartCall(c, call), ChainBacked(c, call) \/ ChainBacked(c, call)',
             UNCHANGED <<serverVars, queue, answers>>
      PROVE  BoardInv'
  <2>1. AskedGrows /\ OneCreator'
    BY <1>2, TapGrows, CreatorKept DEF BoardInv
  <2>2. UNCHANGED <<events, queue, answers>>
    BY <1>2 DEF serverVars
  <2>3. Steady
    BY <2>1, <2>2, SameOpen, SteadyQuiet
  <2>4. ChainsBacked'
    BY <1>2, <2>3, OneChainKept DEF StartCall, BoardInv
  <2>5. WritesBacked'
    BY <2>2, <2>3, SameWritesKept DEF BoardInv
  <2>6. SetsOnce' /\ DocsAsked'
    BY <2>1, <2>2, SameOpen, SetsKeptQuiet DEF BoardInv
  <2>7. QED BY <2>1, <2>4, <2>5, <2>6 DEF BoardInv
<1>3. CASE TapAdd(c, e)
  <2>1. EventCall("addAttendee", "user", e, uid[c]) \in Call
    BY <1>0, <1>3 DEF EventCall, Call, TapAdd
  <2> PICK call \in Call : call = EventCall("addAttendee", "user", e, uid[c])
    BY <2>1
  <2>2. ChainBacked(c, call)'
    BY <1>3 DEF TapAdd, Tap, EventCall, ChainBacked, AskedToAttend, Ask
  <2>3. Tap(c, "join", e) /\ StartCall(c, call) /\ UNCHANGED <<serverVars, queue, answers>>
    BY <1>3 DEF TapAdd
  <2>4. QED BY <1>2, <2>2, <2>3
<1>4. CASE TapDelete(c, e)
  <2>1. EventCall("deleteEvent", "event", e, uid[c]) \in Call
    BY <1>0 DEF EventCall, Call
  <2> PICK call \in Call : call = EventCall("deleteEvent", "event", e, uid[c])
    BY <2>1
  <2>2. AskedToCreate(e) /\ SeenFrom(c, e)
    BY <1>4, ListedSeen DEF TapDelete
  <2>3. UNCHANGED <<events, queue>> /\ asked \subseteq asked' /\ Ask("delete", uid[c], e) \in asked'
    BY <1>4 DEF TapDelete, Tap, serverVars
  <2>4. AskedToCreate(e)' /\ SeenFrom(c, e)'
    BY <2>2, <2>3 DEF AskedToCreate, SeenFrom, SetsEvent, Ask
  <2>5. ChainBacked(c, call)'
    BY <2>3, <2>4 DEF ChainBacked, EventCall, Ask
  <2>6. Tap(c, "delete", e) /\ StartCall(c, call) /\ UNCHANGED <<serverVars, queue, answers>>
    BY <1>4 DEF TapDelete
  <2>7. QED BY <1>2, <2>5, <2>6
<1>5. CASE LeaveEvent(c, e)
  <2>0. Write("remove", e, uid[c]) \in Mutation
    BY <1>0 DEF Write, Mutation, WriteKind
  <2> PICK m \in Mutation : m = Write("remove", e, uid[c])
    BY <2>0
  <2>1. m.kind = "remove"
    BY DEF Write
  <2>2. AskedGrows /\ OneCreator'
    BY <1>5, TapGrows, CreatorKept DEF LeaveEvent, BoardInv
  <2>3. WriteBacked(m)'
    BY <1>0, <1>5 DEF LeaveEvent, Tap, WriteBacked, Write, Ask
  <2>4. Steady => ChainsBacked'
    BY <1>5, SameChainsKept DEF LeaveEvent, BoardInv
  <2>5. Enqueue(c, m) /\ UNCHANGED <<events, answers>>
    BY <1>5 DEF LeaveEvent, serverVars
  <2>6. QED
    BY <2>1, <2>2, <2>3, <2>4, <2>5, BoardEnqueue
<1>6. QED BY <1>1, <1>3, <1>4, <1>5

\* The ownership check on the device: whoever passes it is the owner, or the
\* event is gone, or the deletion pending there was its owner's.
LEMMA OwnerMayDelete ==
    ASSUME TypeOK, BoardInv, NEW c \in Client, NEW e \in Event, NEW u \in UserId,
           OwnerIs(c, e, u), Ask("delete", u, e) \in asked, AskedToCreate(e), SeenFrom(c, e)
    PROVE  MayDelete(e)
<1>1. ASSUME Ask("create", u, e) \in asked PROVE MayDelete(e)
  BY <1>1 DEF BoardInv, OneCreator, MayDelete, DeletionAsked
<1>2. CASE ~EventExists(c, e)
  <2>1. CASE Pending(c, "delete", e)
    <3>1. PICK i \in DOMAIN queue[c] : queue[c][i].kind = "delete" /\ queue[c][i].event = e
      BY <2>1 DEF Pending
    <3>2. QED
      BY <3>1 DEF BoardInv, WritesBacked, WriteBacked
  <2>2. CASE ~IsLive(events[e]) /\ ~Pending(c, "event", e)
    <3>1. CASE events[e].state = "deleted"
      BY <3>1 DEF BoardInv, DocsAsked, MayDelete
    <3>2. CASE events[e].state = "unborn"
      <4>1. ASSUME NEW d \in Client, NEW i \in DOMAIN queue[d], SetsEvent(queue[d][i], e)
            PROVE  d = c
        BY <3>2, <4>1 DEF SeenFrom
      <4>2. Gone(e)
        BY <2>2, <4>1 DEF Gone, Pending, SetsEvent
      <4>3. QED BY <4>2 DEF MayDelete
    <3>3. QED BY <2>2, <3>1, <3>2 DEF TypeOK, Doc, IsLive
  <2>3. QED BY <1>2, <2>1, <2>2 DEF EventExists
<1>3. CASE \E i \in DOMAIN queue[c] : queue[c][i] = Write("event", e, u)
  BY <1>1, <1>3 DEF BoardInv, WritesBacked, WriteBacked, Write
<1>4. CASE EventExists(c, e) /\ ~Pending(c, "event", e) /\ events[e].ownerID = u
  BY <1>1, <1>4 DEF EventExists, BoardInv, DocsAsked
<1>5. QED BY <1>2, <1>3, <1>4 DEF OwnerIs

LEMMA BoardReads ==
    ASSUME TypeOK, BoardInv, NEW c \in Client, NEW s \in Slot,
           \/ AddUserRead(c, s) \/ AttendeeUserRead(c, s)
           \/ AttendeeEventRead(c, s) \/ DeleteRead(c, s)
    PROVE  BoardInv'
<1>1. UNCHANGED <<users, events, queue, answers, asked>>
  BY DEF AddUserRead, AttendeeUserRead, AttendeeEventRead, DeleteRead, serverVars
<1>2. AskedGrows
  BY <1>1 DEF AskedGrows, Ask
<1>3. Steady
  BY <1>1, <1>2, SameOpen, SteadyQuiet
<1>4. ASSUME NEW at, Continue(c, s, at), [calls[c][s] EXCEPT !.at = at] \in Call,
             (calls[c][s].op = "deleteEvent" /\ at = "write") => MayDelete(calls[c][s].event)
      PROVE  ChainsBacked'
  <2> PICK call \in Call : call = [calls[c][s] EXCEPT !.at = at]
    BY <1>4
  <2>1. calls[c][s] \in Call
    BY <1>4, CallShape DEF Call, NoCall
  <2>2. /\ call.op = calls[c][s].op /\ call.at = at
        /\ call.op \in {"addAttendee", "deleteEvent"} =>
              call.event = calls[c][s].event /\ call.uid = calls[c][s].uid
    BY <2>1 DEF Call
  <2>3. ChainBacked(c, calls[c][s])
    BY DEF BoardInv, ChainsBacked
  <2>4. ChainBacked(c, call)
    BY <1>4, <2>2, <2>3 DEF ChainBacked
  <2>5. QED
    BY <1>3, <1>4, <2>4, OneChainKept DEF Continue, BoardInv
<1>5. ChainsBacked'
  <2>1. CASE End(c, s)
    BY <1>3, <2>1, EndKept DEF BoardInv
  <2>2. CASE AddUserRead(c, s) /\ ~End(c, s)
    <3>1. [calls[c][s] EXCEPT !.at = "write"] \in Call /\ calls[c][s].op = "addUser"
      BY <2>2, CallShape DEF AddUserRead, At, Call
    <3>2. QED BY <1>4, <2>2, <3>1 DEF AddUserRead
  <2>3. CASE AttendeeUserRead(c, s) /\ ~End(c, s)
    <3>1. [calls[c][s] EXCEPT !.at = "event"] \in Call
      BY <2>3, CallShape DEF AttendeeUserRead, At, Call
    <3>2. QED BY <1>4, <2>3, <3>1 DEF AttendeeUserRead
  <2>4. CASE AttendeeEventRead(c, s) /\ ~End(c, s)
    <3>1. [calls[c][s] EXCEPT !.at = "write"] \in Call /\ calls[c][s].op = "addAttendee"
      BY <2>4, CallShape DEF AttendeeEventRead, At, Call
    <3>2. QED BY <1>4, <2>4, <3>1 DEF AttendeeEventRead
  <2>5. CASE DeleteRead(c, s) /\ ~End(c, s)
    <3>1. /\ [calls[c][s] EXCEPT !.at = "write"] \in Call /\ calls[c][s].op = "deleteEvent"
          /\ calls[c][s].event \in Event /\ calls[c][s].uid \in UserId
      BY <2>5, CallShape DEF DeleteRead, At, Call
    <3>2. OwnerIs(c, calls[c][s].event, calls[c][s].uid) /\ Continue(c, s, "write")
      BY <2>5 DEF DeleteRead
    <3>3. ChainBacked(c, calls[c][s])
      BY DEF BoardInv, ChainsBacked
    <3>4. MayDelete(calls[c][s].event)
      BY <3>1, <3>2, <3>3, OwnerMayDelete DEF ChainBacked
    <3>5. QED BY <1>4, <3>1, <3>2, <3>4
  <2>6. QED BY <2>1, <2>2, <2>3, <2>4, <2>5
<1>6. WritesBacked'
  BY <1>1, <1>3, SameWritesKept DEF BoardInv
<1>7. SetsOnce' /\ DocsAsked'
  BY <1>1, <1>2, SameOpen, SetsKeptQuiet DEF BoardInv
<1>8. OneCreator'
  BY <1>1 DEF BoardInv, OneCreator, Ask
<1>9. QED BY <1>5, <1>6, <1>7, <1>8 DEF BoardInv

LEMMA BoardWrites ==
    ASSUME TypeOK, BoardInv, NEW c \in Client, NEW s \in Slot,
           AddUserWrite(c, s) \/ AttendeeWrite(c, s) \/ DeleteWrite(c, s)
    PROVE  BoardInv'
<1>1. UNCHANGED <<users, events, answers, asked>> /\ End(c, s)
  BY DEF AddUserWrite, AttendeeWrite, DeleteWrite, serverVars
<1>2. AskedGrows /\ OneCreator'
  BY <1>1 DEF AskedGrows, BoardInv, OneCreator, Ask
<1>3. Steady => ChainsBacked'
  BY <1>1, EndKept DEF BoardInv
<1>4. ASSUME NEW m \in Mutation, Enqueue(c, m), m.kind # "event", WriteBacked(m)
      PROVE  BoardInv'
  BY <1>1, <1>2, <1>3, <1>4, BoardEnqueue
<1>5. ChainBacked(c, calls[c][s])
  BY DEF BoardInv, ChainsBacked
<1>6. CASE AddUserWrite(c, s)
  <2>1. NewUser(UserOf[c]) \in Mutation
    BY ClientAssumption DEF NewUser, Mutation
  <2> PICK m \in Mutation : m = NewUser(UserOf[c])
    BY <2>1
  <2>2. m.kind # "event" /\ WriteBacked(m)
    BY <1>5, <1>6 DEF AddUserWrite, At, ChainBacked, WriteBacked, NewUser
  <2>3. QED BY <1>4, <1>6, <2>2 DEF AddUserWrite
<1>7. CASE AttendeeWrite(c, s)
  <2>1. Write("union", calls[c][s].event, calls[c][s].uid) \in Mutation
    BY <1>7, CallShape DEF AttendeeWrite, At, Write, Mutation, WriteKind, UserId
  <2> PICK m \in Mutation : m = Write("union", calls[c][s].event, calls[c][s].uid)
    BY <2>1
  <2>2. m.kind # "event" /\ WriteBacked(m)
    BY <1>5, <1>7 DEF AttendeeWrite, At, ChainBacked, WriteBacked, Write
  <2>3. QED BY <1>4, <1>7, <2>2 DEF AttendeeWrite
<1>8. CASE DeleteWrite(c, s)
  <2>1. Write("delete", calls[c][s].event, calls[c][s].uid) \in Mutation
    BY <1>8, CallShape DEF DeleteWrite, At, Write, Mutation, WriteKind
  <2> PICK m \in Mutation : m = Write("delete", calls[c][s].event, calls[c][s].uid)
    BY <2>1
  <2>2. m.kind # "event" /\ WriteBacked(m)
    BY <1>5, <1>8 DEF DeleteWrite, At, ChainBacked, WriteBacked, Write
  <2>3. QED BY <1>4, <1>8, <2>2 DEF DeleteWrite
<1>9. QED BY <1>6, <1>7, <1>8

LEMMA BoardCommit ==
    ASSUME TypeOK, BoardInv, NEW c \in Client, Commit(c)
    PROVE  BoardInv'
<1>1. UNCHANGED <<queue, calls, asked>>
  BY DEF Commit
<1>2. Steady
  BY SteadyCommit
<1>3. ChainsBacked' /\ WritesBacked'
  BY <1>1, <1>2, SameChainsKept, SameWritesKept DEF BoardInv
<1>4. SetsOnce' /\ DocsAsked'
  BY SetsKeptCommit DEF BoardInv
<1>5. OneCreator'
  BY <1>1 DEF BoardInv, OneCreator, Ask
<1>6. QED BY <1>3, <1>4, <1>5 DEF BoardInv

\* The creator of an event asked for it, so may come to attend it.
LEMMA BoardAcknowledge ==
    ASSUME TypeOK, BoardInv, NEW c \in Client, Acknowledge(c)
    PROVE  BoardInv'
<1> DEFINE m == Head(queue[c])
<1>1. UNCHANGED asked /\ m \in Mutation /\ WriteBacked(m)
  BY AckShape DEF BoardInv, WritesBacked
<1>2. Steady
  BY SteadyAcknowledge
<1>3. ASSUME NEW s \in Slot, s \in Waiting(c, m)
      PROVE  AfterAck(c, m) \in Call \cup {NoCall} /\ ChainBacked(c, AfterAck(c, m))
  <2>1. m.kind = "event" /\ m.event \in Event /\ m.uid \in UserId
    BY <1>1, <1>3 DEF Waiting, Mutation, WriteKind
  <2>2. CASE AfterAck(c, m) = NoCall
    BY <2>2 DEF ChainBacked, NoCall
  <2>3. CASE m.uid # NoUser /\ AfterAck(c, m) = EventCall("addAttendee", "user", m.event, m.uid)
    BY <1>1, <2>1, <2>3 DEF ChainBacked, EventCall, Call, WriteBacked, AskedToAttend, UserId
  <2>4. QED BY <2>2, <2>3 DEF AfterAck
<1>4. ASSUME NEW d \in Client, NEW t \in Slot
      PROVE  \/ calls'[d][t] = calls[d][t]
             \/ d = c /\ t \in Waiting(c, m) /\ calls'[d][t] = AfterAck(c, m)
  BY DEF Acknowledge, TypeOK
<1>5. ChainsBacked'
  <2>1. ASSUME NEW d \in Client, NEW t \in Slot
        PROVE  \E call \in Call \cup {NoCall} : calls'[d][t] = call /\ ChainBacked(d, call)
    <3>1. CASE calls'[d][t] = calls[d][t]
      BY <3>1, CallShape DEF BoardInv, ChainsBacked
    <3>2. CASE d = c /\ t \in Waiting(c, m) /\ calls'[d][t] = AfterAck(c, m)
      BY <1>3, <3>2
    <3>3. QED BY <1>4, <3>1, <3>2
  <2>2. QED BY <1>2, <2>1, ChainsKept
<1>6. WritesBacked'
  <2>1. ASSUME NEW d \in Client, NEW i \in DOMAIN queue'[d]
        PROVE  \E k \in Mutation : queue'[d][i] = k /\ WriteBacked(k)
    <3>1. PICK j \in DOMAIN queue[d] : queue'[d][i] = queue[d][j]
      BY AckShape
    <3>2. queue[d][j] \in Mutation /\ WriteBacked(queue[d][j])
      BY DEF TypeOK, BoardInv, WritesBacked
    <3>3. QED BY <3>1, <3>2
  <2>2. QED BY <1>2, <2>1, WritesKept
<1>7. SetsOnce' /\ DocsAsked'
  BY SetsKeptAcknowledge DEF BoardInv
<1>8. OneCreator'
  BY <1>1 DEF BoardInv, OneCreator, Ask
<1>9. QED BY <1>5, <1>6, <1>7, <1>8 DEF BoardInv

\* A refusal answers the head of a queue; a crash forgets chains.
LEMMA BoardFaults ==
    ASSUME TypeOK, BoardInv, NEW c \in Client, Refuse(c) \/ Resend(c) \/ Crash(c)
    PROVE  BoardInv'
<1>1. /\ UNCHANGED <<users, events, queue, asked>>
      /\ OpenShrinks
  <2>1. UNCHANGED <<users, events, queue, asked>>
    BY DEF Refuse, Resend, Crash, serverVars
  <2>2. CASE Refuse(c)
    BY <2>1, <2>2, AnswerCloses DEF Refuse
  <2>3. CASE Resend(c)
    BY <2>1, <2>3 DEF Resend, OpenShrinks, Open
  <2>4. CASE Crash(c)
    BY <2>1, <2>4, SameOpen DEF Crash
  <2>5. QED BY <2>2, <2>3, <2>4
<1>2. AskedGrows
  BY <1>1 DEF AskedGrows, Ask
<1>3. Steady
  BY <1>1, <1>2, SteadyQuiet
<1>4. ChainsBacked'
  <2>1. CASE UNCHANGED calls
    BY <1>3, <2>1, SameChainsKept DEF BoardInv
  <2>2. CASE Crash(c)
    <3>1. ASSUME NEW d \in Client, NEW t \in Slot
          PROVE  \E call \in Call \cup {NoCall} : calls'[d][t] = call /\ ChainBacked(d, call)
      <4>1. CASE d = c
        <5>1. calls'[d][t] = NoCall
          BY <2>2, <4>1 DEF Crash, TypeOK
        <5>2. ChainBacked(d, NoCall)
          BY DEF ChainBacked, NoCall
        <5>3. QED BY <5>1, <5>2
      <4>2. CASE d # c
        BY <2>2, <4>2, CallShape DEF Crash, TypeOK, BoardInv, ChainsBacked
      <4>3. QED BY <4>1, <4>2
    <3>2. QED BY <1>3, <3>1, ChainsKept
  <2>3. QED BY <2>1, <2>2 DEF Refuse, Resend
<1>5. WritesBacked'
  BY <1>1, <1>3, SameWritesKept DEF BoardInv
<1>6. SetsOnce' /\ DocsAsked'
  BY <1>1, <1>2, SetsKeptQuiet DEF BoardInv
<1>7. OneCreator'
  BY <1>1 DEF BoardInv, OneCreator, Ask
<1>8. QED BY <1>4, <1>5, <1>6, <1>7 DEF BoardInv

LEMMA BoardInvInit == Init => BoardInv
<1> SUFFICES ASSUME Init PROVE BoardInv
  OBVIOUS
<1>1. \A c \in Client : queue[c] = <<>> /\ DOMAIN queue[c] = {}
  BY DEF Init
<1>2. \A c \in Client, s \in Slot : calls[c][s] = NoCall
  BY DEF Init
<1>3. \A e \in Event : events[e] = Unborn
  BY DEF Init
<1>4. ChainsBacked
  BY <1>2 DEF ChainsBacked, ChainBacked, NoCall
<1>5. WritesBacked /\ SetsOnce
  BY <1>1 DEF WritesBacked, SetsOnce
<1>6. OneCreator /\ DocsAsked
  BY <1>3 DEF Init, OneCreator, DocsAsked, IsLive, Unborn
<1>7. QED BY <1>4, <1>5, <1>6 DEF BoardInv

LEMMA BoardInvStep == TypeOK /\ BoardInv /\ [Next]_vars => BoardInv'
<1> SUFFICES ASSUME TypeOK, BoardInv, [Next]_vars PROVE BoardInv'
  OBVIOUS
<1>1. CASE UNCHANGED vars
  <2>1. /\ UNCHANGED <<events, queue, answers, calls, asked>>
        /\ AskedGrows /\ OpenShrinks
    BY <1>1, SameOpen DEF vars, serverVars, clientVars, AskedGrows, Ask
  <2>2. Steady
    BY <2>1, SteadyQuiet
  <2>3. ChainsBacked' /\ WritesBacked'
    BY <2>1, <2>2, SameChainsKept, SameWritesKept DEF BoardInv
  <2>4. SetsOnce' /\ DocsAsked'
    BY <2>1, SetsKeptQuiet DEF BoardInv
  <2>5. OneCreator'
    BY <2>1 DEF BoardInv, OneCreator, Ask
  <2>6. QED BY <2>3, <2>4, <2>5 DEF BoardInv
<1>2. ASSUME NEW c \in Client, Environment(c) PROVE BoardInv'
  BY <1>2, BoardSignIn, BoardTaps, BoardFaults DEF Environment
<1>3. ASSUME NEW c \in Client, Network(c) PROVE BoardInv'
  BY <1>3, BoardSignIn, BoardCommit, BoardAcknowledge DEF Network
<1>4. ASSUME NEW c \in Client, NEW s \in Slot, Chain(c, s) PROVE BoardInv'
  BY <1>4, BoardReads, BoardWrites DEF Chain
<1>5. QED BY <1>1, <1>2, <1>3, <1>4 DEF Next

\* Every chain, queued write and document goes back to a request, whatever the
\* devices, failures, crashes and writes applied again.
THEOREM RequestsBehindAll == Spec => []BoardInv
<1>1. QED BY BoardInvInit, BoardInvStep, TypeCorrect, PTL DEF Spec

-----------------------------------------------------------------------------
(* The refinement: each step is a step of the board, or leaves it alone *)

LEMMA BoardStart == Init => Board!BoardInit
BY DEF Init, Board!BoardInit, Unborn, Board!Unborn

\* A request made in the UI.
LEMMA TapMakesRequest ==
    ASSUME TypeOK, NEW c \in Client, NEW e \in Event,
           NEW op \in {"create", "join", "leave", "delete"}, Tap(c, op, e),
           UNCHANGED <<users, events>>
    PROVE  Board!MakeRequest
<1>1. Ask(op, uid[c], e) \in Board!Request
  BY DEF TypeOK, Ask, Board!Request, Board!UserId, UserId
<1>2. QED BY <1>1 DEF Tap, Board!MakeRequest

\* A set that is applied again finds a document of the same owner, or one that
\* its owner had deleted.
LEMMA SetAgainStep ==
    ASSUME BoardInv, NEW e \in Event, NEW u \in UserId, Ask("create", u, e) \in asked,
           events[e] \in Doc, events[e].state # "unborn",
           events' = [events EXCEPT ![e] = NewEvent(u)], UNCHANGED <<users, asked>>
    PROVE  Board!SetAgain(e)
<1>1. u \in Board!UserId /\ Board!Ask("create", u, e) \in asked
  BY DEF Board!UserId, UserId, Board!Ask, Ask
<1>2. Board!IsLive(events[e]) => events[e].ownerID = u
  BY DEF BoardInv, DocsAsked, OneCreator, Board!IsLive, IsLive, Doc
<1>3. ~Board!IsLive(events[e]) => Board!Ask("delete", u, e) \in asked
  BY DEF BoardInv, DocsAsked, DeletionAsked, Board!IsLive, Board!Ask, Ask, Doc
<1>4. events' = [events EXCEPT ![e] = Board!NewEvent(u)]
  BY DEF Board!NewEvent, NewEvent
<1>5. QED BY <1>1, <1>2, <1>3, <1>4 DEF Board!SetAgain

\* The write the server commits is a registration, a creation, ... or the set
\* of a document that was set before.
LEMMA CommitIsBoardStep ==
    ASSUME TypeOK, AccountsInv, BoardInv, NEW c \in Client, Commit(c)
    PROVE  \/ Board!BoardNext \/ UNCHANGED Board!boardVars
           \/ Redelivery /\ \E e \in Event : Board!SetAgain(e)
<1> DEFINE m == NextWrite(c)
           n == Len(answers[c]) + 1
<1>0. /\ Unhandled(c) /\ UNCHANGED asked
      /\ m \in Mutation /\ m = queue[c][n] /\ n \in DOMAIN queue[c]
      /\ WriteBacked(m) /\ Open(c, n)
  BY NextType, AnswerCloses DEF Commit, BoardInv, WritesBacked
<1>1. CASE CommitUser(c, m)
  <2>1. Board!Register
    BY <1>0, <1>1 DEF CommitUser, WriteBacked, Board!Register
  <2>2. QED BY <2>1 DEF Board!BoardNext
<1>2. CASE CommitEvent(c, m)
  <2>1. /\ m.event \in Event /\ m.uid \in UserId
        /\ m.kind \in {"event", "union", "remove", "delete"}
        /\ events[m.event] \in Doc
    BY <1>0, <1>2 DEF CommitEvent, Mutation, WriteKind, TypeOK
  <2>2. /\ events' = [events EXCEPT ![m.event] = Applied(m, events[m.event])]
        /\ UNCHANGED <<users, asked>>
    BY <1>0, <1>2 DEF CommitEvent
  <2>3. CASE m.kind = "event"
    <3>1. events[m.event].state = "unborn" \/ Redelivery
      BY <1>0, <2>1, <2>3 DEF BoardInv, SetsOnce, SetsEvent
    <3>2. Ask("create", m.uid, m.event) \in asked
      BY <1>0, <2>3 DEF WriteBacked
    <3>3. Applied(m, events[m.event]) = NewEvent(m.uid)
      BY <2>3 DEF Applied
    <3>4. CASE events[m.event].state = "unborn"
      <4>1. events[m.event] = Unborn
        BY <2>1, <3>4 DEF BoardInv, DocsAsked
      <4>2. Board!Create(m.event)
        BY <2>1, <2>2, <3>2, <3>3, <4>1
           DEF Board!Create, Board!Unborn, Unborn, Board!Ask, Ask, Board!NewEvent, NewEvent,
               Board!UserId, UserId
      <4>3. QED BY <2>1, <4>2 DEF Board!BoardNext
    <3>5. CASE events[m.event].state # "unborn" /\ Redelivery
      <4>1. Board!SetAgain(m.event)
        BY <2>1, <2>2, <3>2, <3>3, <3>5, SetAgainStep
      <4>2. QED BY <2>1, <3>5, <4>1
    <3>6. QED BY <3>1, <3>4, <3>5
  <2>4. CASE m.kind = "union"
    <3>1. m.uid \in users
      BY <1>0, <2>4, NextIsBacked
    <3>2. IsLive(events[m.event])
      BY <1>2, <2>4 DEF CommitEvent, Accepted
    <3>3. Ask("join", m.uid, m.event) \in asked \/ Ask("create", m.uid, m.event) \in asked
      BY <1>0, <2>4 DEF WriteBacked, AskedToAttend
    <3>4. events' = [events EXCEPT ![m.event].attendees = @ \cup {m.uid}]
      BY <2>1, <2>2, <2>4 DEF Applied, TypeOK, Doc
    <3>5. Board!Join(m.event)
      BY <2>2, <3>1, <3>2, <3>3, <3>4 DEF Board!Join, Board!IsLive, IsLive, Board!Ask, Ask
    <3>6. QED BY <2>1, <3>5 DEF Board!BoardNext
  <2>5. CASE m.kind = "remove"
    <3>1. IsLive(events[m.event])
      BY <1>2, <2>5 DEF CommitEvent, Accepted
    <3>2. m.uid \in User /\ Ask("leave", m.uid, m.event) \in asked
      BY <1>0, <2>5 DEF WriteBacked
    <3>3. events' = [events EXCEPT ![m.event].attendees = @ \ {m.uid}]
      BY <2>1, <2>2, <2>5 DEF Applied, TypeOK, Doc
    <3>4. Board!Leave(m.event)
      BY <2>2, <3>1, <3>2, <3>3 DEF Board!Leave, Board!IsLive, IsLive, Board!Ask, Ask
    <3>5. QED BY <2>1, <3>4 DEF Board!BoardNext
  <2>6. CASE m.kind = "delete" /\ IsLive(events[m.event])
    <3>1. MayDelete(m.event)
      BY <1>0, <2>6 DEF WriteBacked
    <3>2. /\ Ask("create", events[m.event].ownerID, m.event) \in asked
          /\ events[m.event].ownerID \in UserId
      BY <2>1, <2>6 DEF BoardInv, DocsAsked, Doc
    <3>3. Ask("delete", events[m.event].ownerID, m.event) \in asked
      BY <2>6, <3>1, <3>2 DEF MayDelete, DeletionAsked, Gone
    <3>4. Applied(m, events[m.event]) = Deleted
      BY <2>6 DEF Applied
    <3>5. Board!Delete(m.event)
      BY <2>2, <2>6, <3>3, <3>4
         DEF Board!Delete, Board!IsLive, IsLive, Board!Ask, Ask, Board!Deleted, Deleted
    <3>6. QED BY <2>1, <3>5 DEF Board!BoardNext
  <2>7. CASE m.kind = "delete" /\ ~IsLive(events[m.event])
    <3>1. Applied(m, events[m.event]) = events[m.event]
      BY <2>7 DEF Applied
    <3>2. events' = events
      BY <2>1, <2>2, <3>1 DEF TypeOK
    <3>3. QED BY <2>2, <3>2 DEF Board!boardVars
  <2>8. QED BY <2>1, <2>3, <2>4, <2>5, <2>6, <2>7
<1>3. QED BY <1>1, <1>2 DEF Commit

LEMMA StepIsBoardStep ==
    ASSUME TypeOK, AccountsInv, BoardInv, [Next]_vars
    PROVE  \/ [Board!BoardNext]_(Board!boardVars)
           \/ Redelivery /\ \E e \in Event : Board!SetAgain(e)
<1>1. CASE UNCHANGED vars
  BY <1>1 DEF vars, serverVars, Board!boardVars
<1>2. ASSUME NEW c \in Client, NEW e \in Event,
             AddEvent(c, e) \/ TapAdd(c, e) \/ LeaveEvent(c, e) \/ TapDelete(c, e)
      PROVE  Board!BoardNext
  <2>1. /\ Tap(c, "create", e) \/ Tap(c, "join", e) \/ Tap(c, "leave", e) \/ Tap(c, "delete", e)
        /\ UNCHANGED <<users, events>>
    BY <1>2 DEF AddEvent, TapAdd, LeaveEvent, TapDelete, serverVars
  <2>2. Board!MakeRequest
    BY <2>1, TapMakesRequest
  <2>3. QED BY <2>2 DEF Board!BoardNext
<1>3. ASSUME NEW c \in Client,
             \/ SignIn(c) \/ Logout(c) \/ Refuse(c) \/ Resend(c) \/ Crash(c)
             \/ UserDataArrives(c) \/ Acknowledge(c)
      PROVE  UNCHANGED Board!boardVars
  BY <1>3 DEF SignIn, Logout, Refuse, Resend, Crash, UserDataArrives, Acknowledge,
     serverVars, Board!boardVars
<1>4. ASSUME NEW c \in Client, NEW s \in Slot, Chain(c, s)
      PROVE  UNCHANGED Board!boardVars
  BY <1>4 DEF Chain, AddUserRead, AddUserWrite, AttendeeUserRead, AttendeeEventRead,
     AttendeeWrite, DeleteRead, DeleteWrite, serverVars, Board!boardVars
<1>5. QED
  BY <1>1, <1>2, <1>3, <1>4, CommitIsBoardStep DEF Next, Environment, Network

\* If no write is applied twice and the backend refuses no account, every
\* behaviour of the app is one of the board: whatever the interleaving of
\* chains, queues and devices, failed reads, refused writes and crashes, an
\* account is given only to a Columbia user, an id is used once and never again
\* after a deletion, attendance comes with an account and on request, and a
\* deletion only at its owner's request.
THEOREM BoardImplemented ==
    ASSUME ~Redelivery, "user" \notin MayFail
    PROVE  Spec => ImplementsBoard
<1>1. Spec => Board!BoardInit
  BY BoardStart DEF Spec
<1>2. TypeOK /\ AccountsInv /\ BoardInv /\ [Next]_vars => [Board!BoardNext]_(Board!boardVars)
  BY StepIsBoardStep
<1>3. QED
  BY <1>1, <1>2, TypeCorrect, AccountsStayAhead, RequestsBehindAll, PTL
     DEF Spec, ImplementsBoard, Board!BoardSpec

\* The same with writes that are applied again: what a repeated set may do is
\* all that is lost. It gives an event back to its owner without attendees, but
\* no event changes hands, nobody attends unasked or without an account, and
\* what comes back had been deleted at its owner's request.
THEOREM RepeatingBoardImplemented ==
    ASSUME "user" \notin MayFail
    PROVE  Spec => ImplementsRepeatingBoard
<1>1. Spec => Board!BoardInit
  BY BoardStart DEF Spec
<1>2. TypeOK /\ AccountsInv /\ BoardInv /\ [Next]_vars => [Board!RepeatingNext]_(Board!boardVars)
  BY StepIsBoardStep DEF Board!RepeatingNext
<1>3. QED
  BY <1>1, <1>2, TypeCorrect, AccountsStayAhead, RequestsBehindAll, PTL
     DEF Spec, ImplementsRepeatingBoard, Board!RepeatingSpec

-----------------------------------------------------------------------------
(* A read shows the pending writes: what chains and queues have to do with it *)

About(m, e) == m.kind # "user" /\ m.event = e

\* The set of an event is queued ahead of every other write to it.
SetsLead(q) ==
    \A i, j \in DOMAIN q : q[i].kind = "event" /\ About(q[j], q[i].event) => i <= j

WriteOfAsked(m) == m.kind # "user" => AskedToCreate(m.event)
ChainOfAsked(call) == call.op \in {"addAttendee", "deleteEvent"} => AskedToCreate(call.event)

\* Nothing is written to an event before it is created, once; an event that is
\* not there has no owner. Redelivery does not disturb this.
QueuesInv ==
    /\ \A c \in Client : \A i \in DOMAIN queue[c] : WriteOfAsked(queue[c][i])
    /\ \A c \in Client, s \in Slot : ChainOfAsked(calls[c][s])
    /\ \A e \in Event : /\ events[e].state # "unborn" => AskedToCreate(e)
                        /\ ~IsLive(events[e]) => events[e].ownerID = NoUser
    /\ \A c \in Client : SetsLead(queue[c])

LEMMA QueuesInit == Init => QueuesInv
<1> SUFFICES ASSUME Init PROVE QueuesInv
  OBVIOUS
<1>1. \A c \in Client : queue[c] = <<>> /\ DOMAIN queue[c] = {}
  BY DEF Init
<1>2. \A c \in Client, s \in Slot : ChainOfAsked(calls[c][s])
  BY DEF Init, NoCall, ChainOfAsked
<1>3. \A e \in Event : events[e].state = "unborn" /\ events[e].ownerID = NoUser
  BY DEF Init, Unborn
<1>4. QED BY <1>1, <1>2, <1>3 DEF QueuesInv, SetsLead

LEMMA AskedStays ==
    ASSUME asked \subseteq asked'
    PROVE  /\ \A e : AskedToCreate(e) => AskedToCreate(e)'
           /\ \A m : WriteOfAsked(m) => (m.kind # "user" => AskedToCreate(m.event)')
           /\ \A k : ChainOfAsked(k) => (k.op \in {"addAttendee", "deleteEvent"} => AskedToCreate(k.event)')
BY DEF AskedToCreate, WriteOfAsked, ChainOfAsked, Ask

\* Chains go on working on events that were asked for.
ChainsGoOn == \A d \in Client, t \in Slot : calls'[d][t] = calls[d][t] \/ ChainOfAsked(calls'[d][t])

LEMMA ChainsOfAskedKept ==
    ASSUME QueuesInv, asked \subseteq asked', ChainsGoOn
    PROVE  (\A c \in Client, s \in Slot : ChainOfAsked(calls[c][s]))'
<1>1. \A c \in Client, s \in Slot : ChainOfAsked(calls'[c][s])
  BY DEF ChainsGoOn, QueuesInv
<1>2. QED BY <1>1, AskedStays DEF ChainOfAsked

LEMMA DocsOfAskedKept ==
    ASSUME QueuesInv, asked \subseteq asked', UNCHANGED events
    PROVE  (\A e \in Event : /\ events[e].state # "unborn" => AskedToCreate(e)
                             /\ ~IsLive(events[e]) => events[e].ownerID = NoUser)'
BY AskedStays DEF QueuesInv, IsLive

LEMMA QueuesStill ==
    ASSUME TypeOK, QueuesInv, asked \subseteq asked', UNCHANGED <<events, queue>>, ChainsGoOn
    PROVE  QueuesInv'
<1>1. (\A c \in Client : \A i \in DOMAIN queue[c] : WriteOfAsked(queue[c][i]))'
  BY AskedStays DEF QueuesInv, WriteOfAsked
<1>2. (\A c \in Client : SetsLead(queue[c]))'
  BY DEF QueuesInv, SetsLead, About
<1>3. QED BY <1>1, <1>2, ChainsOfAskedKept, DocsOfAskedKept DEF QueuesInv

LEMMA QueuesEnqueue ==
    ASSUME TypeOK, QueuesInv, asked \subseteq asked', UNCHANGED events, ChainsGoOn,
           NEW c \in Client, NEW m \in Mutation, Enqueue(c, m),
           m.kind # "user" => AskedToCreate(m.event)',
           m.kind = "event" => ~AskedToCreate(m.event)
    PROVE  QueuesInv'
<1>1. (\A d \in Client : \A i \in DOMAIN queue[d] : WriteOfAsked(queue[d][i]))'
  <2>1. ASSUME NEW d \in Client, NEW i \in DOMAIN queue'[d], NEW k, k = queue'[d][i], k.kind # "user"
        PROVE  AskedToCreate(k.event)'
    <3>1. CASE i \in DOMAIN queue[d] /\ queue'[d][i] = queue[d][i]
      <4>1. WriteOfAsked(k)
        BY <2>1, <3>1 DEF QueuesInv
      <4>2. QED BY <2>1, <4>1, AskedStays
    <3>2. CASE queue'[d][i] = m
      BY <2>1, <3>2
    <3>3. QED BY <3>1, <3>2, EnqueueShape
  <2>2. QED BY <2>1 DEF WriteOfAsked
<1>2. ASSUME NEW d \in Client, NEW i \in DOMAIN queue'[d], NEW j \in DOMAIN queue'[d],
             queue'[d][i].kind = "event", About(queue'[d][j], queue'[d][i].event)
      PROVE  i <= j
  <2>1. CASE i \in DOMAIN queue[d] /\ j \in DOMAIN queue[d]
    BY <1>2, <2>1, EnqueueShape DEF QueuesInv, SetsLead
  <2>2. CASE i \notin DOMAIN queue[d] /\ j \in DOMAIN queue[d]
    <3>1. d = c /\ queue'[d][i] = m /\ queue'[d][j] = queue[d][j]
      BY <2>2, EnqueueShape
    <3>2. AskedToCreate(m.event)
      BY <1>2, <2>2, <3>1 DEF QueuesInv, WriteOfAsked, About
    <3>3. QED BY <1>2, <3>1, <3>2
  <2>3. CASE i \in DOMAIN queue[d] /\ j \notin DOMAIN queue[d]
    <3>1. d = c /\ j = Len(queue[c]) + 1 /\ i \in 1..Len(queue[c])
      BY <2>3, EnqueueShape
    <3>2. Len(queue[c]) \in Nat
      BY DEF TypeOK
    <3>3. QED BY <3>1, <3>2
  <2>4. CASE i \notin DOMAIN queue[d] /\ j \notin DOMAIN queue[d]
    <3>1. i = Len(queue[c]) + 1 /\ j = Len(queue[c]) + 1
      BY <2>4, EnqueueShape
    <3>2. Len(queue[c]) \in Nat
      BY DEF TypeOK
    <3>3. QED BY <3>1, <3>2
  <2>5. QED BY <2>1, <2>2, <2>3, <2>4
<1>3. (\A d \in Client : SetsLead(queue[d]))'
  BY <1>2 DEF SetsLead, About
<1>4. QED BY <1>1, <1>3, ChainsOfAskedKept, DocsOfAskedKept DEF QueuesInv

\* One chain goes on to a call on an event that was asked for, or ends.
LEMMA OneChainGoesOn ==
    ASSUME TypeOK, NEW c \in Client, NEW s \in Slot, NEW call, SetCall(c, s, call),
           ChainOfAsked(call)
    PROVE  ChainsGoOn
BY SetCallShape DEF ChainsGoOn

LEMMA EndsGoOn ==
    ASSUME TypeOK, NEW c \in Client, NEW s \in Slot, End(c, s)
    PROVE  ChainsGoOn
<1>1. ChainOfAsked(NoCall)
  BY DEF ChainOfAsked, NoCall
<1>2. QED BY <1>1, OneChainGoesOn DEF End

LEMMA SameGoesOn ==
    ASSUME TypeOK, QueuesInv, NEW c \in Client, NEW s \in Slot, NEW at, Continue(c, s, at),
           calls[c][s].op \in {"addUser", "addAttendee", "deleteEvent"}
    PROVE  ChainsGoOn
<1> DEFINE call == [calls[c][s] EXCEPT !.at = at]
<1>1. /\ call.op = calls[c][s].op
      /\ call.op # "addUser" => call.event = calls[c][s].event
  BY CallShape
<1>2. ChainOfAsked(call)
  BY <1>1 DEF QueuesInv, ChainOfAsked
<1>3. QED BY <1>2, OneChainGoesOn DEF Continue

\* An event that is listed was asked for.
LEMMA ListedAsked ==
    ASSUME TypeOK, QueuesInv, NEW c \in Client, NEW e \in Event,
           Listed(c, e) \/ EventExists(c, e)
    PROVE  AskedToCreate(e)
<1>1. CASE events[e].state # "unborn"
  BY <1>1 DEF QueuesInv
<1>2. CASE Pending(c, "event", e)
  BY <1>2 DEF Pending, QueuesInv, WriteOfAsked
<1>3. QED BY <1>1, <1>2 DEF Listed, EventExists, IsLive

LEMMA QueuesSignIn ==
    ASSUME TypeOK, QueuesInv, NEW c \in Client,
           SignIn(c) \/ UserDataArrives(c) \/ Logout(c)
    PROVE  QueuesInv'
<1>1. UNCHANGED <<events, queue, asked>>
  BY DEF SignIn, UserDataArrives, Logout, serverVars
<1>2. ChainsGoOn
  <2>1. CASE UNCHANGED calls
    BY <2>1 DEF ChainsGoOn
  <2>2. CASE StartCall(c, [op |-> "addUser", at |-> "user"])
    BY <2>2, OneChainGoesOn DEF StartCall, ChainOfAsked
  <2>3. QED BY <2>1, <2>2 DEF SignIn, UserDataArrives, Logout
<1>3. QED BY <1>1, <1>2, QueuesStill

LEMMA QueuesTaps ==
    ASSUME TypeOK, QueuesInv, NEW c \in Client, NEW e \in Event,
           AddEvent(c, e) \/ TapAdd(c, e) \/ LeaveEvent(c, e) \/ TapDelete(c, e)
    PROVE  QueuesInv'
<1>0. uid[c] \in UserId
  BY DEF TypeOK
<1>1. asked \subseteq asked' /\ UNCHANGED events
  BY DEF AddEvent, TapAdd, LeaveEvent, TapDelete, Tap, serverVars
<1>2. CASE AddEvent(c, e)
  <2>1. Write("event", e, uid[c]) \in Mutation
    BY <1>0 DEF Write, Mutation, WriteKind
  <2> PICK m \in Mutation : m = Write("event", e, uid[c])
    BY <2>1
  <2>2. m.kind = "event" /\ m.event = e
    BY DEF Write
  <2>3. ~AskedToCreate(e)
    BY <1>2 DEF AddEvent, AskedToCreate
  <2>4. AskedToCreate(m.event)'
    BY <1>0, <1>2, <2>2 DEF AddEvent, Tap, AskedToCreate, Ask
  <2>5. ChainOfAsked(EventCall("addEvent", "ack", e, uid[c]))
    BY DEF ChainOfAsked, EventCall
  <2>6. ChainsGoOn
    BY <1>2, <2>5, OneChainGoesOn DEF AddEvent, StartCall
  <2>7. Enqueue(c, m)
    BY <1>2 DEF AddEvent
  <2>8. QED BY <1>1, <2>2, <2>3, <2>4, <2>6, <2>7, QueuesEnqueue
<1>3. CASE TapAdd(c, e) \/ TapDelete(c, e)
  <2>1. AskedToCreate(e) /\ UNCHANGED queue
    BY <1>3, ListedAsked DEF TapAdd, TapDelete
  <2>2. /\ ChainOfAsked(EventCall("addAttendee", "user", e, uid[c]))
        /\ ChainOfAsked(EventCall("deleteEvent", "event", e, uid[c]))
    BY <2>1 DEF ChainOfAsked, EventCall
  <2>3. ChainsGoOn
    BY <1>3, <2>2, OneChainGoesOn DEF TapAdd, TapDelete, StartCall
  <2>4. QED BY <1>1, <2>1, <2>3, QueuesStill
<1>4. CASE LeaveEvent(c, e)
  <2>1. Write("remove", e, uid[c]) \in Mutation
    BY <1>0 DEF Write, Mutation, WriteKind
  <2> PICK m \in Mutation : m = Write("remove", e, uid[c])
    BY <2>1
  <2>2. m.kind = "remove" /\ m.event = e
    BY DEF Write
  <2>3. AskedToCreate(m.event)'
    BY <1>1, <1>4, <2>2, ListedAsked, AskedStays DEF LeaveEvent
  <2>4. ChainsGoOn /\ Enqueue(c, m)
    BY <1>4 DEF LeaveEvent, ChainsGoOn
  <2>5. QED BY <1>1, <2>2, <2>3, <2>4, QueuesEnqueue
<1>5. QED BY <1>2, <1>3, <1>4

LEMMA QueuesReads ==
    ASSUME TypeOK, QueuesInv, NEW c \in Client, NEW s \in Slot,
           \/ AddUserRead(c, s) \/ AttendeeUserRead(c, s)
           \/ AttendeeEventRead(c, s) \/ DeleteRead(c, s)
    PROVE  QueuesInv'
<1>1. UNCHANGED <<events, queue, asked>>
  BY DEF AddUserRead, AttendeeUserRead, AttendeeEventRead, DeleteRead, serverVars
<1>2. /\ calls[c][s].op \in {"addUser", "addAttendee", "deleteEvent"}
      /\ End(c, s) \/ Continue(c, s, "write") \/ Continue(c, s, "event")
  BY Zenon DEF AddUserRead, AttendeeUserRead, AttendeeEventRead, DeleteRead, At
<1>3. ChainsGoOn
  BY <1>2, EndsGoOn, SameGoesOn
<1>4. QED BY <1>1, <1>3, QueuesStill

LEMMA QueuesWrites ==
    ASSUME TypeOK, QueuesInv, NEW c \in Client, NEW s \in Slot,
           AddUserWrite(c, s) \/ AttendeeWrite(c, s) \/ DeleteWrite(c, s)
    PROVE  QueuesInv'
<1>1. UNCHANGED <<events, asked>> /\ ChainsGoOn
  BY EndsGoOn DEF AddUserWrite, AttendeeWrite, DeleteWrite, serverVars
<1>2. ASSUME NEW m \in Mutation, Enqueue(c, m), m.kind # "event",
             m.kind # "user" => AskedToCreate(m.event)
      PROVE  QueuesInv'
  <2>1. m.kind # "user" => AskedToCreate(m.event)'
    BY <1>1, <1>2, AskedStays
  <2>2. QED BY <1>1, <1>2, <2>1, QueuesEnqueue
<1>3. CASE AddUserWrite(c, s)
  <2>1. NewUser(UserOf[c]) \in Mutation /\ NewUser(UserOf[c]).kind = "user"
    BY ClientAssumption DEF NewUser, Mutation
  <2>2. QED BY <1>2, <1>3, <2>1 DEF AddUserWrite
<1>4. ASSUME NEW k \in {"union", "delete"}, calls[c][s].op \in {"addAttendee", "deleteEvent"},
             Enqueue(c, Write(k, calls[c][s].event, calls[c][s].uid))
      PROVE  QueuesInv'
  <2>1. Write(k, calls[c][s].event, calls[c][s].uid) \in Mutation
    BY <1>4, CallShape DEF Write, Mutation, WriteKind, UserId
  <2>2. /\ Write(k, calls[c][s].event, calls[c][s].uid).event = calls[c][s].event
        /\ Write(k, calls[c][s].event, calls[c][s].uid).kind = k
    BY DEF Write
  <2>3. AskedToCreate(calls[c][s].event)
    BY <1>4 DEF QueuesInv, ChainOfAsked
  <2>4. QED BY <1>2, <1>4, <2>1, <2>2, <2>3
<1>5. QED BY <1>3, <1>4 DEF AttendeeWrite, DeleteWrite, At

\* A write leaves a document without an owner only where there is none.
LEMMA QueuesCommit ==
    ASSUME TypeOK, QueuesInv, NEW c \in Client, Commit(c)
    PROVE  QueuesInv'
<1> DEFINE m == NextWrite(c)
<1>1. UNCHANGED <<queue, calls, asked>> /\ Unhandled(c)
  BY DEF Commit
<1>2. CASE CommitUser(c, m)
  BY <1>1, <1>2, QueuesStill DEF CommitUser, ChainsGoOn
<1>3. CASE CommitEvent(c, m)
  <2>1. /\ m \in Mutation /\ m.event \in Event
        /\ m = queue[c][Len(answers[c]) + 1] /\ Len(answers[c]) + 1 \in DOMAIN queue[c]
        /\ \A e \in Event : e # m.event => events'[e] = events[e]
        /\ events'[m.event] = Applied(m, events[m.event])
        /\ m.kind \in {"event", "union", "remove", "delete"}
        /\ Accepted(m, events[m.event])
    BY <1>1, <1>3, CommitDocs DEF CommitEvent, Mutation, WriteKind
  <2>2. AskedToCreate(m.event)
    BY <2>1 DEF QueuesInv, WriteOfAsked
  <2>3. events[m.event] \in Doc
    BY <2>1 DEF TypeOK
  <2>4. ~IsLive(events[m.event]) => events[m.event].ownerID = NoUser
    BY <2>1 DEF QueuesInv
  <2>5. ~IsLive(events'[m.event]) => events'[m.event].ownerID = NoUser
    BY <2>1, <2>3, <2>4, AppliedOwner
  <2>6. \A e \in Event : /\ events'[e].state # "unborn" => AskedToCreate(e)
                         /\ ~IsLive(events'[e]) => events'[e].ownerID = NoUser
    BY <2>1, <2>2, <2>5 DEF QueuesInv
  <2>7. (\A e \in Event : /\ events[e].state # "unborn" => AskedToCreate(e)
                          /\ ~IsLive(events[e]) => events[e].ownerID = NoUser)'
    BY <1>1, <2>6 DEF AskedToCreate, IsLive
  <2>8. (\A d \in Client : \A i \in DOMAIN queue[d] : WriteOfAsked(queue[d][i]))'
    BY <1>1 DEF QueuesInv, WriteOfAsked, AskedToCreate
  <2>9. (\A d \in Client : SetsLead(queue[d]))'
    BY <1>1 DEF QueuesInv, SetsLead, About
  <2>10. ChainsGoOn
    BY <1>1 DEF ChainsGoOn
  <2>11. QED BY <1>1, <2>7, <2>8, <2>9, <2>10, ChainsOfAskedKept DEF QueuesInv
<1>4. QED BY <1>2, <1>3 DEF Commit

LEMMA QueuesAcknowledge ==
    ASSUME TypeOK, QueuesInv, NEW c \in Client, Acknowledge(c)
    PROVE  QueuesInv'
<1> DEFINE m == Head(queue[c])
<1>1. UNCHANGED <<events, asked>> /\ m \in Mutation /\ m = queue[c][1] /\ 1 \in DOMAIN queue[c]
  BY AckShape
<1>2. ASSUME NEW s \in Slot, s \in Waiting(c, m)
      PROVE  ChainOfAsked(AfterAck(c, m))
  <2>1. AskedToCreate(m.event)
    BY <1>1, <1>2 DEF Waiting, QueuesInv, WriteOfAsked
  <2>2. AfterAck(c, m) = NoCall \/ AfterAck(c, m).event = m.event
    BY DEF AfterAck, EventCall
  <2>3. QED BY <2>1, <2>2 DEF ChainOfAsked, NoCall
<1>3. ASSUME NEW d \in Client, NEW t \in Slot
      PROVE  \/ calls'[d][t] = calls[d][t]
             \/ d = c /\ t \in Waiting(c, m) /\ calls'[d][t] = AfterAck(c, m)
  BY DEF Acknowledge, TypeOK
<1>4. ChainsGoOn
  BY <1>2, <1>3 DEF ChainsGoOn
<1>5. \A d \in Client : \A i \in DOMAIN queue'[d] : \E k \in DOMAIN queue[d] :
         /\ queue'[d][i] = queue[d][k]
         /\ IF d = c THEN i \in Nat /\ k = i + 1 ELSE k = i
  BY AckShape
<1>6. ASSUME NEW d \in Client, NEW i \in DOMAIN queue'[d]
      PROVE  WriteOfAsked(queue'[d][i])
  BY <1>5 DEF QueuesInv
<1>7. (\A d \in Client : \A i \in DOMAIN queue[d] : WriteOfAsked(queue[d][i]))'
  BY <1>1, <1>6 DEF WriteOfAsked, AskedToCreate
<1>8. ASSUME NEW d \in Client, NEW i \in DOMAIN queue'[d], NEW j \in DOMAIN queue'[d],
             queue'[d][i].kind = "event", About(queue'[d][j], queue'[d][i].event)
      PROVE  i <= j
  <2>1. CASE d # c
    BY <1>5, <1>8, <2>1 DEF QueuesInv, SetsLead
  <2>2. CASE d = c
    <3>1. /\ i \in Nat /\ i + 1 \in DOMAIN queue[c] /\ queue'[c][i] = queue[c][i + 1]
          /\ j \in Nat /\ j + 1 \in DOMAIN queue[c] /\ queue'[c][j] = queue[c][j + 1]
      BY <2>2, AckShape
    <3>2. i + 1 <= j + 1
      BY <1>8, <2>2, <3>1 DEF QueuesInv, SetsLead
    <3>3. QED BY <3>1, <3>2
  <2>3. QED BY <2>1, <2>2
<1>9. (\A d \in Client : SetsLead(queue[d]))'
  BY <1>8 DEF SetsLead, About
<1>10. QED
  BY <1>1, <1>4, <1>7, <1>9, ChainsOfAskedKept, DocsOfAskedKept DEF QueuesInv

LEMMA QueuesFaults ==
    ASSUME TypeOK, QueuesInv, NEW c \in Client, Refuse(c) \/ Resend(c) \/ Crash(c)
    PROVE  QueuesInv'
<1>1. UNCHANGED <<events, queue, asked>>
  BY DEF Refuse, Resend, Crash, serverVars
<1>2. \A d \in Client, t \in Slot : calls'[d][t] = calls[d][t] \/ calls'[d][t] = NoCall
  <2>1. CASE Refuse(c) \/ Resend(c)
    BY <2>1 DEF Refuse, Resend
  <2>2. CASE Crash(c)
    BY <2>2 DEF Crash, TypeOK
  <2>3. QED BY <2>1, <2>2
<1>3. ChainsGoOn
  BY <1>2 DEF ChainsGoOn, ChainOfAsked, NoCall
<1>4. QED BY <1>1, <1>3, QueuesStill

LEMMA QueuesStep == TypeOK /\ QueuesInv /\ [Next]_vars => QueuesInv'
<1> SUFFICES ASSUME TypeOK, QueuesInv, [Next]_vars PROVE QueuesInv'
  OBVIOUS
<1>1. CASE UNCHANGED vars
  BY <1>1, QueuesStill DEF vars, serverVars, clientVars, ChainsGoOn
<1>2. ASSUME NEW c \in Client, Environment(c) PROVE QueuesInv'
  BY <1>2, QueuesSignIn, QueuesTaps, QueuesFaults DEF Environment
<1>3. ASSUME NEW c \in Client, Network(c) PROVE QueuesInv'
  BY <1>3, QueuesSignIn, QueuesCommit, QueuesAcknowledge DEF Network
<1>4. ASSUME NEW c \in Client, NEW s \in Slot, Chain(c, s) PROVE QueuesInv'
  BY <1>4, QueuesReads, QueuesWrites DEF Chain
<1>5. QED BY <1>1, <1>2, <1>3, <1>4 DEF Next

-----------------------------------------------------------------------------
(* A read shows the pending writes: what a queue makes of a document *)

\* Induction, as a fact about sets.
LEMMA SetInduction ==
    ASSUME NEW T \in SUBSET Nat, 0 \in T, \A n \in T : n + 1 \in T
    PROVE  T = Nat
<1>1. SUFFICES ASSUME Nat \ T # {}
               PROVE  FALSE
  OBVIOUS
<1>2. \E n \in Nat \ T : \A m \in Nat \ T : ~(<<m, n>> \in OpToRel(<, Nat))
  <2>1. Nat \ T \subseteq Nat
    OBVIOUS
  <2>2. QED BY <1>1, <2>1, WFMin, NatLessThanWellFounded, Zenon
<1>3. PICK n \in Nat \ T : \A m \in Nat \ T : ~(m < n)
  BY <1>2 DEF OpToRel
<1>4. n # 0 /\ n - 1 \in Nat /\ n - 1 < n /\ (n - 1) + 1 = n
  OBVIOUS
<1>5. n - 1 \in T
  BY <1>3, <1>4
<1>6. QED BY <1>4, <1>5

\* There are as many layers as a queue has writes: the recursion is sound.
LEMMA LayersAt ==
    ASSUME NEW doc, NEW q \in Seq(Mutation), NEW e
    PROVE  /\ Layers(doc, q, e)[0] = doc
           /\ \A n \in 0..(Len(q) - 1) :
                 Layers(doc, q, e)[n + 1] = Laid(q[n + 1], Layers(doc, q, e)[n], e)
<1> DEFINE Recurs(n, f) ==
               f = [i \in 0..n |-> IF i = 0 THEN doc ELSE Laid(q[i], f[i - 1], e)]
           T == {n \in Nat : \E f : Recurs(n, f)}
<1>0. Len(q) \in Nat
  OBVIOUS
<1>1. 0 \in T
  <2>1. Recurs(0, [i \in 0..0 |-> doc])
    OBVIOUS
  <2>2. QED BY <2>1
<1>2. ASSUME NEW n \in T PROVE n + 1 \in T
  <2>1. PICK f : Recurs(n, f)
    BY <1>2
  <2> DEFINE g == [i \in 0..(n + 1) |-> IF i <= n THEN f[i] ELSE Laid(q[n + 1], f[n], e)]
  <2>2. ASSUME NEW i \in 0..(n + 1)
        PROVE  g[i] = IF i = 0 THEN doc ELSE Laid(q[i], g[i - 1], e)
    <3>1. CASE i = 0
      BY <2>1, <3>1
    <3>2. CASE i \in 1..n
      <4>1. g[i] = f[i] /\ g[i - 1] = f[i - 1] /\ i \in 0..n
        BY <3>2
      <4>2. f[i] = Laid(q[i], f[i - 1], e)
        BY <2>1, <3>2
      <4>3. QED BY <3>2, <4>1, <4>2
    <3>3. CASE i = n + 1
      BY <3>3
    <3>4. QED BY <3>1, <3>2, <3>3
  <2>3. Recurs(n + 1, g)
    BY <2>2
  <2>4. n + 1 \in Nat
    OBVIOUS
  <2>5. QED BY <2>3, <2>4
<1>3. T = Nat
  <2> HIDE DEF T
  <2>1. T \in SUBSET Nat
    BY DEF T
  <2>2. QED BY <1>1, <1>2, <2>1, SetInduction
<1>4. \E f : Recurs(Len(q), f)
  BY <1>0, <1>3
<1>5. Recurs(Len(q), Layers(doc, q, e))
  BY <1>4, Zenon DEF Layers
<1> HIDE DEF T
<1>6. ASSUME NEW n \in 0..Len(q)
      PROVE  Layers(doc, q, e)[n] = IF n = 0 THEN doc ELSE Laid(q[n], Layers(doc, q, e)[n - 1], e)
  BY <1>5
<1>7. QED BY <1>0, <1>6

\* What the first n writes of a queue say of event e: they set it, they delete
\* it, the last of them to add or remove u does so by k.
SetBy(q, n, e) == \E i \in 1..n : q[i].kind = "event" /\ q[i].event = e
GoneBy(q, n, e) == \E i \in 1..n : q[i].kind = "delete" /\ q[i].event = e
Touch(e, u) == {Write("union", e, u), Write("remove", e, u)}
TouchedBy(q, n, k, e, u) ==
    \E i \in 1..n : /\ q[i] = Write(k, e, u)
                    /\ \A j \in 1..n : q[j] \in Touch(e, u) => j <= i

\* d is the document e that those writes leave of doc.
LeftBy(q, n, e, doc, d) ==
    /\ d \in Doc
    /\ IsLive(d) <=> (IsLive(doc) \/ SetBy(q, n, e)) /\ ~GoneBy(q, n, e)
    /\ ~IsLive(d) => d.ownerID = NoUser
    /\ IsLive(d) =>
          /\ \A i \in 1..n : q[i].kind = "event" /\ q[i].event = e => d.ownerID = q[i].uid
          /\ ~SetBy(q, n, e) => d.ownerID = doc.ownerID
          /\ \A u \in UserId :
                u \in d.attendees <=>
                   \/ TouchedBy(q, n, "union", e, u)
                   \/ /\ ~TouchedBy(q, n, "remove", e, u)
                      /\ u \in doc.attendees /\ ~SetBy(q, n, e)

LEMMA WriteAt ==
    ASSUME NEW q \in Seq(Mutation), NEW i \in 1..Len(q)
    PROVE  /\ q[i] \in Mutation
           /\ q[i].kind \in WriteKind
           /\ q[i].kind # "user" => q[i].event \in Event /\ q[i].uid \in UserId
           /\ q[i].kind # "user" => q[i] = Write(q[i].kind, q[i].event, q[i].uid)
<1>1. q[i] \in Mutation
  OBVIOUS
<1>2. QED BY <1>1 DEF Mutation, WriteKind, Write

\* One write more.
LEMMA OneMore ==
    ASSUME NEW q \in Seq(Mutation), NEW n \in 0..(Len(q) - 1), NEW e
    PROVE  LET m == q[n + 1]
           IN  /\ SetBy(q, n + 1, e) <=> SetBy(q, n, e) \/ (m.kind = "event" /\ m.event = e)
               /\ GoneBy(q, n + 1, e) <=> GoneBy(q, n, e) \/ (m.kind = "delete" /\ m.event = e)
               /\ \A k, u : m \notin Touch(e, u) /\ k \in {"union", "remove"} =>
                     (TouchedBy(q, n + 1, k, e, u) <=> TouchedBy(q, n, k, e, u))
<1> DEFINE m == q[n + 1]
<1>1. n \in Nat /\ n + 1 \in 1..(n + 1) /\ \A i : i \in 1..(n + 1) <=> i \in 1..n \/ i = n + 1
  OBVIOUS
<1>2. /\ SetBy(q, n + 1, e) <=> SetBy(q, n, e) \/ (m.kind = "event" /\ m.event = e)
      /\ GoneBy(q, n + 1, e) <=> GoneBy(q, n, e) \/ (m.kind = "delete" /\ m.event = e)
  BY <1>1, Zenon DEF SetBy, GoneBy
<1>3. ASSUME NEW k \in {"union", "remove"}, NEW u, m \notin Touch(e, u)
      PROVE  TouchedBy(q, n + 1, k, e, u) <=> TouchedBy(q, n, k, e, u)
  <2>1. m # Write(k, e, u)
    BY <1>3 DEF Touch
  <2>2. QED BY <1>1, <1>3, <2>1, Zenon DEF TouchedBy
<1>4. QED BY <1>2, <1>3

\* The last write decides, if it adds or removes u.
LEMMA LastDecides ==
    ASSUME NEW q \in Seq(Mutation), NEW n \in 0..(Len(q) - 1), NEW e, NEW u,
           q[n + 1] \in Touch(e, u), NEW k \in {"union", "remove"}
    PROVE  TouchedBy(q, n + 1, k, e, u) <=> q[n + 1] = Write(k, e, u)
<1>1. n + 1 \in 1..(n + 1) /\ \A j \in 1..(n + 1) : j <= n + 1
  OBVIOUS
<1>2. ASSUME q[n + 1] = Write(k, e, u) PROVE TouchedBy(q, n + 1, k, e, u)
  BY <1>1, <1>2, Zenon DEF TouchedBy
<1>3. ASSUME TouchedBy(q, n + 1, k, e, u) PROVE q[n + 1] = Write(k, e, u)
  <2>1. PICK i \in 1..(n + 1) : q[i] = Write(k, e, u) /\ n + 1 <= i
    BY <1>1, <1>3, Zenon DEF TouchedBy
  <2>2. i = n + 1
    BY <2>1
  <2>3. QED BY <2>1, <2>2
<1>4. QED BY <1>2, <1>3

LEMMA LeftByOneMore ==
    ASSUME NEW q \in Seq(Mutation), NEW n \in 0..(Len(q) - 1), NEW e \in Event, SetsLead(q),
           NEW doc \in Doc, NEW d, LeftBy(q, n, e, doc, d)
    PROVE  LeftBy(q, n + 1, e, doc, Laid(q[n + 1], d, e))
<1> DEFINE m == q[n + 1]
           after == Laid(m, d, e)
<1>0. /\ n \in Nat /\ n + 1 \in 1..Len(q) /\ DOMAIN q = 1..Len(q)
      /\ \A i \in 1..n : i \in 1..Len(q) /\ ~(n + 1 <= i) /\ i \in 1..(n + 1)
      /\ \A i \in 1..(n + 1) : i \in 1..n \/ i = n + 1
  OBVIOUS
<1>1. m.kind \in WriteKind /\ (m.kind # "user" => m.uid \in UserId /\ m = Write(m.kind, m.event, m.uid))
  BY <1>0, WriteAt
<1>2. ASSUME ~About(m, e)
      PROVE  LeftBy(q, n + 1, e, doc, after)
  <2>1. after = d
    BY <1>2 DEF Laid, About
  <2>2. \A u : m \notin Touch(e, u)
    BY <1>2 DEF Touch, Write, About
  <2>3. ~(m.kind = "event" /\ m.event = e) /\ ~(m.kind = "delete" /\ m.event = e)
    BY <1>2 DEF About
  <2>4. /\ SetBy(q, n + 1, e) <=> SetBy(q, n, e)
        /\ GoneBy(q, n + 1, e) <=> GoneBy(q, n, e)
        /\ \A u : /\ TouchedBy(q, n + 1, "union", e, u) <=> TouchedBy(q, n, "union", e, u)
                  /\ TouchedBy(q, n + 1, "remove", e, u) <=> TouchedBy(q, n, "remove", e, u)
    BY <2>2, <2>3, OneMore
  <2>5. \A i \in 1..(n + 1) : q[i].kind = "event" /\ q[i].event = e => i \in 1..n
    BY <1>0, <2>3
  <2>6. QED BY <2>1, <2>4, <2>5 DEF LeftBy
<1>3. CASE About(m, e) /\ m.kind = "event"
  <2>1. \A i \in 1..n : ~About(q[i], e)
    BY <1>0, <1>3 DEF SetsLead, About
  <2>2. after = NewEvent(m.uid)
    BY <1>3 DEF Laid, About, Accepted, Applied
  <2>3. after \in Doc /\ IsLive(after) /\ after.ownerID = m.uid /\ after.attendees = {}
    BY <1>1, <1>3, <2>2 DEF NewEvent, Doc, IsLive
  <2>4. ~GoneBy(q, n, e) /\ SetBy(q, n + 1, e) /\ ~GoneBy(q, n + 1, e)
    <3>1. ~GoneBy(q, n, e)
      BY <2>1 DEF About, GoneBy
    <3>2. m.kind = "event" /\ m.event = e /\ m.kind # "delete"
      BY <1>3 DEF About
    <3>3. QED BY <3>1, <3>2, OneMore
  <2>5. \A u : m \notin Touch(e, u)
    BY <1>3 DEF Touch, Write
  <2>6. \A u : ~TouchedBy(q, n, "union", e, u)
    BY <2>1 DEF TouchedBy, Write, About
  <2>7. \A u : ~TouchedBy(q, n + 1, "union", e, u)
    BY <2>5, <2>6, OneMore
  <2>8. \A i \in 1..(n + 1) : q[i].kind = "event" /\ q[i].event = e => i = n + 1
    BY <1>0, <2>1 DEF About
  <2>9. QED BY <2>3, <2>4, <2>7, <2>8 DEF LeftBy
<1>4. CASE About(m, e) /\ m.kind = "delete"
  <2>1. after = IF IsLive(d) THEN Deleted ELSE d
    BY <1>4 DEF Laid, About, Accepted, Applied
  <2>2. after \in Doc /\ ~IsLive(after) /\ after.ownerID = NoUser
    BY <2>1 DEF LeftBy, IsLive, Deleted, Doc, UserId
  <2>3. GoneBy(q, n + 1, e)
    BY <1>4, OneMore DEF About
  <2>4. QED BY <2>2, <2>3 DEF LeftBy
<1>5. CASE About(m, e) /\ m.kind \in {"union", "remove"}
  <2>1. ~(m.kind = "event" /\ m.event = e) /\ ~(m.kind = "delete" /\ m.event = e)
    BY <1>5
  <2>2. (SetBy(q, n + 1, e) <=> SetBy(q, n, e)) /\ (GoneBy(q, n + 1, e) <=> GoneBy(q, n, e))
    BY <2>1, OneMore
  <2>3. \A i \in 1..(n + 1) : q[i].kind = "event" /\ q[i].event = e => i \in 1..n
    BY <1>0, <2>1
  <2>4. CASE ~IsLive(d)
    <3>1. after = d
      BY <1>5, <2>4 DEF Laid, Accepted
    <3>2. QED BY <2>2, <2>4, <3>1 DEF LeftBy
  <2>5. CASE IsLive(d)
    <3>1. /\ m.kind = "union" => after = [d EXCEPT !.attendees = @ \cup {m.uid}]
          /\ m.kind = "remove" => after = [d EXCEPT !.attendees = @ \ {m.uid}]
      BY <1>5, <2>5 DEF Laid, Accepted, Applied, About
    <3>2. /\ after \in Doc /\ IsLive(after) /\ after.ownerID = d.ownerID
          /\ m.kind = "union" => after.attendees = d.attendees \cup {m.uid}
          /\ m.kind = "remove" => after.attendees = d.attendees \ {m.uid}
      BY <1>1, <1>5, <2>5, <3>1 DEF LeftBy, Doc, IsLive
    <3>3. ASSUME NEW u \in UserId
          PROVE  u \in after.attendees <=>
                    \/ TouchedBy(q, n + 1, "union", e, u)
                    \/ /\ ~TouchedBy(q, n + 1, "remove", e, u)
                       /\ u \in doc.attendees /\ ~SetBy(q, n + 1, e)
      <4>1. CASE u = m.uid
        <5>1. m = Write(m.kind, e, u) /\ m \in Touch(e, u)
          BY <1>1, <1>5, <4>1 DEF About, Touch
        <5>2. /\ m.kind = "union" => m # Write("remove", e, u)
              /\ m.kind = "remove" => m # Write("union", e, u)
          BY DEF Write
        <5>3. /\ m.kind = "union" => TouchedBy(q, n + 1, "union", e, u)
              /\ m.kind = "remove" => /\ TouchedBy(q, n + 1, "remove", e, u)
                                      /\ ~TouchedBy(q, n + 1, "union", e, u)
          <6>1. /\ TouchedBy(q, n + 1, "union", e, u) <=> m = Write("union", e, u)
                /\ TouchedBy(q, n + 1, "remove", e, u) <=> m = Write("remove", e, u)
            BY <5>1, LastDecides
          <6>2. QED BY <5>1, <5>2, <6>1, Zenon
        <5>4. /\ m.kind = "union" => u \in after.attendees
              /\ m.kind = "remove" => u \notin after.attendees
          BY <3>2, <4>1
        <5>5. m.kind = "union" \/ m.kind = "remove"
          BY <1>5
        <5> HIDE DEF after
        <5>6. QED BY <5>3, <5>4, <5>5
      <4>2. CASE u # m.uid
        <5>1. m \notin Touch(e, u)
          BY <4>2 DEF Touch, Write
        <5>2. /\ TouchedBy(q, n + 1, "union", e, u) <=> TouchedBy(q, n, "union", e, u)
              /\ TouchedBy(q, n + 1, "remove", e, u) <=> TouchedBy(q, n, "remove", e, u)
          BY <5>1, OneMore
        <5>3. u \in after.attendees <=> u \in d.attendees
          BY <1>5, <3>2, <4>2
        <5>4. QED BY <2>2, <2>5, <5>2, <5>3 DEF LeftBy
      <4>3. QED BY <4>1, <4>2
    <3>4. QED BY <2>2, <2>3, <2>5, <3>2, <3>3 DEF LeftBy
  <2>6. QED BY <2>4, <2>5
<1>6. QED BY <1>1, <1>2, <1>3, <1>4, <1>5 DEF About, WriteKind

\* The whole queue.
LEMMA LeftByAll ==
    ASSUME NEW q \in Seq(Mutation), NEW e \in Event, SetsLead(q), NEW doc \in Doc,
           ~IsLive(doc) => doc.ownerID = NoUser
    PROVE  LeftBy(q, Len(q), e, doc, Layers(doc, q, e)[Len(q)])
<1> DEFINE T == {n \in Nat : n <= Len(q) => LeftBy(q, n, e, doc, Layers(doc, q, e)[n])}
<1>0. Len(q) \in Nat
  OBVIOUS
<1>1. 0 \in T
  <2>1. Layers(doc, q, e)[0] = doc
    BY LayersAt
  <2>2. \A i : i \notin 1..0
    OBVIOUS
  <2>3. ~SetBy(q, 0, e) /\ ~GoneBy(q, 0, e)
    BY <2>2 DEF SetBy, GoneBy
  <2>4. \A k, u : ~TouchedBy(q, 0, k, e, u)
    BY <2>2 DEF TouchedBy
  <2>5. LeftBy(q, 0, e, doc, doc)
    BY <2>2, <2>3, <2>4 DEF LeftBy
  <2>6. QED BY <2>1, <2>5
<1>2. ASSUME NEW n \in T PROVE n + 1 \in T
  <2>1. n + 1 \in Nat /\ n \in Nat
    OBVIOUS
  <2>2. ASSUME n + 1 <= Len(q)
        PROVE  LeftBy(q, n + 1, e, doc, Layers(doc, q, e)[n + 1])
    <3>1. n \in 0..(Len(q) - 1) /\ n <= Len(q)
      BY <1>0, <2>1, <2>2
    <3>2. LeftBy(q, n, e, doc, Layers(doc, q, e)[n])
      BY <3>1
    <3>3. Layers(doc, q, e)[n + 1] = Laid(q[n + 1], Layers(doc, q, e)[n], e)
      BY <3>1, LayersAt
    <3>4. QED BY <3>1, <3>2, <3>3, LeftByOneMore
  <2>3. QED BY <2>1, <2>2
<1>3. T = Nat
  <2> HIDE DEF T
  <2>1. T \in SUBSET Nat
    BY DEF T
  <2>2. QED BY <1>1, <1>2, <2>1, SetInduction
<1>4. QED BY <1>0, <1>3

\* The three questions are answered as the overlay answers them.
LEMMA ReadsShow ==
    ASSUME TypeOK, QueuesInv, NEW c \in Client, NEW e \in Event, NEW u \in UserId
    PROVE  /\ EventExists(c, e) <=> IsLive(Overlay(c, e))
           /\ OwnerIs(c, e, u) <=> Overlay(c, e).ownerID = u
           /\ IsLive(Overlay(c, e)) => (SeenAttending(c, e, u) <=> u \in Overlay(c, e).attendees)
<1> DEFINE q == queue[c]
           N == Len(queue[c])
           d == Overlay(c, e)
<1>1. q \in Seq(Mutation) /\ DOMAIN q = 1..N /\ events[e] \in Doc /\ SetsLead(q)
  BY DEF TypeOK, QueuesInv
<1>2. LeftBy(q, N, e, events[e], d)
  BY <1>1, LeftByAll DEF QueuesInv, Overlay
<1>3. (Pending(c, "event", e) <=> SetBy(q, N, e)) /\ (Pending(c, "delete", e) <=> GoneBy(q, N, e))
  BY <1>1 DEF Pending, SetBy, GoneBy
<1>4. EventExists(c, e) <=> IsLive(d)
  BY <1>2, <1>3 DEF EventExists, LeftBy
<1>5. OwnerIs(c, e, u) <=> d.ownerID = u
  <2>1. CASE ~EventExists(c, e)
    BY <1>2, <1>4, <2>1 DEF OwnerIs, LeftBy
  <2>2. CASE EventExists(c, e) /\ ~SetBy(q, N, e)
    <3>1. d.ownerID = events[e].ownerID
      BY <1>2, <1>4, <2>2 DEF LeftBy
    <3>2. \A i \in DOMAIN q : q[i] # Write("event", e, u)
      BY <1>1, <2>2 DEF SetBy, Write
    <3>3. QED BY <1>3, <2>2, <3>1, <3>2 DEF OwnerIs
  <2>3. CASE EventExists(c, e) /\ SetBy(q, N, e)
    <3>1. PICK i \in 1..N : q[i].kind = "event" /\ q[i].event = e
      BY <2>3 DEF SetBy
    <3>2. q[i] = Write("event", e, q[i].uid)
      BY <1>1, <3>1, WriteAt
    <3>3. \A j \in 1..N : q[j].kind = "event" /\ q[j].event = e => d.ownerID = q[j].uid
      BY <1>2, <1>4, <2>3 DEF LeftBy
    <3>4. ASSUME d.ownerID = u PROVE OwnerIs(c, e, u)
      BY <1>1, <2>3, <3>1, <3>2, <3>3, <3>4 DEF OwnerIs
    <3>5. ASSUME OwnerIs(c, e, u) PROVE d.ownerID = u
      <4>1. PICK j \in DOMAIN q : q[j] = Write("event", e, u)
        BY <1>3, <2>3, <3>5 DEF OwnerIs
      <4>2. QED BY <1>1, <3>3, <4>1 DEF Write
    <3>6. QED BY <3>4, <3>5
  <2>4. QED BY <2>1, <2>2, <2>3
<1>6. ASSUME IsLive(d) PROVE SeenAttending(c, e, u) <=> u \in d.attendees
  <2>1. SeenAttending(c, e, u) <=>
           \/ TouchedBy(q, N, "union", e, u)
           \/ /\ ~TouchedBy(q, N, "remove", e, u)
              /\ u \in events[e].attendees /\ ~SetBy(q, N, e)
    BY <1>1, <1>3, Zenon DEF SeenAttending, TouchedBy, Touch
  <2>2. QED BY <1>2, <1>6, <2>1 DEF LeftBy
<1>7. QED BY <1>4, <1>5, <1>6

\* In every state that chains, failures, crashes and writes applied again can
\* bring about, reading an event through a queue of any length shows the server's
\* document under the writes that are pending, in their order.
THEOREM ReadsAreOverlays == Spec => []ReadsShowPendingWrites
<1>1. TypeOK /\ QueuesInv => ReadsShowPendingWrites
  BY ReadsShow DEF ReadsShowPendingWrites
<1>2. Spec => []QueuesInv
  BY QueuesInit, QueuesStep, TypeCorrect, PTL DEF Spec
<1>3. QED BY <1>1, <1>2, TypeCorrect, PTL
=============================================================================
