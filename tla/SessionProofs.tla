---------------------------- MODULE SessionProofs ----------------------------
(***************************************************************************)
(* The tabs open at most once per press of the sign-in button: proved for  *)
(* any number of accounts, overlapping calls, presses and restarts.        *)
(*                                                                         *)
(* The argument counts what a press can still lead to: a request that      *)
(* Google Sign-In holds for the button, an answer to it, a sign-in to      *)
(* Firebase, and tabs about to open.                                       *)
(***************************************************************************)
EXTENDS Session, FiniteSetTheorems, TLAPS

\* The account of a call, and the flags of an answer.
LEMMA CallShape ==
    ASSUME TypeOK, NEW s \in Slot
    PROVE  /\ calls[s] \in Call \cup {None}
           /\ calls[s].at \in {"silent", "firebase", "tabs", "signInProfile", "tabProfile"}
                => calls[s].user \in Account
           /\ calls[s].at \in {"cached", "answer"} => calls[s].of \in Requester
           /\ calls[s].at = "answer" => calls[s].ok \in BOOLEAN
BY DEF TypeOK, Call, None

LEMMA SetCallType ==
    ASSUME TypeOK, NEW s \in Slot, NEW call \in Call \cup {None}, SetCall(s, call)
    PROVE  calls' \in [Slot -> Call \cup {None}]
BY DEF TypeOK, SetCall

LEMMA AnswerType ==
    ASSUME NEW r \in Requester, NEW ok \in BOOLEAN
    PROVE  Answer(r, ok) \in Call
BY DEF Answer, Call

LEMMA UserCallType ==
    ASSUME NEW u \in Account
    PROVE  /\ Silent(u) \in Call
           /\ \A at \in {"firebase", "tabs", "signInProfile", "tabProfile"} :
                 UserCall(at, u) \in Call
BY DEF Silent, UserCall, Call

LEMMA TypeInit == Init => TypeOK
<1> SUFFICES ASSUME Init PROVE TypeOK
  OBVIOUS
<1>1. {keychain, current, firebase, shown} \subseteq Account \cup {NoUser}
  BY DEF Init
<1>2. calls \in [Slot -> Call \cup {None}]
  BY DEF Init
<1>3. taps \in 0..MaxTaps /\ kills \in 0..MaxKills
  BY SessionAssumption DEF Init, SessionAssumption
<1>4. presses \in Int
  BY DEF Init
<1>5. options \in Requester \cup {"none"} /\ loggedIn \in BOOLEAN
      /\ due \subseteq {"launch", "check"} /\ waiting \subseteq Requester
  BY DEF Init
<1>6. QED BY <1>1, <1>2, <1>3, <1>4, <1>5 DEF TypeOK

LEMMA TypeAuthenticate ==
    ASSUME TypeOK, NEW r \in Requester, NEW s \in Slot, Authenticate(r, s)
    PROVE  calls' \in [Slot -> Call \cup {None}] /\ options' \in Requester \cup {"none"}
<1>1. CASE keychain # NoUser
  <2>1. Silent(keychain) \in Call
    BY <1>1, UserCallType DEF TypeOK
  <2>2. QED BY <1>1, <2>1, SetCallType DEF Authenticate
<1>2. CASE keychain = NoUser
  BY <1>2, AnswerType, SetCallType DEF Authenticate
<1>3. QED BY <1>1, <1>2

LEMMA TypeComplete ==
    ASSUME TypeOK, NEW s \in Slot, NEW ok \in BOOLEAN, Complete(s, ok)
    PROVE  calls' \in [Slot -> Call \cup {None}] /\ options' \in Requester \cup {"none"}
<1>1. (IF options = "none" THEN None ELSE Answer(options, ok)) \in Call \cup {None}
  BY AnswerType DEF TypeOK
<1>2. QED BY <1>1, SetCallType DEF Complete

\* The steps of Google Sign-In.
LEMMA TypeGoogle ==
    ASSUME TypeOK,
           \/ \E r \in due : Restore(r)
           \/ \E s \in Slot : CachedDone(s) \/ SilentDone(s) \/ SheetDone(s)
    PROVE  TypeOK'
<1>1. ASSUME NEW r \in due, Restore(r) PROVE TypeOK'
  <2>1. r \in Requester
    BY DEF TypeOK, Requester
  <2>2. calls' \in [Slot -> Call \cup {None}] /\ options' \in Requester \cup {"none"}
    <3>1. PICK s \in Slot :
             IF current # NoUser
             THEN SetCall(s, [at |-> "cached", of |-> r]) /\ options' = r
             ELSE Authenticate(r, s)
      BY <1>1 DEF Restore
    <3>2. [at |-> "cached", of |-> r] \in Call
      BY <2>1 DEF Call
    <3>3. QED BY <2>1, <3>1, <3>2, SetCallType, TypeAuthenticate
  <2>3. QED BY <1>1, <2>1, <2>2 DEF Restore, app, TypeOK
<1>2. ASSUME NEW s \in Slot, CachedDone(s) PROVE TypeOK'
  <2>1. calls[s].of \in Requester
    BY <1>2, CallShape DEF CachedDone
  <2>2. calls' \in [Slot -> Call \cup {None}] /\ options' \in Requester \cup {"none"}
    BY <1>2, <2>1, AnswerType, SetCallType, TypeAuthenticate DEF CachedDone
  <2>3. QED BY <1>2, <2>2 DEF CachedDone, app, TypeOK
<1>3. ASSUME NEW s \in Slot, SilentDone(s) \/ SheetDone(s) PROVE TypeOK'
  <2>1. calls' \in [Slot -> Call \cup {None}] /\ options' \in Requester \cup {"none"}
    BY <1>3, TypeComplete DEF SilentDone, SheetDone
  <2>2. {keychain', current'} \subseteq Account \cup {NoUser}
    BY <1>3, CallShape DEF SilentDone, SheetDone, SaveAuth, TypeOK
  <2>3. QED BY <1>3, <2>1, <2>2 DEF SilentDone, SheetDone, app, TypeOK
<1>4. QED BY <1>1, <1>2, <1>3

\* The callbacks of the app.
LEMMA TypeApp ==
    ASSUME TypeOK, NEW s \in Slot,
           \/ RestoreAnswered(s) \/ SignInAnswered(s) \/ FirebaseDone(s)
           \/ OpenTabs(s) \/ ProfileArrives(s)
    PROVE  TypeOK'
<1>1. CASE RestoreAnswered(s)
  BY <1>1, SetCallType, CallShape DEF RestoreAnswered, TypeOK
<1>2. CASE SignInAnswered(s)
  <2>1. (IF calls[s].ok /\ current # NoUser THEN UserCall("firebase", current) ELSE None)
           \in Call \cup {None}
    BY UserCallType DEF TypeOK
  <2>2. calls' \in [Slot -> Call \cup {None}]
    BY <1>2, <2>1, SetCallType DEF SignInAnswered
  <2>3. QED BY <1>2, <2>2 DEF SignInAnswered, app, TypeOK
<1>3. CASE FirebaseDone(s)
  <2>1. calls[s].user \in Account
    BY <1>3, CallShape DEF FirebaseDone
  <2>2. calls' \in [Slot -> Call \cup {None}]
    BY <1>3, <2>1, UserCallType, SetCallType DEF FirebaseDone
  <2>3. QED BY <1>3, <2>1, <2>2 DEF FirebaseDone, google, TypeOK
<1>4. CASE OpenTabs(s)
  <2>1. calls' \in [Slot -> Call \cup {None}]
    BY <1>4, CallShape, UserCallType, SetCallType DEF OpenTabs
  <2>2. QED BY <1>4, <2>1 DEF OpenTabs, google, TypeOK
<1>5. CASE ProfileArrives(s)
  <2>1. calls[s].user \in Account
    BY <1>5, CallShape DEF ProfileArrives
  <2>2. calls' \in [Slot -> Call \cup {None}]
    BY <1>5, SetCallType DEF ProfileArrives
  <2>3. shown' \in Account \cup {NoUser}
    BY <1>5, <2>1 DEF ProfileArrives, SignInProfile, TypeOK
  <2>4. QED BY <1>5, <2>2, <2>3 DEF ProfileArrives, google, TypeOK
<1>6. QED BY <1>1, <1>2, <1>3, <1>4, <1>5

LEMMA TypeSignedOut == TypeOK /\ SignedOutByForce => TypeOK'
BY DEF SignedOutByForce, google, TypeOK

\* The buttons and restarts.
LEMMA TypeTaps ==
    ASSUME TypeOK,
           TapSignIn \/ OpenProfile \/ OpenProfileTooEarly \/ Logout \/ Kill
    PROVE  TypeOK'
<1>1. ASSUME Tap PROVE taps' \in 0..MaxTaps
  BY <1>1, SessionAssumption DEF Tap, TypeOK
<1>2. ASSUME Restart
      PROVE  /\ {keychain', current', firebase', shown'} \subseteq Account \cup {NoUser}
             /\ options' \in Requester \cup {"none"} /\ waiting' \subseteq Requester
             /\ loggedIn' \in BOOLEAN /\ due' \subseteq {"launch", "check"}
             /\ calls' \in [Slot -> Call \cup {None}]
  BY <1>2 DEF Restart, TypeOK
<1>3. CASE TapSignIn
  <2>1. [at |-> "sheet"] \in Call
    BY DEF Call
  <2>2. calls' \in [Slot -> Call \cup {None}]
    BY <1>3, <2>1, SetCallType DEF TapSignIn, Start
  <2>3. QED BY <1>1, <1>3, <2>2 DEF TapSignIn, app, Requester, TypeOK
<1>4. CASE OpenProfile
  <2>1. UserCall("tabProfile", shown) \in Call
    BY <1>4, UserCallType DEF OpenProfile, TypeOK
  <2>2. calls' \in [Slot -> Call \cup {None}]
    BY <1>4, <2>1, SetCallType DEF OpenProfile, Start
  <2>3. QED BY <1>1, <1>4, <2>2 DEF OpenProfile, app, google, TypeOK
<1>5. CASE OpenProfileTooEarly
  <2>1. presses' \in Int
    BY <1>5 DEF OpenProfileTooEarly, Restart
  <2>2. QED BY <1>1, <1>2, <1>5, <2>1 DEF OpenProfileTooEarly, TypeOK
<1>6. CASE Logout
  BY <1>1, <1>6 DEF Logout, TypeOK
<1>7. CASE Kill
  <2>1. presses' \in Int
    BY <1>7 DEF Kill, Restart
  <2>2. kills' \in 0..MaxKills
    BY <1>7, SessionAssumption DEF Kill, TypeOK
  <2>3. QED BY <1>2, <1>7, <2>1, <2>2 DEF Kill, TypeOK
<1>8. QED BY <1>3, <1>4, <1>5, <1>6, <1>7

LEMMA TypeStep == TypeOK /\ [Next]_vars => TypeOK'
<1> SUFFICES ASSUME TypeOK, [Next]_vars PROVE TypeOK'
  OBVIOUS
<1>1. CASE UNCHANGED vars
  BY <1>1 DEF vars, google, app, TypeOK
<1>2. ASSUME NEW s \in Slot, Progress(s) PROVE TypeOK'
  BY <1>2, TypeGoogle, TypeApp DEF Progress
<1>3. QED BY <1>1, <1>2, TypeGoogle, TypeSignedOut, TypeTaps DEF Next

\* Calls, flags and accounts have their types whatever overlaps.
THEOREM SessionTyped == Spec => []TypeOK
<1>1. QED BY TypeInit, TypeStep, PTL DEF Spec

-----------------------------------------------------------------------------

\* A call that may still open the tabs for a press.
Opening(call) == call.at \in {"firebase", "tabs"} \/ (call.at = "answer" /\ call.of = "button")
Openings == {s \in Slot : Opening(calls[s])}
Held == IF options = "button" THEN 1 ELSE 0

\* What may still open the tabs was paid for by a press; and only restores are
\* answered with the current user's refreshed token.
PressInv ==
    /\ Cardinality(Openings) + Held <= presses
    /\ \A s \in Slot : calls[s].at = "cached" => calls[s].of # "button"

LEMMA OpeningsFinite ==
    IsFiniteSet(Openings) /\ Cardinality(Openings) \in Nat
BY SessionAssumption, FS_Subset, FS_CardinalityType DEF SessionAssumption, Openings

\* One call changes at a time: what that does to the count.
LEMMA OneCallSet ==
    ASSUME TypeOK, NEW s \in Slot, NEW call, SetCall(s, call)
    PROVE  /\ Cardinality(Openings') \in Nat
           /\ Cardinality(Openings') <= Cardinality(Openings) + 1
           /\ (Opening(calls[s]) \/ ~Opening(call))
                 => Cardinality(Openings') <= Cardinality(Openings)
           /\ (Opening(calls[s]) /\ ~Opening(call))
                 => Cardinality(Openings') = Cardinality(Openings) - 1
<1>1. /\ calls'[s] = call
      /\ \A t \in Slot \ {s} : calls'[t] = calls[t]
  BY DEF SetCall, TypeOK
<1>2. Openings' \ {s} = Openings \ {s}
  BY <1>1 DEF Openings, Opening
<1>3. /\ s \in Openings <=> Opening(calls[s])
      /\ s \in Openings' <=> Opening(call)
  BY <1>1 DEF Openings, Opening
<1>4. CASE Opening(call) /\ Opening(calls[s])
  <2>1. Openings' = Openings
    BY <1>2, <1>3, <1>4
  <2>2. QED BY <1>4, <2>1, OpeningsFinite
<1>5. CASE ~Opening(call) /\ ~Opening(calls[s])
  <2>1. Openings' = Openings
    BY <1>2, <1>3, <1>5
  <2>2. QED BY <1>5, <2>1, OpeningsFinite
<1>6. CASE Opening(call) /\ ~Opening(calls[s])
  <2>1. Openings' = Openings \cup {s} /\ s \notin Openings
    BY <1>2, <1>3, <1>6
  <2>2. Cardinality(Openings') = Cardinality(Openings) + 1
    BY <2>1, OpeningsFinite, FS_AddElement
  <2>3. QED BY <1>6, <2>2, OpeningsFinite
<1>7. CASE ~Opening(call) /\ Opening(calls[s])
  <2>1. Openings' = Openings \ {s} /\ s \in Openings
    BY <1>2, <1>3, <1>7
  <2>2. Cardinality(Openings') = Cardinality(Openings) - 1
    BY <2>1, OpeningsFinite, FS_RemoveElement
  <2>3. Cardinality(Openings') \in Nat
    BY <2>1, OpeningsFinite, FS_RemoveElement, FS_CardinalityType
  <2>4. QED BY <1>7, <2>2, <2>3, OpeningsFinite
<1>8. QED BY <1>4, <1>5, <1>6, <1>7

\* The second part of the invariant only looks at the call that changes.
LEMMA CachedByRestores ==
    ASSUME TypeOK, PressInv, NEW s \in Slot, NEW call, SetCall(s, call),
           call.at = "cached" => call.of # "button"
    PROVE  \A t \in Slot : calls'[t].at = "cached" => calls'[t].of # "button"
BY DEF TypeOK, SetCall, PressInv

\* Three kinds of steps that keep the count: no press and no new opening; the
\* request held for the button turns into an answer; and all is forgotten.
LEMMA NothingOpens ==
    ASSUME TypeOK, PressInv, NEW s \in Slot, NEW call, SetCall(s, call),
           call.at = "cached" => call.of # "button",
           Opening(calls[s]) \/ ~Opening(call),
           options' = "button" => options = "button",
           UNCHANGED presses
    PROVE  PressInv'
<1>1. Cardinality(Openings') \in Nat /\ Cardinality(Openings') <= Cardinality(Openings)
  BY OneCallSet
<1>2. Held' \in Nat /\ Held \in Nat /\ Held' <= Held
  BY DEF Held
<1>3. Cardinality(Openings') + Held' <= presses'
  BY <1>1, <1>2, OpeningsFinite DEF PressInv, TypeOK
<1>4. QED BY <1>3, CachedByRestores DEF PressInv

LEMMA AuthenticateOpensNothing ==
    ASSUME TypeOK, PressInv, NEW s \in Slot, NEW r \in Requester, r # "button",
           Authenticate(r, s), UNCHANGED presses
    PROVE  PressInv'
<1>1. CASE keychain # NoUser
  <2>1. ~Opening(Silent(keychain)) /\ Silent(keychain).at # "cached"
    BY DEF Opening, Silent
  <2>2. SetCall(s, Silent(keychain)) /\ options' # "button"
    BY <1>1 DEF Authenticate
  <2>3. QED BY <2>1, <2>2, NothingOpens
<1>2. CASE keychain = NoUser
  <2>1. ~Opening(Answer(r, FALSE)) /\ Answer(r, FALSE).at # "cached"
    BY DEF Opening, Answer
  <2>2. SetCall(s, Answer(r, FALSE)) /\ options' # "button"
    BY <1>2 DEF Authenticate
  <2>3. QED BY <2>1, <2>2, NothingOpens
<1>3. QED BY <1>1, <1>2

LEMMA CompleteAnswersOnce ==
    ASSUME TypeOK, PressInv, NEW s \in Slot, NEW ok, Complete(s, ok), UNCHANGED presses
    PROVE  PressInv'
<1>1. CASE options = "button"
  <2>1. SetCall(s, Answer("button", ok)) /\ options' = "none"
    BY <1>1 DEF Complete
  <2>2. Cardinality(Openings') \in Nat /\ Cardinality(Openings') <= Cardinality(Openings) + 1
    BY <2>1, OneCallSet
  <2>3. Held = 1 /\ Held' = 0
    BY <1>1, <2>1 DEF Held
  <2>4. Cardinality(Openings') + Held' <= presses'
    BY <2>2, <2>3, OpeningsFinite DEF PressInv, TypeOK
  <2>5. Answer("button", ok).at # "cached"
    BY DEF Answer
  <2>6. QED BY <2>1, <2>4, <2>5, CachedByRestores DEF PressInv
<1>2. CASE options # "button"
  <2>1. PICK call : /\ SetCall(s, call) /\ options' = "none"
                    /\ call = (IF options = "none" THEN None ELSE Answer(options, ok))
    BY DEF Complete
  <2>2. call.at # "cached" /\ ~Opening(call)
    BY <1>2, <2>1 DEF Opening, None, Answer
  <2>3. QED BY <2>1, <2>2, NothingOpens
<1>3. QED BY <1>1, <1>2

LEMMA PressRestart ==
    ASSUME TypeOK, Restart
    PROVE  PressInv'
<1>1. Openings' = {}
  BY DEF Restart, Openings, Opening, None
<1>2. Cardinality(Openings') = 0 /\ Held' = 0 /\ presses' = 0
  BY <1>1, FS_EmptySet DEF Restart, Held
<1>3. \A s \in Slot : calls'[s].at # "cached"
  BY DEF Restart, None
<1>4. QED BY <1>2, <1>3 DEF PressInv

LEMMA PressInit == Init => PressInv
<1> SUFFICES ASSUME Init PROVE PressInv
  OBVIOUS
<1>1. Openings = {}
  BY DEF Init, Openings, Opening, None
<1>2. Cardinality(Openings) = 0 /\ Held = 0 /\ presses = 0
  BY <1>1, FS_EmptySet DEF Init, Held
<1>3. \A s \in Slot : calls[s].at # "cached"
  BY DEF Init, None
<1>4. QED BY <1>2, <1>3 DEF PressInv

LEMMA PressGoogle ==
    ASSUME TypeOK, PressInv,
           \/ \E r \in due : Restore(r)
           \/ \E s \in Slot : CachedDone(s) \/ SilentDone(s) \/ SheetDone(s)
    PROVE  PressInv'
<1>1. ASSUME NEW r \in due, Restore(r) PROVE PressInv'
  <2>1. r \in Requester /\ r # "button"
    BY DEF TypeOK, Requester
  <2>2. PICK s \in Slot :
           /\ Free(s)
           /\ IF current # NoUser
              THEN SetCall(s, [at |-> "cached", of |-> r]) /\ options' = r
              ELSE Authenticate(r, s)
    BY <1>1 DEF Restore
  <2>3. UNCHANGED presses
    BY <1>1 DEF Restore
  <2>4. CASE current # NoUser
    <3>1. ~Opening([at |-> "cached", of |-> r])
      BY DEF Opening
    <3>2. QED BY <2>1, <2>2, <2>3, <2>4, <3>1, NothingOpens
  <2>5. CASE current = NoUser
    BY <2>1, <2>2, <2>3, <2>5, AuthenticateOpensNothing
  <2>6. QED BY <2>4, <2>5
<1>2. ASSUME NEW s \in Slot, CachedDone(s) PROVE PressInv'
  <2>1. calls[s].of \in Requester /\ calls[s].of # "button" /\ UNCHANGED presses
    BY <1>2, CallShape DEF CachedDone, PressInv
  <2>2. CASE SetCall(s, Answer(calls[s].of, TRUE)) /\ options' = "none"
    <3>1. ~Opening(Answer(calls[s].of, TRUE)) /\ Answer(calls[s].of, TRUE).at # "cached"
      BY <2>1 DEF Opening, Answer
    <3>2. QED BY <2>1, <2>2, <3>1, NothingOpens
  <2>3. CASE Authenticate(calls[s].of, s)
    BY <2>1, <2>3, AuthenticateOpensNothing
  <2>4. QED BY <1>2, <2>2, <2>3 DEF CachedDone
<1>3. ASSUME NEW s \in Slot, SilentDone(s) \/ SheetDone(s) PROVE PressInv'
  <2>1. UNCHANGED presses
    BY <1>3 DEF SilentDone, SheetDone
  <2>2. QED BY <1>3, <2>1, CompleteAnswersOnce DEF SilentDone, SheetDone
<1>4. QED BY <1>1, <1>2, <1>3

LEMMA PressApp ==
    ASSUME TypeOK, PressInv, NEW s \in Slot,
           \/ RestoreAnswered(s) \/ SignInAnswered(s) \/ FirebaseDone(s)
           \/ OpenTabs(s) \/ ProfileArrives(s)
    PROVE  PressInv'
<1>1. ~Opening(None) /\ None.at # "cached"
  BY DEF Opening, None
<1>2. CASE RestoreAnswered(s) \/ ProfileArrives(s)
  <2>1. SetCall(s, None) /\ UNCHANGED <<options, presses>>
    BY <1>2 DEF RestoreAnswered, ProfileArrives, google
  <2>2. QED BY <1>1, <2>1, NothingOpens
<1>3. CASE SignInAnswered(s)
  <2>1. Opening(calls[s]) /\ UNCHANGED <<options, presses>>
    BY <1>3 DEF SignInAnswered, Opening
  <2>2. PICK call : SetCall(s, call) /\ call \in {None, UserCall("firebase", current)}
    BY <1>3 DEF SignInAnswered
  <2>3. call.at # "cached"
    BY <1>1, <2>2 DEF UserCall
  <2>4. QED BY <2>1, <2>2, <2>3, NothingOpens
<1>4. CASE FirebaseDone(s)
  <2>1. Opening(calls[s]) /\ UNCHANGED <<options, presses>>
    BY <1>4 DEF FirebaseDone, Opening, google
  <2>2. PICK call : SetCall(s, call) /\ call \in {None, UserCall("tabs", calls[s].user)}
    BY <1>4 DEF FirebaseDone
  <2>3. call.at # "cached"
    BY <1>1, <2>2 DEF UserCall
  <2>4. QED BY <2>1, <2>2, <2>3, NothingOpens
<1>5. CASE OpenTabs(s)
  <2>1. /\ Opening(calls[s])
        /\ SetCall(s, UserCall("signInProfile", calls[s].user))
        /\ UNCHANGED options /\ presses' = presses - 1
    BY <1>5 DEF OpenTabs, Opening, google
  <2>2. ~Opening(UserCall("signInProfile", calls[s].user))
        /\ UserCall("signInProfile", calls[s].user).at # "cached"
    BY DEF Opening, UserCall
  <2>3. Cardinality(Openings') = Cardinality(Openings) - 1
    BY <2>1, <2>2, OneCallSet
  <2>4. Held' = Held /\ Held \in Nat
    BY <2>1 DEF Held
  <2>5. Cardinality(Openings') + Held' <= presses'
    BY <2>1, <2>3, <2>4, OpeningsFinite DEF PressInv, TypeOK
  <2>6. QED BY <2>1, <2>2, <2>5, CachedByRestores DEF PressInv
<1>6. QED BY <1>2, <1>3, <1>4, <1>5

LEMMA PressTaps ==
    ASSUME TypeOK, PressInv,
           \/ SignedOutByForce
           \/ TapSignIn \/ OpenProfile \/ OpenProfileTooEarly \/ Logout \/ Kill
    PROVE  PressInv'
<1>1. CASE TapSignIn
  <2>1. PICK s \in Slot : Free(s) /\ SetCall(s, [at |-> "sheet"])
    BY <1>1 DEF TapSignIn, Start
  <2>2. ~Opening([at |-> "sheet"])
    BY DEF Opening
  <2>3. Cardinality(Openings') \in Nat /\ Cardinality(Openings') <= Cardinality(Openings)
    BY <2>1, <2>2, OneCallSet
  <2>4. Held' = 1 /\ Held \in Nat /\ presses' = presses + 1
    BY <1>1 DEF TapSignIn, Held
  <2>5. Cardinality(Openings') + Held' <= presses'
    BY <2>3, <2>4, OpeningsFinite DEF PressInv, TypeOK
  <2>6. QED BY <2>1, <2>5, CachedByRestores DEF PressInv
<1>2. CASE OpenProfile
  <2>1. PICK s \in Slot : Free(s) /\ SetCall(s, UserCall("tabProfile", shown))
    BY <1>2 DEF OpenProfile, Start
  <2>2. ~Opening(UserCall("tabProfile", shown)) /\ UserCall("tabProfile", shown).at # "cached"
    BY DEF Opening, UserCall
  <2>3. UNCHANGED <<options, presses>>
    BY <1>2 DEF OpenProfile, google
  <2>4. QED BY <2>1, <2>2, <2>3, NothingOpens
<1>3. CASE OpenProfileTooEarly \/ Kill
  BY <1>3, PressRestart DEF OpenProfileTooEarly, Kill
<1>4. CASE SignedOutByForce \/ Logout
  BY <1>4 DEF SignedOutByForce, Logout, google, PressInv, Openings, Held
<1>5. QED BY <1>1, <1>2, <1>3, <1>4

LEMMA PressStep == TypeOK /\ PressInv /\ [Next]_vars => PressInv'
<1> SUFFICES ASSUME TypeOK, PressInv, [Next]_vars PROVE PressInv'
  OBVIOUS
<1>1. CASE UNCHANGED vars
  BY <1>1 DEF vars, google, PressInv, Openings, Held
<1>2. ASSUME NEW s \in Slot, Progress(s) PROVE PressInv'
  BY <1>2, PressGoogle, PressApp DEF Progress
<1>3. QED BY <1>1, <1>2, PressGoogle, PressTaps DEF Next

\* Whatever restores, sheets, answers, logouts and restarts overlap, each press
\* of the sign-in button opens the tabs once at most, and nothing else opens
\* them.
THEOREM OpeningsArePressed == Spec => []OneOpeningPerPress
<1>1. PressInv /\ TypeOK => OneOpeningPerPress
  <2> SUFFICES ASSUME PressInv, TypeOK PROVE OneOpeningPerPress
    OBVIOUS
  <2>1. Held \in Nat
    BY DEF Held
  <2>2. QED BY <2>1, OpeningsFinite DEF PressInv, TypeOK, OneOpeningPerPress
<1>2. QED BY <1>1, PressInit, PressStep, SessionTyped, PTL DEF Spec
=============================================================================
