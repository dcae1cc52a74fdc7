------------------------------- MODULE Session -------------------------------
(***************************************************************************)
(* Who is signed in on one installation of the app: the launch             *)
(* (teamhungaryApp), the sign-in page (ContentView), the profile tab's     *)
(* reload and logout (MyPageView), on top of Google Sign-In (GIDSignIn)    *)
(* and Firebase Auth.                                                      *)
(*                                                                         *)
(* Google Sign-In keeps ONE pending request, _currentOptions: a new one    *)
(* takes its place, and the flow that ends first answers whoever is there. *)
(***************************************************************************)
EXTENDS Integers, FiniteSets

CONSTANTS Account,   \* Google accounts; each is also a Firebase uid
          NoUser,    \* the empty uid, and nobody
          Slot,      \* bound: asynchronous calls in flight
          Failures,  \* may requests to Google and Firebase fail?
          MaxTaps,   \* bound: buttons pressed
          MaxKills   \* bound: times the app is killed

ASSUME SessionAssumption ==
    /\ NoUser \notin Account /\ IsFiniteSet(Slot)
    /\ Failures \in BOOLEAN /\ MaxTaps \in Nat /\ MaxKills \in Nat

\* Who asks Google Sign-In: the app delegate's restore, checkState's restore,
\* the sign-in button.
Requester == {"launch", "check", "button"}

VARIABLES
    keychain,  \* the account Google Sign-In saved on the device
    current,   \* GIDSignIn.currentUser, in memory
    options,   \* GIDSignIn._currentOptions: whose completion it holds
    firebase,  \* Auth.currentUser, kept across restarts
    loggedIn,  \* LoginState.isLoggedIn: the tabs are shown
    shown,     \* userDataObservable.userData.uid
    due,       \* restores that the launch or the sign-in page is about to ask
    calls,     \* per slot: an asynchronous call in flight
    waiting,   \* history: requesters whose completion was not called yet
    presses,   \* history: sign-ins asked for in this run of the app, less the
               \* times the tabs were opened in it
    taps, kills

google == <<keychain, current, options, waiting>>
app == <<firebase, loggedIn, shown>>
vars == <<google, app, presses, due, calls, taps, kills>>

\* A call in flight: a token refresh for a saved account, or with a requester's
\* own completion for the current one; the account sheet; a completion on the
\* main queue; Firebase's signIn; its continuation on the main queue;
\* retrieveUserFromFirestore by the sign-in or by the profile tab.
None == [at |-> "none"]
Call == [at : {"silent", "firebase", "tabs", "signInProfile", "tabProfile"}, user : Account]
        \cup [at : {"cached"}, of : Requester] \cup [at : {"sheet"}]
        \cup [at : {"answer"}, of : Requester, ok : BOOLEAN]

Silent(u) == [at |-> "silent", user |-> u]
Answer(r, ok) == [at |-> "answer", of |-> r, ok |-> ok]
UserCall(at, u) == [at |-> at, user |-> u]

TypeOK ==
    /\ {keychain, current, firebase, shown} \subseteq Account \cup {NoUser}
    /\ options \in Requester \cup {"none"}
    /\ loggedIn \in BOOLEAN
    /\ due \subseteq {"launch", "check"}
    /\ calls \in [Slot -> Call \cup {None}]
    /\ waiting \subseteq Requester
    /\ presses \in Int
    /\ taps \in 0..MaxTaps /\ kills \in 0..MaxKills

Init ==
    /\ keychain \in Account \cup {NoUser}
    /\ current = NoUser
    /\ options = "none"
    /\ firebase \in {keychain, NoUser}
    /\ loggedIn = FALSE
    /\ shown = NoUser
    /\ due = {"launch", "check"}
    /\ calls = [s \in Slot |-> None]
    /\ waiting = {}
    /\ presses = 0
    /\ taps = 0 /\ kills = 0

SetCall(s, call) == calls' = [calls EXCEPT ![s] = call]

\* Which of the free slots a call takes makes no difference.
Free(s) == calls[s] = None /\ s = CHOOSE t \in Slot : calls[t] = None
Start(call) == \E s \in Slot : Free(s) /\ SetCall(s, call)

Tap == taps < MaxTaps /\ taps' = taps + 1

-----------------------------------------------------------------------------
(* Google Sign-In *)

\* authenticateWithOptions for a restore: the saved account's tokens are
\* refreshed, or there is none and the requester's own completion is called.
Authenticate(r, s) ==
    IF keychain # NoUser
    THEN SetCall(s, Silent(keychain)) /\ options' = r
    ELSE SetCall(s, Answer(r, FALSE)) /\ options' = "none"

\* restorePreviousSignIn, at launch and then when the sign-in page appears.
Restore(r) ==
    /\ r \in due
    /\ r = "check" => "launch" \notin due
    /\ due' = due \ {r}
    /\ waiting' = waiting \cup {r}
    /\ \E s \in Slot :
          /\ Free(s)
          /\ IF current # NoUser
             THEN SetCall(s, [at |-> "cached", of |-> r]) /\ options' = r
             ELSE Authenticate(r, s)
    /\ UNCHANGED <<keychain, current, app, presses, taps, kills>>

\* refreshTokensIfNeeded has ended: it answers its own requester and forgets
\* whatever request there is by then; after an error the keychain is tried.
CachedDone(s) ==
    /\ calls[s].at = "cached"
    /\ \/ /\ current # NoUser
          /\ SetCall(s, Answer(calls[s].of, TRUE))
          /\ options' = "none"
       \/ Failures /\ Authenticate(calls[s].of, s)
       \/ current = NoUser /\ Authenticate(calls[s].of, s)
    /\ UNCHANGED <<keychain, current, waiting, app, due, presses, taps, kills>>

\* Mutant: the request is answered, and kept.
CompleteKept(s, ok) ==
    /\ SetCall(s, IF options = "none" THEN None ELSE Answer(options, ok))
    /\ UNCHANGED options

\* The completion of the request held now, if there is one, goes to the main
\* queue; the request is forgotten.
Complete(s, ok) ==
    /\ SetCall(s, IF options = "none" THEN None ELSE Answer(options, ok))
    /\ options' = "none"

\* addSaveAuthCallback: the account becomes the saved and the current one.
SaveAuth(u) == keychain' = u /\ current' = u

\* A token refresh ends. Its account is saved again, whatever happened since.
SilentDone(s) ==
    /\ calls[s].at = "silent"
    /\ \/ SaveAuth(calls[s].user) /\ Complete(s, TRUE)
       \/ Failures /\ Complete(s, FALSE) /\ UNCHANGED <<keychain, current>>
    /\ UNCHANGED <<waiting, app, due, presses, taps, kills>>

\* The account sheet ends: an account was chosen, or it was cancelled.
SheetDone(s) ==
    /\ calls[s].at = "sheet"
    /\ \/ \E u \in Account : SaveAuth(u) /\ Complete(s, TRUE)
       \/ Failures /\ Complete(s, FALSE) /\ UNCHANGED <<keychain, current>>
    /\ UNCHANGED <<waiting, app, due, presses, taps, kills>>

-----------------------------------------------------------------------------
(* The app *)

\* handleSignInButton: the button is there when the page is, under no sheet.
TapSignIn ==
    /\ ~loggedIn /\ due = {}
    /\ \A s \in Slot : calls[s].at # "sheet"
    /\ Tap
    /\ options' = "button"
    /\ waiting' = waiting \cup {"button"}
    /\ Start([at |-> "sheet"])
    /\ presses' = presses + 1
    /\ UNCHANGED <<keychain, current, app, due, kills>>

\* The completions of the two restores. The launch's does nothing. checkState's
\* guard lets only an error or no user pass, and those have no profile; a
\* restored user takes its else branch, "Not Sign In".
RestoreAnswered(s) ==
    /\ calls[s].at = "answer" /\ calls[s].of \in {"launch", "check"}
    /\ loggedIn' = (loggedIn /\ ~(calls[s].of = "check" /\ calls[s].ok /\ current # NoUser))
    /\ waiting' = waiting \ {calls[s].of}
    /\ SetCall(s, None)
    /\ UNCHANGED <<keychain, current, options, firebase, shown, due, presses, taps, kills>>

\* The completion of the sign-in button: Firebase is asked to sign in whoever
\* Google's current user is by now; without one, only the alert.
SignInAnswered(s) ==
    /\ calls[s].at = "answer" /\ calls[s].of = "button"
    /\ SetCall(s, IF calls[s].ok /\ current # NoUser THEN UserCall("firebase", current) ELSE None)
    /\ waiting' = waiting \ {"button"}
    /\ UNCHANGED <<keychain, current, options, app, due, presses, taps, kills>>

\* Auth.signIn ends: the rest runs on the main queue; an error is an alert.
FirebaseDone(s) ==
    /\ calls[s].at = "firebase"
    /\ \/ firebase' = calls[s].user /\ SetCall(s, UserCall("tabs", calls[s].user))
       \/ Failures /\ SetCall(s, None) /\ UNCHANGED firebase
    /\ UNCHANGED <<google, loggedIn, shown, due, presses, taps, kills>>

\* A refresh of Firebase's token finds its user disabled, deleted or expired:
\* signOutByForce. The tabs watch isLoggedIn only, and stay.
SignedOutByForce ==
    /\ Failures /\ firebase # NoUser
    /\ firebase' = NoUser
    /\ UNCHANGED <<google, loggedIn, shown, due, presses, calls, taps, kills>>

\* DispatchQueue.main.async: the profile is asked for and the tabs open.
OpenTabs(s) ==
    /\ calls[s].at = "tabs"
    /\ loggedIn' = TRUE
    /\ presses' = presses - 1
    /\ SetCall(s, UserCall("signInProfile", calls[s].user))
    /\ UNCHANGED <<google, firebase, shown, due, taps, kills>>

\* Mutant: no profile document, no userData.
ProfileIfThere(u, exists) == IF exists THEN u ELSE shown

\* The userData a sign-in ends with: the document's, or one made from the
\* Google profile when there is no document or no answer. Either has the uid.
SignInProfile(u, exists) == u

\* retrieveUserFromFirestore answers; the profile tab ignores a nil.
ProfileArrives(s) ==
    /\ calls[s].at \in {"signInProfile", "tabProfile"}
    /\ \E exists \in BOOLEAN :
          shown' = IF calls[s].at = "signInProfile" THEN SignInProfile(calls[s].user, exists)
                   ELSE IF exists THEN calls[s].user ELSE shown
    /\ SetCall(s, None)
    /\ UNCHANGED <<google, firebase, loggedIn, due, presses, taps, kills>>

\* Mutant: the profile is asked for before userData has a uid.
OpenProfileUnchecked ==
    /\ loggedIn
    /\ Tap
    /\ Start(UserCall("tabProfile", shown))
    /\ UNCHANGED <<google, app, due, presses, kills>>

\* The profile tab appears: fetchUserData for the uid shown.
OpenProfile ==
    /\ loggedIn /\ shown # NoUser
    /\ Tap
    /\ Start(UserCall("tabProfile", shown))
    /\ UNCHANGED <<google, app, due, presses, kills>>

\* The memory of the app is gone; it starts again.
Restart ==
    /\ current' = NoUser /\ options' = "none" /\ waiting' = {}
    /\ loggedIn' = FALSE /\ shown' = NoUser
    /\ due' = {"launch", "check"}
    /\ calls' = [s \in Slot |-> None]
    /\ presses' = 0
    /\ UNCHANGED <<keychain, firebase>>

\* With no uid yet, document("") raises an exception and the app is gone.
OpenProfileTooEarly ==
    /\ loggedIn /\ shown = NoUser
    /\ Tap
    /\ Restart
    /\ UNCHANGED kills

Kill ==
    /\ kills < MaxKills /\ kills' = kills + 1
    /\ Restart
    /\ UNCHANGED taps

\* logout: Google is signed out and the sign-in page appears again. Firebase
\* stays signed in, and userData stays as it is.
Logout ==
    /\ loggedIn
    /\ Tap
    /\ keychain' = NoUser /\ current' = NoUser
    /\ loggedIn' = FALSE
    /\ due' = due \cup {"check"}
    /\ UNCHANGED <<options, waiting, firebase, shown, presses, calls, kills>>

-----------------------------------------------------------------------------

\* The next step of a call that nobody has to do anything for.
Progress(s) ==
    \/ CachedDone(s) \/ SilentDone(s) \/ RestoreAnswered(s) \/ SignInAnswered(s)
    \/ FirebaseDone(s) \/ OpenTabs(s) \/ ProfileArrives(s)

Next ==
    \/ \E r \in due : Restore(r)
    \/ \E s \in Slot : Progress(s) \/ SheetDone(s)
    \/ SignedOutByForce
    \/ TapSignIn \/ OpenProfile \/ OpenProfileTooEarly \/ Logout \/ Kill

Spec == Init /\ [][Next]_vars

\* Launching and appearing do ask, and every request of the SDKs is answered or
\* times out. Nobody has to close the sheet or press a button, and Firebase
\* need not sign anybody out.
Fairness ==
    /\ WF_vars(\E r \in due : Restore(r))
    /\ \A s \in Slot : WF_vars(Progress(s))

FairSpec == Spec /\ Fairness

-----------------------------------------------------------------------------
(* Properties *)

\* A press of the button opens the tabs once at most, and nothing else does.
\* Whoever ends first calls the one completion Google Sign-In holds: a restore's
\* refresh may answer the button, and the sheet come to an end after that. Were
\* the button answered twice, the second answer would open the tabs again, also
\* behind a logout in between.
OneOpeningPerPress == presses >= 0

\* userData does not stay empty behind the tabs: whether or not the account
\* has a profile document, its uid arrives, or the tabs close again.
ProfileComes == loggedIn ~> (shown # NoUser \/ ~loggedIn)

\* "restoration of previous sign-in state": when the sign-in page appears with
\* an account saved on the device, its person gets in.
RestoreSignsIn ==
    ("check" \in due /\ keychain # NoUser) ~> (loggedIn \/ keychain = NoUser)

\* "The block that is called on completion": once Google Sign-In has nothing
\* left to do, every request was answered.
EveryCompletionIsCalled ==
    (\A s \in Slot : calls[s].at \notin {"silent", "cached", "sheet", "answer"})
        => waiting = {}
=============================================================================
