------------------------------- MODULE Profile -------------------------------
(***************************************************************************)
(* A person's profile on one installation: the account written at the      *)
(* first sign-in, the profile form, and the profile picture with its URL.  *)
(*                                                                         *)
(* All of it is one document, users/{uid}, written by three functions of   *)
(* FirebaseUtilities: the account is set as a whole with blank fields, the *)
(* form and the picture's URL update their fields of a document that must  *)
(* exist. Reads are answered in the order they are asked, each from the    *)
(* document under the writes pending at that moment, and are delivered     *)
(* later, in that order, on the main queue. Writes are sent in order; when *)
(* the stream breaks, or the app is killed, those without an answer that   *)
(* has arrived are sent again.                                             *)
(***************************************************************************)
EXTENDS Naturals, Sequences

CONSTANTS Form,       \* what a person may type into the form
          Blank,      \* the fields of a new account
          Picture,    \* pictures to pick in the form
          GooglePic,  \* the picture of the Google profile
          Jpeg,       \* those jpegData can encode
          Picks,      \* bound: which of the pictures are picked
          NoPicture,
          Columbia,   \* does the person's address end in @columbia.edu?
          MayFail,    \* what the backends may refuse
          MaxReads,   \* bound: reads in flight
          MaxQueue,   \* bound: writes waiting
          MaxTaps,    \* bound: buttons pressed and pages opened
          MaxBreaks   \* bound: times the app is killed or the stream breaks

ProfileAssumption ==
    /\ Blank \notin Form /\ NoPicture \notin Picture \cup {GooglePic}
    /\ GooglePic \notin Picture /\ Picks \subseteq Picture
    /\ Columbia \in BOOLEAN
    /\ MayFail \subseteq {"read", "account", "form", "url", "put"}
    /\ MaxReads \in Nat /\ MaxQueue \in Nat /\ MaxTaps \in Nat /\ MaxBreaks \in Nat

Fields == Form \cup {Blank}

VARIABLES
    doc,       \* server: users/{uid}
    object,    \* server: {uid}/profilePicture.jpg in Storage
    queue,     \* writes not acknowledged, oldest first
    answers,   \* the server's answers on their way, for as many of the oldest
    orphans,   \* how many of the oldest lost their completion in a crash
    reads,     \* getDocument calls, in the order they were asked
    calls,     \* calls to Storage and to Google in flight
    signedIn,  \* LoginState.isLoggedIn
    userData,  \* its form fields, where its url points, and has its uid arrived?
    sheet,     \* the form: closed, or open with the fields it started from
    pages,     \* how many MyPageViews there have been: one per sign-in
    image,     \* profileImage of the last of them, while it is there
    saved,     \* history: the fields saved last
    taps, breaks

server == <<doc, object>>
screen == <<signedIn, userData, sheet, pages, image>>
vars == <<server, queue, answers, orphans, reads, calls, screen, saved, taps, breaks>>

Document == [exists : BOOLEAN, form : Fields, url : BOOLEAN]
Missing == [exists |-> FALSE, form |-> Blank, url |-> FALSE]
NewAccount == [exists |-> TRUE, form |-> Blank, url |-> FALSE]

\* A write; that of an URL with the picture its completion will show, and where.
Account == [kind |-> "account"]
FormWrite(f) == [kind |-> "form", form |-> f]
URLWrite(p, n) == [kind |-> "url", pic |-> p, page |-> n]
Mutation == {Account} \cup {FormWrite(f) : f \in Fields}
            \cup {URLWrite(p, n) : p \in Picture \cup {GooglePic}, n \in 0..MaxTaps}

\* A read: addUsertoFirestore's, the sign-in's or the page's; its answer.
Read == [of : {"account", "signIn", "page"}, served : BOOLEAN, got : Document]
Asked(of) == [of |-> of, served |-> FALSE, got |-> Missing]

\* The Google picture is fetched; a picture is uploaded; its URL is asked for;
\* the page's picture is downloaded, or on its way to the main queue. Each with
\* the page that waits for it, 0 for none.
Call == [op : {"fetch", "download"}, pic : {NoPicture}, page : 0..MaxTaps]
        \cup [op : {"put", "url"}, pic : Picture \cup {GooglePic}, page : 0..MaxTaps]
        \cup [op : {"show"}, pic : Picture \cup {GooglePic, NoPicture}, page : 0..MaxTaps]
Called(op, p, n) == [op |-> op, pic |-> p, page |-> n]

TypeOK ==
    /\ doc \in Document
    /\ object \in Picture \cup {GooglePic, NoPicture}
    /\ queue \in Seq(Mutation)
    /\ answers \in Seq({"ok", "error"}) /\ Len(answers) <= Len(queue)
    /\ orphans \in 0..Len(queue)
    /\ reads \in Seq(Read)
    /\ calls \subseteq Call
    /\ signedIn \in BOOLEAN
    /\ userData \in [form : Fields, url : {"none", "google", "storage"}, arrived : BOOLEAN]
    /\ sheet \in [open : BOOLEAN, form : Fields]
    /\ pages \in 0..taps /\ image \in Picture \cup {GooglePic, NoPicture}
    /\ saved \in [yes : BOOLEAN, form : Fields]
    /\ taps \in 0..MaxTaps /\ breaks \in 0..MaxBreaks

Init ==
    /\ doc \in {Missing, NewAccount}
    /\ object = NoPicture
    /\ queue = <<>> /\ answers = <<>> /\ orphans = 0
    /\ reads = <<>> /\ calls = {}
    /\ signedIn = FALSE
    /\ userData = [form |-> Blank, url |-> "none", arrived |-> FALSE]
    /\ sheet = [open |-> FALSE, form |-> Blank]
    /\ pages = 0 /\ image = NoPicture
    /\ saved = [yes |-> FALSE, form |-> Blank]
    /\ taps = 0 /\ breaks = 0

-----------------------------------------------------------------------------
(* Documents, reads and writes *)

Exists == doc.exists \/ \E i \in DOMAIN queue : queue[i] = Account

\* What a write leaves of a document; an update of a missing one leaves it so.
Applied(w, d) ==
    IF w = Account THEN NewAccount
    ELSE IF ~d.exists THEN d
    ELSE IF w.kind = "form" THEN [d EXCEPT !.form = w.form]
    ELSE [d EXCEPT !.url = TRUE]

\* What the pending writes, laid over the document in order, leave of it: the
\* last account or form decides the fields, an URL stays until an account is
\* set over it, and a missing document only an account brings into being.
Shows(f) ==
    \/ \E i \in DOMAIN queue :
          /\ queue[i].kind # "url" /\ f = Applied(queue[i], NewAccount).form
          /\ \A j \in (i + 1)..Len(queue) : queue[j].kind = "url"
    \/ f = doc.form /\ \A i \in DOMAIN queue : queue[i].kind = "url"

HasURL ==
    \/ \E i \in DOMAIN queue :
          queue[i].kind = "url" /\ \A j \in (i + 1)..Len(queue) : queue[j] # Account
    \/ doc.url /\ \A i \in DOMAIN queue : queue[i] # Account

View == IF Exists THEN [exists |-> TRUE, form |-> CHOOSE f \in Fields : Shows(f), url |-> HasURL]
        ELSE Missing

Enqueue(w) == Len(queue) < MaxQueue /\ queue' = Append(queue, w)

Ask(rs) == Len(reads) + Len(rs) <= MaxReads /\ reads' = reads \o rs

Tap == taps < MaxTaps /\ taps' = taps + 1

-----------------------------------------------------------------------------
(* Signing in and out *)

\* Mutants: the profile is read first; no account is ever made.
FirstReadsSwapped == <<Asked("signIn"), Asked("account")>>
FirstReadsNoAccount == <<Asked("signIn")>>

\* addUsertoFirestore's read, for a Columbia address, and then the profile's.
FirstReads == (IF Columbia THEN <<Asked("account")>> ELSE <<>>) \o <<Asked("signIn")>>

\* handleSignInButton, once Firebase has signed in; the tabs open at once.
SignIn ==
    /\ ~signedIn /\ Tap
    /\ signedIn' = TRUE /\ pages' = pages + 1
    /\ Ask(FirstReads)
    /\ UNCHANGED <<server, queue, answers, orphans, calls, userData, sheet, image, saved, breaks>>

\* A read is answered: the first that was not yet. An error counts as missing.
Serve ==
    \E i \in DOMAIN reads :
       /\ ~reads[i].served
       /\ \A j \in 1..(i - 1) : reads[j].served
       /\ \E d \in Document :
             /\ \/ d = View
                \/ "read" \in MayFail /\ d = Missing
             /\ reads' = [reads EXCEPT ![i].served = TRUE, ![i].got = d]
       /\ UNCHANGED <<server, queue, answers, orphans, calls, screen, saved, taps, breaks>>

Arrives(of) == reads # <<>> /\ Head(reads).served /\ Head(reads).of = of /\ reads' = Tail(reads)

\* Mutant: the account is set whatever the read found.
AccountReadUnchecked ==
    /\ Arrives("account")
    /\ Enqueue(Account)
    /\ UNCHANGED <<server, answers, orphans, calls, screen, saved, taps, breaks>>

\* addUsertoFirestore: a missing document is set, with blanks.
AccountRead ==
    /\ Arrives("account")
    /\ IF Head(reads).got.exists THEN UNCHANGED queue ELSE Enqueue(Account)
    /\ UNCHANGED <<server, answers, orphans, calls, screen, saved, taps, breaks>>

\* What userData becomes with a document. The picture's URL is saved as
\* profilePictureURL but looked for, as an URL, under profile_pic: it is lost.
Decoded(d) == [form |-> d.form, url |-> "none", arrived |-> TRUE]
FromGoogle == [form |-> Blank, url |-> "google", arrived |-> TRUE]

\* The sign-in's profile: the document, or what Google knows.
SignInRead ==
    /\ Arrives("signIn")
    /\ userData' = IF Head(reads).got.exists THEN Decoded(Head(reads).got) ELSE FromGoogle
    /\ UNCHANGED <<server, queue, answers, orphans, calls, signedIn, sheet, pages, image, saved, taps, breaks>>

\* The profile tab appears or is pulled: fetchUserData, retrieveProfilePicture.
OpenPage ==
    /\ signedIn /\ userData.arrived /\ ~sheet.open /\ Tap
    /\ Ask(<<Asked("page")>>)
    /\ calls' = calls \cup {Called("download", NoPicture, pages)}
    /\ UNCHANGED <<server, queue, answers, orphans, screen, saved, breaks>>

PageRead ==
    /\ Arrives("page")
    /\ userData' = IF Head(reads).got.exists THEN Decoded(Head(reads).got) ELSE userData
    /\ UNCHANGED <<server, queue, answers, orphans, calls, signedIn, sheet, pages, image, saved, taps, breaks>>

\* MyPageView.logout: userData stays, and so does what is in flight; the page
\* goes with the tabs, and the picture it holds goes with the page.
Logout ==
    /\ signedIn /\ userData.arrived /\ ~sheet.open /\ Tap
    /\ signedIn' = FALSE /\ image' = NoPicture
    /\ UNCHANGED <<server, queue, answers, orphans, reads, calls, userData, sheet, pages, saved, breaks>>

-----------------------------------------------------------------------------
(* The form *)

\* The sheet's fields start from userData and then stand on their own.
OpenForm ==
    /\ signedIn /\ userData.arrived /\ ~sheet.open /\ Tap
    /\ sheet' = [open |-> TRUE, form |-> userData.form]
    /\ UNCHANGED <<server, queue, answers, orphans, reads, calls, signedIn, userData, pages, image, saved, breaks>>

\* uploadProfilePicture: the upload and, without waiting for that, the download
\* URL; a picture that jpegData cannot encode goes no further, and its
\* completion is not called.
Upload(p, n) == IF p \in Jpeg THEN {Called("put", p, 0), Called("url", p, n)} ELSE {}

\* save: userData at once, one update of all five fields, and for a picture
\* its upload.
Save ==
    /\ sheet.open
    /\ \E f \in Form \cup {sheet.form} :
          /\ userData' = [userData EXCEPT !.form = f]
          /\ Enqueue(FormWrite(f))
          /\ saved' = [yes |-> TRUE, form |-> f]
    /\ \/ UNCHANGED calls
       \/ \E p \in Picks : calls' = calls \cup Upload(p, pages)
    /\ sheet' = [sheet EXCEPT !.open = FALSE]
    /\ UNCHANGED <<server, answers, orphans, reads, signedIn, pages, image, taps, breaks>>

CloseForm ==
    /\ sheet.open
    /\ sheet' = [sheet EXCEPT !.open = FALSE]
    /\ UNCHANGED <<server, queue, answers, orphans, reads, calls, signedIn, userData, pages, image, saved, taps, breaks>>

-----------------------------------------------------------------------------
(* The picture *)

\* What a callback puts on page n is seen if that page is still there.
ShownOn(n, p) == IF signedIn /\ n = pages THEN p ELSE image

\* fetchPic's data task ends; a picture goes up and its URL is asked for.
FetchEnds ==
    /\ Called("fetch", NoPicture, 0) \in calls
    /\ LET others == calls \ {Called("fetch", NoPicture, 0)}
       IN  \/ calls' = others \cup Upload(GooglePic, 0)
           \/ "read" \in MayFail /\ calls' = others
    /\ UNCHANGED <<server, queue, answers, orphans, reads, screen, saved, taps, breaks>>

\* putData ends; its completion only reports.
PutEnds ==
    \E p \in Picture \cup {GooglePic} :
       /\ Called("put", p, 0) \in calls
       /\ calls' = calls \ {Called("put", p, 0)}
       /\ object' = p \/ ("put" \in MayFail /\ UNCHANGED object)
       /\ UNCHANGED <<doc, queue, answers, orphans, reads, screen, saved, taps, breaks>>

\* Mutant: without an URL the form's completion is not called either.
ShownWithoutURLNot(p, n) == image

\* setupView's completion of updatePic shows the picture, URL or none; that of
\* fetchPic returns before it has one.
ShownWithoutURL(p, n) == IF p \in Picture THEN ShownOn(n, p) ELSE image

\* downloadURL is answered, with an error while there is no object yet.
URLAnswered ==
    \E p \in Picture \cup {GooglePic}, n \in 0..pages :
       /\ Called("url", p, n) \in calls
       /\ calls' = calls \ {Called("url", p, n)}
       /\ \/ object # NoPicture /\ Enqueue(URLWrite(p, n)) /\ UNCHANGED image
          \/ /\ object = NoPicture \/ "url" \in MayFail
             /\ image' = ShownWithoutURL(p, n) /\ UNCHANGED queue
       /\ UNCHANGED <<server, answers, orphans, reads, signedIn, userData, sheet, pages, saved, taps, breaks>>

\* The page's download is answered, with no image on an error.
DownloadEnds ==
    \E p \in {object, NoPicture}, n \in 0..pages :
       /\ Called("download", NoPicture, n) \in calls
       /\ p = object \/ "read" \in MayFail
       /\ calls' = (calls \ {Called("download", NoPicture, n)}) \cup {Called("show", p, n)}
       /\ UNCHANGED <<server, queue, answers, orphans, reads, screen, saved, taps, breaks>>

ImageArrives ==
    \E p \in Picture \cup {GooglePic, NoPicture}, n \in 0..pages :
       /\ Called("show", p, n) \in calls
       /\ calls' = calls \ {Called("show", p, n)}
       /\ image' = ShownOn(n, p)
       /\ UNCHANGED <<server, queue, answers, orphans, reads, signedIn, userData, sheet, pages, saved, taps, breaks>>

-----------------------------------------------------------------------------
(* The write queue *)

\* The backend takes or refuses the oldest write it has not answered; an error
\* ends the stream, and nothing behind it is handled before it arrives.
Commit ==
    /\ Len(answers) < Len(queue) /\ \A i \in DOMAIN answers : answers[i] = "ok"
    /\ LET w == queue[Len(answers) + 1]
       IN  \/ /\ w = Account \/ doc.exists
              /\ doc' = Applied(w, doc) /\ answers' = Append(answers, "ok")
           \/ /\ w.kind \in MayFail \/ (w # Account /\ ~doc.exists)
              /\ UNCHANGED doc /\ answers' = Append(answers, "error")
    /\ UNCHANGED <<object, queue, orphans, reads, calls, screen, saved, taps, breaks>>

\* The completions of addUsertoFirestore (fetchPic, if userData has an URL by
\* now), of fetchPic's saveProfilePictureURL and of setupView's.
Completion(w, answer) ==
    /\ calls' = IF w = Account /\ answer = "ok" /\ userData.url # "none"
                THEN calls \cup {Called("fetch", NoPicture, 0)} ELSE calls
    /\ userData' = IF w = URLWrite(GooglePic, 0) /\ answer = "ok"
                   THEN [userData EXCEPT !.url = "storage"] ELSE userData
    /\ image' = IF w.kind = "url" /\ w.pic \in Picture THEN ShownOn(w.page, w.pic) ELSE image

\* Mutant: a write that is gone still counts.
OrphansLeftAll == orphans

OrphansLeft == IF orphans > 0 THEN orphans - 1 ELSE 0

\* An answer arrives: its write goes, and the completion runs if there is one.
Acknowledge ==
    /\ answers # <<>>
    /\ queue' = Tail(queue) /\ answers' = Tail(answers)
    /\ orphans' = OrphansLeft
    /\ IF orphans > 0 THEN UNCHANGED <<calls, userData, image>>
       ELSE Completion(Head(queue), Head(answers))
    /\ UNCHANGED <<server, reads, signedIn, sheet, pages, saved, taps, breaks>>

Break == breaks < MaxBreaks /\ breaks' = breaks + 1

\* The stream breaks before the answers arrive: the pipeline is sent again.
Resend ==
    /\ Break
    /\ answers # <<>> /\ answers' = <<>>
    /\ UNCHANGED <<server, queue, orphans, reads, calls, screen, saved, taps>>

\* The app is killed: the queue stays, to be sent again; answers under way,
\* closures and screens do not.
Crash ==
    /\ Break
    /\ answers' = <<>> /\ orphans' = Len(queue)
    /\ reads' = <<>> /\ calls' = {}
    /\ signedIn' = FALSE
    /\ userData' = [form |-> Blank, url |-> "none", arrived |-> FALSE]
    /\ sheet' = [open |-> FALSE, form |-> Blank]
    /\ image' = NoPicture
    /\ UNCHANGED <<server, queue, pages, saved, taps>>

-----------------------------------------------------------------------------

Firestore == Serve \/ AccountRead \/ SignInRead \/ PageRead \/ Commit \/ Acknowledge
Storage == FetchEnds \/ PutEnds \/ URLAnswered \/ DownloadEnds \/ ImageArrives
Person == SignIn \/ OpenPage \/ Logout \/ OpenForm \/ Save \/ CloseForm

Next == Firestore \/ Storage \/ Person \/ Resend \/ Crash

Spec == Init /\ [][Next]_vars

\* Every request to Firestore and Storage is answered in the end (or times
\* out), and the main queue runs what is on it: something of it happens as long
\* as there is something to do, and what people ask for is finite. Nobody has
\* to press a button.
Fairness == WF_vars(Firestore \/ Storage)

FairSpec == Spec /\ Fairness

-----------------------------------------------------------------------------
(* Properties *)

\* addUsertoFirestore reads and then sets the whole document with blanks. The
\* set may find a document only because it was applied before and is sent again,
\* and whatever that document holds by then is written once more behind it. (One
\* installation, no failed read, no refused account: then the order in which
\* reads are delivered keeps a second sign-in from deciding too early.)
AccountBlanksNothing ==
    \A i \in DOMAIN queue :
        (queue[i] = Account /\ doc.exists) =>
            /\ doc.form = Blank \/ \E j \in (i + 1)..Len(queue) : queue[j] = FormWrite(doc.form)
            /\ doc.url => \E j \in (i + 1)..Len(queue) : queue[j].kind = "url"

\* Whatever sign-ins, restarts and pictures come in between, the profile this
\* device sees is the one its person saved last.
SavedIsKept == saved.yes => View.exists /\ View.form = saved.form

\* ... and it gets to the server, through broken streams and later sign-ins, if
\* these can read the document: one whose read fails sets a blank account.
SavedIsStored == saved.yes ~> (doc.exists /\ doc.form = saved.form)

\* A picture picked in the form, if it can be encoded, comes up on the page it
\* was picked on, uploaded or not, unless its person leaves that page before:
\* each path through the URL and its update calls the completion.
PickedPictureShows ==
    \A p \in Picture \cap Jpeg :
        (signedIn /\ Called("url", p, pages) \in calls) ~> (image = p \/ ~signedIn)
=============================================================================
