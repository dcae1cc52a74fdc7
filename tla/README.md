# CubHub: models, checks and proofs

CubHub (`src/teamhungary`) is an iOS app with which Columbia students post
events and attend them together. It has no server of its own: every screen
talks to Firebase (Auth, Firestore, Storage) through asynchronous callbacks,
and what several people see in the end is decided by how those callbacks
interleave. The repository's tests are Xcode's empty templates. This directory
models that behaviour in TLA+, checks it with TLC and proves the most
important parts with TLAPS.

## 1. Inventory

| Part | Source (under `src/teamhungary/teamhungary`) | State | Operations |
|---|---|---|---|
| Accounts, events, attendance | `SQLDatabaseManager.swift` (`class FirebaseUtilities`, all static) | none of its own; Firestore collections `users` and `events`, and the closures in flight | add account; add, delete event; add, remove attendee; update profile; retrieve profile, attendees |
| Firestore client | `../Pods/FirebaseFirestoreInternal/Firestore/core/src` | persisted mutation queue, cache, overlays, write pipeline | set, update, delete, get, listen |
| Sign-in session | `teamhungaryApp.swift`, `ContentView.swift`, `MyPageView.swift`, Google Sign-In's `GIDSignIn.m` | saved account, current user, one pending request, Firebase user, `LoginState.isLoggedIn`, `userData` | restore, sign in, open the tabs, fetch the profile, log out |
| Events tab, event page | `EventsView.swift`, `EventView.swift`, `AddEventView.swift` | list of rows, search text, alert; page with `isUserAttendee` | refetch, search, swipe to delete, add, open |
| My Plans tab | `MyPlansView.swift` | list of rows, snapshot listeners | listen, swipe to stop attending |
| Attendees | `attendeesView.swift`, `attendeeView.swift` | list of (id, name), one profile | reload |
| Profile page and form | `MyPageView.swift`, `setupView.swift` | form fields, picture | reload, save |
| Profile picture | `SQLDatabaseManager.swift` 11-91, `ContentView.fetchPic`, `setupView.updatePic` | Storage object, URL field | upload, save URL, download |
| Event photos | `SQLDatabaseManager.swift` 93-154, `PhotosView.swift` | Storage folder, gallery | upload, list, download in parallel |
| Address search | `SearchAddressView.swift` | result list | search, pick |
| Map, location, image picker, tabs | `NewMapView.swift`, `MapView.swift`, `ImagePickerView.swift`, `DefaultView.swift` | display only | none that decides anything |
| Unreachable views | `ContentView2`, `BeofreUI`, `loginPage`, `mapViewPage`, `NewMapDetailView` | none | none |
| Firebase Storage | `../Pods/FirebaseStorage`, `../Pods/GTMSessionFetcher` | a task's state, observers, progress; the fetcher's data and callbacks | get data up to a size, list a folder, put data, ask for a URL |
| Other vendored code | `../Pods`, `Lib` | see above | only through what the app uses |

### How the parts interact

* A button press on a screen calls a static function of `FirebaseUtilities`.
  That reads a document, and *in the callback* reads another or writes. Between
  two callbacks anything may happen: other chains of the same device, other
  devices, the app being killed.
* A write goes to a queue in the client, is seen at once by the device's own
  reads (overlays), and is sent and answered in order; the server may be ahead
  of the answers the device has seen. The queue is on disk; the completion
  closures are not.
* The client's worker queue fills a pipeline of ten writes from the queue of
  the current user and sends it on a stream. FIRAuth announces users and tokens
  from queues of its own, so a stream may be started for one user while another
  is on the way.
* The gallery starts a download for every photo of the listing; each runs on
  the URL session's queue, the task's and the main queue, and leaves a
  DispatchGroup when its completion is called.
* The screens share `userData` (a binding down from `ContentView`) and
  `LoginState`. Its uid is `""` until the profile has arrived, and the tabs
  are open before that.
* Google Sign-In is a singleton with one pending request, used by the app
  delegate, by the sign-in page's `onAppear` and by the button.

### What is hard about it

Read-then-write chains on shared documents; writes that are visible before
they are accepted; completions that are lost with the app's memory; lists that
are replaced as a whole while a swipe of one of their rows is still being
answered; a session put together from three services that answer in any
order. Every hazard with its line is listed in `PROJECT.json`.

### What makes each part correct

* Accounts and events: an account only for a Columbia user; an event id used
  once and never again after its deletion; attendance only with an account and
  on request; a deletion only under the owner's uid; the creator attends.
* Firestore client: a read is the server's document under the device's own
  pending writes, in order; a user's writes get to the backend in order, under
  that user's token only, and are settled once each.
* Storage: a download's completion is called, once, and not with an object that
  is over the limit.
* Session: a press of the sign-in button opens the tabs once at most, and nothing
  else opens them; a saved account gets its person in; every request is answered;
  the profile arrives.
* Events tab: distinct rows in order of date; a row index is used only while
  it is the index of that row; the page knows whether I attend.
* My Plans, attendees, gallery, search: the list shown is the newest answer,
  each element once.
* Profile: the blank account of a sign-in blanks nothing that was saved; what the
  form saved is what is shown and stored; a picked picture comes up.

## 2. Modules

| Module | What it is |
|---|---|
| `EventDocs` | The documents of the events collection and the requests people make: vocabulary of the next two |
| `EventBoard` | Abstract: what CubHub promises about `users` and `events`, with no network, queue or chain |
| `FirebaseUtilities` | Detailed: the callback chains, the screens that start them, the Firestore client under them |
| `WriteQueue` | Abstract: what the app relies on when it writes |
| `WritePipeline` | Detailed: the client's queues, pipeline, stream, tokens and users |
| `EventsScreen` | One device's Events tab and event page |
| `EventForm` | The sheet for a new event, with its address search and image picker |
| `MyPlans` | One device's My Plans tab and its snapshot listeners |
| `AttendeesList` | One device's list of the attendees of an event, and the page of one of them |
| `Session` | One installation's sign-in |
| `Profile` | One person's profile: the account's first write, the form, the picture and its URL |
| `EventPhotos` | The photos of one event: uploads, and the gallery of one device |
| `OneAnswer` | Abstract: a completion is called, and called once |
| `StorageDownload` | Detailed: one download of Firebase Storage on its three queues |
| `Pages` | Composition: one visit to one of the pages beside the Events tab |
| `FirebaseUtilitiesProofs`, `WritePipelineProofs`, `EventsScreenProofs`, `SessionProofs`, `EventFormProofs`, `StorageDownloadProofs`, `PagesProofs` | The theorems, see 5 |
| `SequenceFacts` | Lemmas on sequences, element by element, that the proofs share |
| `MCFirebaseUtilities`, `MCEventsScreen`, `MCSession`, `MCWritePipeline`, `MCPages` | Instances for TLC |

### FirebaseUtilities

A *client* is an installation with one Firebase user; one user may have two.
`queue[c]` is the mutation queue, `answers[c]` the server's answers on their
way, for as many writes from its head on. The client sends its pipeline without waiting, so the
server may have handled several writes (`NextWrite` is the one it handles next) before the first answer
is seen; an error ends the stream, so nothing behind it is handled before it arrives. `calls[c][s]` is a callback chain: the
function it belongs to, the answer it waits for and what its closures
captured. Chains start in the UI actions and move one callback at a time:

| Code | Actions |
|---|---|
| `handleSignInButton`, `addUsertoFirestore` | `SignIn`, `UserDataArrives`, `AddUserRead`, `AddUserWrite` |
| `AddEventView` Done, `addEventToFirestore` | `AddEvent`, then `Acknowledge` with `AfterAck` |
| `EventView` Add, `addAttendeeToEvent` | `TapAdd`, `AttendeeUserRead`, `AttendeeEventRead`, `AttendeeWrite` |
| `EventsView.onDelete`, `deleteEventFromFirestore` | `TapDelete`, `DeleteRead`, `DeleteWrite` |
| `MyPlansView.onDelete`, `deleteAttendeeFromEvent` | `LeaveEvent` |
| `RemoteStore`, `SyncEngine` | `Commit`, `Refuse`, `Resend`, `Acknowledge` |
| `MyPageView.logout`; the app is killed | `Logout`, `Crash` |

The action of a callback includes all that it does: reading (the answer is
taken when the callback runs, since nothing of the app looks at it before),
deciding, and ending or going on. A write is a step of its own because an
answer may be old by the time the update is made. Reads look through
`UserExists`, `EventExists`, `OwnerIs` and `SeenAttending`, each of which asks
one question of the document under the pending writes; the run `resend`
checks all of them against the definition of an overlay (`Overlay`: apply the
writes of the queue to the server's document, one after the other, in `Layers`),
and a theorem says so for a queue of any length.

Things the model says that are easy to miss in the code:

* a failed read gives a nil document, so `addUsertoFirestore` then writes the
  account (and resets a profile that exists), while `deleteEventFromFirestore`
  stops without calling its completion;
* the ownership check reads the owner of a missing document as `""`, so a
  request made before `userData` has arrived passes it and deletes nothing, or,
  after a pending deletion by the same device, deletes what is deleted already;
* an event made before `userData` has arrived is owned by `""`, and the
  creator is not added (`addAttendeeToEvent` refuses an empty uid);
* nothing keeps two Adds apart from a removal in between: the last write wins;
* after a restart nobody is signed in (see the finding on `checkState`), but
  the queue goes on.

Abstractions: profile and event texts, dates and coordinates are left out;
the attendees array is a set (`arrayUnion` keeps it one); a client's
`UserDataArrives` that comes after a logout is taken to come after the next
sign-in; the Firebase user of a client never changes (what a change does to
the queue is in `WritePipeline`). Security rules of the
backend are not in the repository: `MayFail` lets the backend refuse any kind
of write instead.

### EventBoard

`users`, `events` and the history `asked` of requests made in the UI, changed
by `Register`, `Create`, `Join`, `Leave` and `Delete`, each one step.
`Board == INSTANCE EventBoard WITH users <- users, events <- events, asked <- asked`,
and `ImplementsBoard == Board!BoardSpec` is checked: every step of the chains, queues and devices is
one of those steps or changes none of the three. It holds with failures and
crashes, **without** redelivery. With `Redelivery = TRUE` it does not: a
repeated set of an event brings back one that another device has deleted, or
wipes its attendees. Nothing in the repository promises otherwise, so that is
a limit of the promise and not a finding. What is left of the promise then is
`ImplementsRepeatingBoard == Board!RepeatingSpec`: one more step, `SetAgain`, which
sets a document a second time for the owner it had; if it was deleted, that owner had
asked for it. Everything else (accounts, attendance, ownership, deletions) is as before.

### EventsScreen

`docs` and `going` are the server's documents and my attendance in them, `Live`
is what a read of this device finds (its pending deletions hide theirs);
`rows` is `EventsView.events`. `Me` is a uid that has arrived. A fetch is asked, *served* (the snapshot) and delivered,
so an old snapshot may overwrite a newer list. A swipe captures a row index
(counted on the filtered rows, looked up among all of them, as in the code),
and goes through the main queue, the read, the deletion and the answer. The
answer removes *the captured index*. A removal out of bounds is what Swift
traps on: `CompletionTraps` starts the screen anew and remembers it in the
history variable `trapped`. After a refused deletion the document is seen again.

### Session

`options` is Google Sign-In's `_currentOptions`, the requester whose
completion it holds. `calls` are the asynchronous calls in flight: token
refreshes, the account sheet, completions on their way to the main queue,
Firebase's sign-in, its continuation, profile reads. The launch's
`signIn(withPresenting:)` is left out: `window` is nil in this app's life
cycle when it is looked at. `OpenProfileTooEarly` is the exception Firestore
raises for `document("")` when the profile tab is opened before `userData`
has a uid: the app restarts. `Logout` signs out of Google only.

Firebase's user is set by `FirebaseDone` and cleared by `SignedOutByForce`: when a
refresh of its token reports a user who is disabled, deleted or expired, FirebaseAuth
signs out by itself (`FIRUser.m:1606`). The tabs watch `LoginState.isLoggedIn`, which
nothing then changes, so tabs without a Firebase user are a state the app can be in, and
no property denies it. What is said of the tabs instead is `OneOpeningPerPress`. The
history variable `presses` counts the presses of the button in this run of the app less
the times the tabs were opened.

### WritePipeline

The four places where something waits are four queues of the model: FIRAuth's
work queue (`auth`), the main queue (`main`), the client's worker queue
(`worker`) and the wire (`requests`, `responses`). `stream` goes through the
states of `Stream` (off the network, initial, starting, open, ready, in error
and backing off); `closes` is its `close_count_`, which an answer to an earlier
start does not match.

| Code | Actions |
|---|---|
| `DocumentReference::SetData`, `RemoteStore::FillWritePipeline` | `Write`, and `Fill` in every action that frees a slot |
| `Stream::Start`, `RequestCredentials`, `GetToken` | `Fill`; `TokenAsked`, `TokenRefreshed`, `Announced`, `TokenArrives`, `TokenFails` |
| the stream opens, shakes hands, answers | `StreamOpens`, `HandshakeComplete`, `MutationResult` (with `Refused`) |
| `OnWriteStreamClose`, backoff, the idle timer | `StreamBreaks`, `BackoffElapses`, `IdleStop` |
| `HandleCredentialChange`, connectivity | `AuthChanges`, `Announced`, `CredentialChange`, `ConnectivityChange`, both by `RestartNetwork` |
| the app is killed and started | `Killed`, `Started` |

The refinement `Queue == INSTANCE WriteQueue WITH settled <- ...`
maps the number of settled writes to those made and no longer on disk.

Two guards in the code turn out to say the same thing here: a late token is
refused because the stream was closed meanwhile (`close_count_`), and because
the token counter moved on when the user changed. Without the counter alone no
property fails, since a change of user restarts the stream in any case.

Simplifications: requests in flight when a stream closes are either judged by
the backend before that or lost; `kMaxPendingWrites` is 10 in the code and a
constant here; a mutation batch is one write, as the app's are.

### StorageDownload and OneAnswer

One `getData(maxSize:)`. The URL session's queue receives chunks and ends the
fetch, the task's dispatch queue starts and cancels it, the main queue runs the
progress block, the observers and the caller's completion, in the order in
which they were put there. `retained` is the closure by which a task keeps
itself, `held` the caller's completion, which is dropped when it is called:
that it is called once hangs on this and on nothing else, because `failure` may
be fired twice (by the cancellation and by the end of the fetch).

### EventPhotos

A load lists the folder page by page, starts a download for each photo, and
notifies when all have answered; the notification replaces the gallery.
`before` and `since` remember, per load, what was stored and what had been shown
when it began. One instance is one appearance of the view. The comment at
`SQLDatabaseManager.swift:80` says 1MB where the code allows 3MB; the model has
photos that are `Big` and photos that are not.

### EventForm

The fields of `AddEventView`, the search sheet and the picker over it. `picked`
is what was picked in this form. Done clears the texts and leaves the
coordinates and the image; that this does no harm is
`EventHasItsOwnPicks` (the sheet's state is new each time it is shown).

### MyPlans

`going` is the server's answer to the query, `known` what the backend has told
this device of it, `View` the device's own writes over it. Each change of
`View` puts a snapshot per listener on the main queue; each replaces the list.
A swipe removes its row by hand and writes.

### AttendeesList

Loads are numbered as they start. Each asks for the event, clears the list, asks
for the profiles and appends names; all of it interleaves. `overlaps` counts the
loads that started while another was going on. The page does not listen to the
event: who joins after the newest load has read it is not listed until the next load.
`ListFills` says so, and promises the listing of those who attend *before* the read of
a load and have a profile: once nothing is loading, they are listed or have left.

### Pages and MCPages

`EventForm`, `StorageDownload`, `AttendeesList`, `EventPhotos`, `MyPlans` and
`Profile` share no state: each page has its own `@State`, and what they read of the
server is their own document or folder. So a behaviour is a visit to one of them
(`visit`), the others staying as they are at rest, and the runs check them together
as the sum of their state spaces. Pages with failures that a property rules out
(for the profile: failed reads, refused accounts, breaks) are visited twice, in a calm instance and in one where all requests may fail; a
property guarded by `visit` says which one it is about.
`SettlingSpec` adds the fairness of the pages; at rest none of the steps it asks for
is enabled, so that the fairness of one page constrains nothing in a visit to another.

### Profile

One document, `users/{uid}`, written by `addUsertoFirestore` (as a whole),
`updateUserInFirestore` and `saveProfilePictureURL` (fields of an existing
document), and one object in Storage. Reads are answered in order, from the document
under the writes pending at that moment, and delivered later in that order. The
URL is saved as `profilePictureURL` and read as `profile_pic`, so a reload never
finds it.

`answers` are the server's answers on their way, for as many writes from the head of
`queue`. `Resend` (the stream breaks) and `Crash` (the app is killed) lose them, and the
writes they were for, still on disk, are sent and applied again; the set of an account may
then find a document, and blanks it until the writes behind it are applied again as well.
`Crash` also loses the completions: `orphans` counts the writes that have none any more.

`pages` counts the appearances of the profile tab, one for each sign-in, and `image` is
what the page that is there now shows: it goes with the tabs at a logout, and a completion
that comes later (`ShownOn`) finds the page it was made on gone. `Upload` does nothing, and
calls no completion, for a picture that `jpegData` cannot encode (`Jpeg` are the others).
`Picks` bounds which pictures are picked.

`View` is what laying the pending writes over the document, oldest first, comes
to: a document exists if the server has it or an account is pending; the last
account or form decides the fields (`Shows`); a URL stays until an account is set
over it (`HasURL`). It is stated so, and not as a fold, to be proved about.

## 3. Runs

| Run | Expect | Shows |
|---|---|---|
| `people` | pass | two people, one not of Columbia: `TypeOK`, `ImplementsBoard` |
| `resend` | pass | two devices, writes applied again: `AttendeesHaveAccounts`, `ReadsShowPendingWrites`, `ImplementsRepeatingBoard` |
| `live` | pass | two devices, answers in the end: `SignInGivesAccount`, `CreatorAttends`, `OwnerCanDelete`, `ImplementsBoard` |
| `rows` | pass | `TypeOK`, `RowsWellFormed`, `OthersEventsSurvive` |
| `index` | violation | a refresh makes a captured index invalid: `IndexInRange` |
| `session` | pass | button and tabs, with failing requests and forced sign-outs: `TypeOK`, `OneOpeningPerPress`, `ProfileComes` |
| `restore` | violation | a saved account does not get in: `RestoreSignsIn` |
| `completions` | violation | a request is never answered: `EveryCompletionIsCalled` |
| `pages_kept` | pass | the form: `FormTypeOK`, `EventHasItsOwnPicks`; a download: `TypeOK`, `ReportedIsNotDelivered`; the attendees: `NobodyIsMissing` (reads succeed), `TwiceOnlyByOverlap` (reads fail); the photos: `GalleryIsWhole`, `PhotosGoOnlyByOverlap` (nothing fails); My Plans: `ListFollowsView`; the profile, with kills and broken streams: `AccountBlanksNothing`, `SavedIsKept`; all others: `PagesTyped` |
| `pages_settle` | pass | a download: `CallerIsAnsweredOnce`; the form: `SearchEnds`; the attendees: `ListFills`; the photos, all requests may fail: `LoadsEnd`; My Plans: `ListSettles`; the profile: `SavedIsStored` (a kill or a broken stream, reads succeed), `PickedPictureShows` (uploads, URLs and reads may fail) |
| `pipeline_order` | pass | two writes in the pipeline, one change of user, a break and a restart: `AnswersMatchPipeline`, `AssertionsHold`, `ImplementsWriteQueue` |
| `pipeline_settle` | pass | more writes than slots, a kill: `TypeOK`, `WritesSettle` |

### Bounds and why they are enough

* `FirebaseUtilities`: one event (events do not interact: no chain touches two),
  two clients, two slots and two queued writes per client, three or four
  button presses, one crash in `people`. That is enough for a creation, an attendance, a
  removal and a deletion to overlap on two devices with a write of each kind
  ahead of another one. `people` has four presses, so that the whole life of an
  event and a second person's part in it fit. `resend` repeats writes without
  bound.
* `EventsScreen`: two events (one of mine, one not; on two days), one fetch and
  two deletions in flight, one change by others. One fetch is enough
  for a stale snapshot, since it may be served before a deletion and delivered
  after it; two deletions are needed for two captured indices.
* `Session`: three calls in flight (launch, sign-in page and button are the
  requesters there are), two accounts, three presses (sign in, open the
  profile or log out, sign in again), one kill.
* `WritePipeline`: two users. `pipeline_order` has two writes in flight, so that a refill
  and a second request happen beside answers, and one change of user, one break and one
  restart, in any order; `pipeline_settle` has one slot for two writes, and
  the same faults, since liveness is checked without symmetry. What
  follows a break or a restart is the same state as at the first start,
  but for the counters. A token that comes back to its user after another's needs two
  changes: the theorems of section 5 hold for any number.
* `StorageDownload`: objects under, at and over the limit by two chunks (for liveness, at
  and over it), one retry.
* `AttendeesList`: two loads, which is what it takes to overlap,
  three people, one of them without a profile, one who joins or leaves, with reads
  that succeed and with reads that fail; for liveness two people, both with a profile.
* `EventPhotos`: two loads; pages of one photo, so that uploads fall between pages;
  three photos, the last too big; two for liveness, where all requests may fail.
* `MyPlans`: two listeners (a late copy needs no third), two swipes or adds on two
  events, one change by others; for liveness one swipe or add.
* `EventForm`: two searches in a sheet and two events, so that there is an earlier
  sheet and an earlier event to be mixed up with.
* `Profile`: four presses (sign in, open the form, log out, sign in again), three reads
  and three writes in flight, two breaks or kills, so that an account can be applied, lost
  its answer, and be applied again over what followed. The visit `saving` picks no picture (only
  Google's is there), as a form and a picture share nothing but the queue. For liveness
  `saving` has three presses and one break or kill: after a kill the third press is a second
  sign-in behind the form saved. Its reads succeed: when the read of a second sign-in fails,
  `addUsertoFirestore` sets a blank account over the profile and `SavedIsStored` is false
  (`SQLDatabaseManager.swift:185`). `pictures` has three presses, no breaks, a picture
  that can be encoded and one that cannot, and failing uploads, URLs and reads.
* Symmetry: slots, and the two devices of one person, and calls in flight,
  are interchangeable, and so are the
  users of `WritePipeline`. No run of a liveness property uses symmetry.
* Deadlock is not checked: a run ends when the presses are used up.

### The violations, and what they mean

* `index`: swipe a row, pull to refresh while the deletion is pending (the
  device's own pending deletion already hides the row), then the answer
  arrives and `events.remove(at: index)` is out of range. The guard at line 143
  checks the same index at the time of the swipe.
* `restore`: the guard lets only failed restores pass. `Failures = FALSE` and
  no button press is needed.
* `completions`: the launch's restore is still running when the sign-in page
  asks for its own; the first to end calls the second's completion and
  forgets it, the second then finds none to call, and the launch's is never called.

The models behave in four more ways that a comment or a document of the code reads
differently, and that no run is spent on:

* the URL of a first picture is asked for (`SQLDatabaseManager.swift:28`) when its
  upload has only started: there is no object yet and no URL gets saved, while line 27
  speaks of access "after upload" (`Profile.URLAnswered`). Nothing reads the URL back.
* an object over `maxSize` is handed over when all its chunks arrive and the fetch ends
  before the main queue has run one progress report (`GTMSessionFetcher.m:2735`): the
  reports are then skipped, the progress is 0 and the size passes, where
  `StorageReference.swift:213` promises an error. `ReportedIsNotDelivered` is what does hold.
* a task cancelled for its size never gets its fetcher's completion, the one place where
  it stops retaining itself (`StorageDownload.retained`, `StorageDownloadTask.swift:186`).
* the attendees of a row are decoded with `as? [String]` from an array of references
  (`EventsView.swift:205`), so `isUserAttendee` is never true and Add is always offered
  (`EventsScreen.Decoded`); `addAttendeeToEvent` checks again, so nobody attends twice.
  In the same spirit `MyPlansView.swift:117` reads the longitude from `lat`; coordinates
  in lists are not modelled.

## 4. Fairness

* `FirebaseUtilities.FairSpec`: weak fairness of the arrival of the profile, of
  the backend's handling of the next write of each queue, of its answer, and of each
  chain's next callback. The Firestore client retries a write with backoff
  until it gets a definite answer (`RemoteStore::HandleWriteError` returns on
  transient errors), and keeps the queue on disk. Nothing makes a person press
  a button, a device crash or a backend refuse; no fairness is put on a choice
  the code does not make. The run has no failures: with them the three
  properties are not promised (a refused write is only reported).
* `Session.FairSpec`: launching and appearing do ask Google Sign-In, and each
  call of the SDKs ends (an answer or a timeout, which is an error). The account
  sheet may stay open for ever: `SheetDone` is not fair; nor is
  `SignedOutByForce`, which Firebase need never do.
* `WritePipeline.FairSpec`: the worker queue, FIRAuth's queue, the main queue and
  the backend are served, tokens are fetched. Breaks, changes of user and kills are
  bounded by constants and not fair. `WritesSettle` is about a user who stays.
* `StorageDownload.Fairness`: each of the three queues is served, and a transfer
  ends (by GTMSessionFetcher's timeout if not by its last byte). A retry is also a
  step of the session; retries are bounded by the fetcher itself.
* `EventPhotos`, `AttendeesList`, `Profile`, `MyPlans`, `EventForm`: requests are answered
  (also with errors), blocks of the main queue run. Nothing makes a person act. `Profile`
  has one weak fairness for all steps of the backends and the main queue together: each of
  them uses up something a person asked for, so that they come to an end by themselves.

## 5. Proofs

All proofs are checked by `tlapm` to the last leaf, for every value of the
constants that satisfies the named assumptions (`DocsAssumption`,
`ClientAssumption`, `PipelineAssumption`, `ScreenAssumption`, `SessionAssumption`,
`FormAssumption`, `DownloadAssumption`, `PagesAssumption`). They say what kind of
thing a constant is, that the values standing for "none" are values of their own,
and that bounds are numbers; TLC evaluates each of them on a run. Where a theorem needs
more than that, it says so in its `ASSUME`.

Every invariant and every safety part of a property that a passing run checks is a
theorem, and so are the refinements of a detailed module by an abstract one.

### FirebaseUtilities

* `TypeCorrect` (`Spec => []TypeOK`): `TypeOK` is inductive as it stands. One
  lemma per group of actions; lemmas on `SetCall`, `Enqueue`, the queue's
  head and the answers (`OneAnswer`) say once what those operators keep.
* `AccountsFirst` (`"user" \notin MayFail` implies
  `Spec => []AttendeesHaveAccounts`). `addAttendeeToEvent` checks the account
  on the *client*, where a pending write counts, so the property is not
  inductive. The invariant is `AccountsInv`: every queued attendance has the
  account at the server or **ahead of it in the same queue** (`JoinsAreBacked`);
  a chain past its first read has the account in the device's view
  (`JoinersAreUsers`); an answered account is at the server, so that it may
  leave the queue (`AccountsAreTaken`), and so are those ahead of the write the server handles
  next (`NextIsBacked`). The order of the queue does the rest;
  neither crashes nor redelivery disturb it. The assumption is needed: when
  the backend refuses the account and accepts the attendance queued behind it,
  the attendee has none.
* `AccountsStayAhead` states that invariant itself (`Spec => []AccountsInv`), under the same
  assumption.
* `RequestsBehindAll` (`Spec => []BoardInv`, without assumption): the invariant of the
  refinements. Each chain and each queued write was asked for by its user
  (`ChainsBacked`, `WritesBacked`); an event's id is asked for by one user
  (`OneCreator`); a document that is there was asked for by its owner, and one that is deleted
  by somebody who asked for its deletion too (`DocsAsked`, `DeletionAsked`); the
  set of an event is queued once, and finds no document when the server comes to it unless
  writes are applied again (`SetsOnce`). The hard part is the deletion: it checks the owner in one callback and
  writes in the next, and what it saw may be the device's own pending creation, or
  nothing at all. `MayDelete` says what is left of the check by the time the write is
  handled: either the event is gone and no creation of it is still `Open`, or whoever
  asked for it has asked for its deletion. With redelivery every queued write is open, so
  only the second is left for an event whose set is queued. `SeenFrom` is why a check of a missing
  document is harmless: the creation cannot be pending on another device.
* `BoardImplemented` (`~Redelivery` and `"user" \notin MayFail` imply
  `Spec => ImplementsBoard`): each action of chains, queues and devices maps to a step of
  `EventBoard` or leaves its three variables alone, from `BoardInv` and `AccountsInv`.
  Both assumptions are needed: with redelivery TLC finds a deleted event set
  again, and with refused accounts an attendee without one.
* `RepeatingBoardImplemented` (`"user" \notin MayFail` implies
  `Spec => ImplementsRepeatingBoard`): the same mapping with writes that are applied any number
  of times. A set that finds a document is `SetAgain` (`SetAgainStep`): by `OneCreator` and
  `DocsAsked` it is of the same owner, who asked for the deletion of what is deleted.
* `ReadsAreOverlays` (`Spec => []ReadsShowPendingWrites`, with redelivery too). A write is
  looked for in the queue by what it says (`Pending`, `SeenAttending`) where the client computes a
  document by applying the writes in order. The invariant is `QueuesInv`: nothing is written to an
  event before it is asked for, its set is ahead of every other write to it (`SetsLead`), and a
  document that is not there has no owner. Then, by induction on the number of writes, `LeftBy` says what
  the first n of a queue leave of a document (`LeftByOneMore`). The library's induction theorems take an
  operator, which the provers cannot instantiate; `SetInduction` states induction of a set of
  numbers, from the well-foundedness of `<`, and serves as well, also for the recursion of `Layers`.

### WritePipeline

* `PipelineKept` (`Spec => []PipelineInv`). `WritesInv` is about what waits:
  the queue of a user holds the last writes made, the pipeline is the head of the current user's
  queue, and answers followed by requests are the pipeline while the stream is ready, and
  nothing otherwise. `TokensInv` is about who asked: there is at most one request for a
  token per start of the stream (`OneRequest`, on four queues), and a token that no change of
  user has overtaken is of the user whom the client has by the time it arrives
  (`Announces`, `AuthAhead`, `FreshTokens`, `WorkerTokens`), which takes following the changes
  of user through the main and the worker queue.
* `AnswersMatch` (`Spec => []AnswersMatchPipeline`), `ClientAssertions`
  (`Spec => []AssertionsHold`) and `PipelineTyped` (`Spec => []TypeOK`) follow from it.
* `WriteQueueImplemented` (`Spec => ImplementsWriteQueue`): a request judged by the backend
  is the step of the abstract queue, in the name of the stream's token; an answer settles the
  head. It needs `TokenRight` (the token on a stream is the current user's) and `Answered`.

### EventsScreen and Session

* `ScreenTypeCorrect` (`Spec => []TypeOK`): inductive as it
  stands. A listing is a sequence because there are finitely many events
  (`ScreenAssumption`).
* `OthersSurvive` (`Spec => OthersEventsSurvive`), an action property: only the
  answer to a deletion of this screen and a counted change elsewhere delete a
  document. The invariant is `DeletionsAreMine`: a deletion past its ownership
  check is of an event of mine, since an event does not change hands. The row
  a swipe hits is not in the argument, so that the wrong index under a search
  filter does no harm to other people.
* `RowsAreWellFormed` (`Spec => []RowsWellFormed`): the invariant adds the same of every
  snapshot that is served and not delivered (`RowsInv`); a removal of the captured index,
  right or wrong, keeps it.
* `OpeningsArePressed` (`Spec => []OneOpeningPerPress`). Google Sign-In calls whichever
  completion it holds, so a restore's refresh may answer the button. The invariant `PressInv`
  counts: the button's answers on their way, Firebase's sign-ins, the openings on the main queue and
  the completion held for the button, if it is, are together no more than `presses`. It goes through because whoever
  answers the held request forgets it, and a press of the button replaces the request
  that it finds. `SessionTyped` is the module's `TypeOK`.

### EventForm and StorageDownload

* `FormTypeCorrect`, `EventsHaveTheirPicks`: the invariant is that in an
  open sheet the fields are what was picked in it (`PicksInv`); the leftovers of
  Done are in a sheet that is thrown away.
* `DownloadTyped`: with a lemma per kind of step on what
  it leaves on the main queue (`TypeMain`), which the invariant below uses again.
* `TooBigIsNotDelivered` (`Spec => []ReportedIsNotDelivered`). A report after the data
  was handed over would refute it, so the invariant says that data comes only of a
  fetch that is over (`DataIsLast`), after which no progress is counted, and that
  data on its way was checked against the last count (`TooBigIsHeldBack`).
* `AnsweredAtMostOnce` (`Spec => Caller!Init /\ [][Caller!Complete]_answers`): the
  safety part of the refinement of `OneAnswer`; from `NotCalledYet`, a completion that
  is still held was not called. That it *is* called is liveness, and left to TLC.

### The pages

These theorems are about `PagesSpec`, the composition, and about the visit that their property
names: a calm one for what holds only while requests succeed, a failing one for what holds always.
Each has an invariant of its own page and one lemma per action of it; a step of another
visit leaves its variables alone.

* `NobodyIsLost`, `NamesRepeatByOverlap` (`AttendeesInv`): loads reach each stage
  in the order in which they began (`LoadsInOrder`), so the load that clears the list last is the newest of
  those past that point, and whom it found is listed or awaited (`NobodyLost`). Of a
  name, the places in the list and the answers on the way together are at most one more than the
  overlaps so far (`OverlapsCounted`); the bound on busy loads is what makes
  the count go through when a load begins.
* `TheGalleryIsWhole`, `NothingGoesAlone` (`PhotosInv`): what was stored when a load began is
  listed already or has a greater name than all that is listed, so that no page passes over it
  (`NothingPassedOver`); what was listed is downloaded or awaited; only stored photos are on the way
  (`OnlyStored`); a load is on the main queue once (`GalleryLoads`). Both are about the visit
  where nothing fails: a failed download makes a photo go without an overlap.
* `TheListFollows` (`PlansInv`): with snapshots on their way, the last one carries the
  device's view; with none, the list is that view, by date.
* `AccountsBlankNothing`, `TheLastFormIsSeen` (`SavingInv`). `addUsertoFirestore` reads, and sets the
  whole document if it found none. Before the profile of a sign-in has arrived nothing else of it is in
  flight, and its read agrees with the view (`FirstSignIn`); afterwards no answered read missed the
  account (`AccountStands`). The queue holds one account at most, as its oldest write; if it finds a
  document, it is one that this account and the writes behind it have made, and what that document
  holds is still among them (`AccountLeads`), so that applying them again ends where it did before. What
  was answered is in the document (`AnswerTold`, for all answers on their way), which is why losing
  answers (`AnswersLost`, for `Resend` and `Crash`) does no harm; the form saved last is what the
  writes show (`LastSaved`). They are about the visit `saving`, where reads succeed and accounts and
  forms are not refused, with any number of breaks and kills.
* `PagesAreTyped` (`Spec => []PagesTyped`): every step of `saving` is one of `pictures`, so
  the types of the profile are proved once.

### What is only model-checked

* Every liveness property (`SignInGivesAccount`, `CreatorAttends`, `OwnerCanDelete`, `ProfileComes`,
  `WritesSettle`, `SearchEnds`, `ListFills`, `LoadsEnd`, `ListSettles`, `SavedIsStored`,
  `PickedPictureShows`, and the last conjunct of `CallerIsAnsweredOnce`): fairness is ENABLED of an action, which is out
  of reach too.
* The three violations, which are about one behaviour each.

## 6. Not modelled

Maps, layout, navigation paths, formatting and logging decide nothing that
others see. Vendored code is modelled only as far as the app relies on it:
Firestore's write path, overlays and tokens, Storage's downloads and Google Sign-In's flow
from their source; the backends, Firebase Auth's sign-in and the address search from
how the app uses them. Firestore's cache, its eviction and transactions, and
uploads to Storage beyond their answers, are not modelled. `MyPlans` lets the
server handle the head of the device's queue only, so there each answer is seen before the next
write is handled; that it may be ahead is in `FirebaseUtilities`, `Profile` and `WritePipeline`.
`updateEventInFirestore` and `retrieveEventFromFirestore` have no caller.

## 7. Plan

Every safety property the runs check is proved. What is left worth doing: the ranking arguments behind the
liveness properties as action properties (a step of a chain or of a load never takes it back to an
earlier stage), which with fairness give termination; and, in the client, the cache under the
overlays, so that a read which is older than the server's document can be told from one that
is not.
