-------------------------------- MODULE Pages --------------------------------
(***************************************************************************)
(* What one device shows beside the Events tab: the sheet for a new event, *)
(* a download, the attendees and the photos of an event, My Plans, and the *)
(* profile. These share no state, so a behaviour is one visit to one of    *)
(* them, and what is not visited stays as it is at rest.                   *)
(*                                                                         *)
(* Some are visited in two instances: a calm one, for what holds when      *)
(* requests succeed, and one where all of them may fail.                   *)
(***************************************************************************)
EXTENDS EventForm, StorageDownload

CONSTANTS Visits,                          \* of those PagesNext names
          \* attendees: who there is, who has a profile; bounds
          People, Profiles, NoPerson, MaxAppearances, MaxComings,
          \* photos: their names, those too big, the pages they are listed in; a bound
          Shots, TooBig, PageSize, MaxOpenings,
          \* My Plans: the events and their days; bounds
          PlanEvents, Days, MaxPulls, MaxTaps, MaxRemote,
          \* the profile: forms, pictures, and which jpegData can encode; bounds
          Forms, Blank, Pics, Encodable, GooglePic, NoPic, MaxReads, MaxQueue, MaxSaves,
          MaxBreaks,
          SavedPics  \* and of the pictures, those picked while no read may fail

VARIABLES
    visit,
    attending, stage, ids, pending, attendees, page, overlaps, changes,
    stored, uploading, photoStage, items, downloads, images, notified, gallery,
    shown, before, since,
    going, known, synced, queue, result, listeners, snapshots, rows, hasUid,
    taps, pulls, remote,
    doc, object, writes, told, orphans, reads, calls, signedIn, userData,
    formSheet, pages, image, saved, presses, breaks

attendeesVars == <<attending, stage, ids, pending, attendees, page, overlaps, changes>>
photosVars == <<stored, uploading, photoStage, items, downloads, images, notified, gallery,
                shown, before, since>>
plansVars == <<going, known, synced, queue, result, listeners, snapshots, rows, hasUid,
               taps, pulls, remote>>
profileVars == <<doc, object, writes, told, orphans, reads, calls, signedIn, userData,
                 formSheet, pages, image, saved, presses, breaks>>
pageVars == <<visit, formVars, vars, attendeesVars, photosVars, plansVars, profileVars>>

\* People come and go while the list loads.
Attendees == INSTANCE AttendeesList WITH
    Person <- People, Nobody <- NoPerson, ReadsFail <- FALSE,
    MaxLoads <- MaxAppearances, MaxChanges <- MaxComings
AttendeesFailing == INSTANCE AttendeesList WITH
    Person <- People, Nobody <- NoPerson, ReadsFail <- TRUE,
    MaxLoads <- MaxAppearances, MaxChanges <- MaxComings

\* Photos are stored while the gallery loads.
Photos == INSTANCE EventPhotos WITH
    Photo <- Shots, Big <- TooBig, MayFail <- {}, MaxLoads <- MaxOpenings,
    stage <- photoStage, pending <- downloads, main <- notified
PhotosFailing == INSTANCE EventPhotos WITH
    Photo <- Shots, Big <- TooBig, MayFail <- {"put", "list", "download"},
    MaxLoads <- MaxOpenings,
    stage <- photoStage, pending <- downloads, main <- notified

Plans == INSTANCE MyPlans WITH
    Event <- PlanEvents, DateOf <- Days, MayFail <- {"write", "listen"},
    main <- snapshots, arrived <- hasUid

\* The form saved, the app killed, the stream broken; and the pictures, with
\* neither.
Saving == INSTANCE Profile WITH
    Form <- Forms, Picture <- Pics, Picks <- SavedPics, Jpeg <- Encodable, NoPicture <- NoPic,
    Columbia <- TRUE,
    MayFail <- {"url"}, MaxTaps <- MaxSaves,
    queue <- writes, answers <- told, sheet <- formSheet, taps <- presses
Pictures == INSTANCE Profile WITH
    Form <- Forms, Picture <- Pics, Picks <- Pics, Jpeg <- Encodable, NoPicture <- NoPic,
    Columbia <- TRUE,
    MayFail <- {"put", "url", "read"}, MaxTaps <- MaxSaves,
    queue <- writes, answers <- told, sheet <- formSheet, taps <- presses

ASSUME PagesAssumption ==
    /\ Attendees!AttendeesAssumption /\ AttendeesFailing!AttendeesAssumption
    /\ Photos!PhotosAssumption /\ PhotosFailing!PhotosAssumption
    /\ Plans!PlansAssumption
    /\ Saving!ProfileAssumption /\ Pictures!ProfileAssumption

\* getData is not called.
NotAsked ==
    /\ size = 1 /\ length = 1 /\ retries = 0 /\ fetch = "idle" /\ arrived = 0
    /\ stopped = FALSE /\ completed = 0 /\ total = 0 /\ worker = <<>> /\ main = <<>>
    /\ observed = TRUE /\ retained = FALSE /\ held = TRUE /\ answers = <<>>

PagesInit ==
    /\ visit \in Visits
    /\ FormInit
    /\ IF visit = "download" THEN Init ELSE NotAsked
    /\ IF visit = "attendees failing" THEN AttendeesFailing!Init ELSE Attendees!Init
    /\ visit \notin {"attendees", "attendees failing"} => attending = {}
    /\ IF visit = "photos failing" THEN PhotosFailing!Init ELSE Photos!Init
    /\ visit \notin {"photos", "photos failing"} => stored = {}
    /\ Plans!Init
    /\ visit # "plans" => going = {}
    /\ Saving!Init

\* Everything but what is visited.
Only(visited) ==
    /\ UNCHANGED visit
    /\ visited # "form" => UNCHANGED formVars
    /\ visited # "download" => UNCHANGED vars
    /\ visited # "attendees" => UNCHANGED attendeesVars
    /\ visited # "photos" => UNCHANGED photosVars
    /\ visited # "plans" => UNCHANGED plansVars
    /\ visited # "profile" => UNCHANGED profileVars

PagesNext ==
    \/ visit = "form" /\ FormNext /\ Only("form")
    \/ visit = "download" /\ Next /\ Only("download")
    \/ visit = "attendees" /\ Attendees!Next /\ Only("attendees")
    \/ visit = "attendees failing" /\ AttendeesFailing!Next /\ Only("attendees")
    \/ visit = "photos" /\ Photos!Next /\ Only("photos")
    \/ visit = "photos failing" /\ PhotosFailing!Next /\ Only("photos")
    \/ visit = "plans" /\ Plans!Next /\ Only("plans")
    \/ visit = "saving" /\ Saving!Next /\ Only("profile")
    \/ visit = "pictures" /\ Pictures!Next /\ UNCHANGED breaks /\ Only("profile")

PagesSpec == PagesInit /\ [][PagesNext]_pageVars

SettlingSpec ==
    /\ PagesSpec
    /\ FormFairness /\ Fairness /\ Attendees!Fairness /\ PhotosFailing!Fairness
    /\ Plans!Fairness /\ Pictures!Fairness

-----------------------------------------------------------------------------
(* The properties of what is visited *)

\* In every visit the lists, queues and callbacks of the page have their types.
PagesTyped ==
    /\ visit = "attendees" => Attendees!TypeOK
    /\ visit = "attendees failing" => AttendeesFailing!TypeOK
    /\ visit = "photos" => Photos!TypeOK
    /\ visit = "photos failing" => PhotosFailing!TypeOK
    /\ Plans!TypeOK
    /\ visit = "saving" => Saving!TypeOK
    /\ visit = "pictures" => Pictures!TypeOK

\* However the end of the fetch, the cancellation and the observers overlap,
\* getData's completion is called, and called once: a download implements
\* OneAnswer.
CallerIsAnsweredOnce ==
    /\ visit = "download" => Caller!Init
    /\ [][Caller!Complete]_answers
    /\ visit = "download" => <>(answers # <<>>)

\* Whoever the newest load of the attendees found is listed or still on the
\* way, however fetchEventAttendees overlaps with itself.
NobodyIsMissing == visit = "attendees" => Attendees!NobodyIsMissing

\* Also when its reads fail, it lists a name again only for loads that overlapped.
TwiceOnlyByOverlap == visit = "attendees failing" => AttendeesFailing!TwiceOnlyByOverlap

\* Whoever attends when a load is about to read the event, stays and has a
\* profile, is listed once the loads have ended.
ListFills == visit = "attendees" => Attendees!ListFills

\* The gallery holds what was stored when its load began, and only stored
\* photos: retrieveEventPhotos joins all its downloads.
GalleryIsWhole == visit = "photos" => Photos!GalleryIsWhole

\* A photo goes from the gallery only by loadImages overlapping with itself.
PhotosGoOnlyByOverlap == [][visit = "photos" => Photos!NothingGoesBySuccession]_pageVars

\* Every load of the gallery ends, also with failing listings and downloads.
LoadsEnd == visit = "photos failing" => PhotosFailing!LoadsEnd

\* My Plans never comes apart from the device's view of the query, for all its
\* listeners and the rows that onDelete removes by hand.
ListFollowsView == Plans!ListFollowsView

\* When people rest, My Plans comes to show what its person attends.
ListSettles == Plans!ListSettles

\* The set of addUsertoFirestore, also one that is sent again, blanks nothing
\* that is not written once more behind it.
AccountBlanksNothing == visit = "saving" => Saving!AccountBlanksNothing

\* What the form saved last is what the device sees, after restarts too.
SavedIsKept == visit = "saving" => Saving!SavedIsKept

\* What the form saved gets to the server, or is saved over, when the reads of
\* later sign-ins succeed.
SavedIsStored == visit = "saving" => Saving!SavedIsStored

\* A picked picture that can be encoded is shown in the end while its page is
\* there, whichever of uploadProfilePicture's requests fail.
PickedPictureShows == visit = "pictures" => Pictures!PickedPictureShows
=============================================================================
