----------------------------- MODULE EventPhotos -----------------------------
(***************************************************************************)
(* The photos of one event: uploads from its page (EventView.swift) and    *)
(* the gallery of one device (PhotosView.swift).                           *)
(*                                                                         *)
(* A load lists the event's folder page by page, downloads every photo it  *)
(* found at the same time, and replaces the gallery when a DispatchGroup   *)
(* says that all downloads answered. Appearing and pulling start loads     *)
(* while others are going on.                                              *)
(*                                                                         *)
(* Each download is the OneAnswer that StorageDownload implements.         *)
(***************************************************************************)
EXTENDS Naturals, Sequences, FiniteSets, SequencesExt

CONSTANTS Photo,       \* names, in the order the folder is listed
          Big,         \* photos over getData's maxSize
          PageSize,    \* the most a page of the listing holds
          MayFail,     \* what may end in an error: "put", "list", "download"
          MaxLoads     \* bound: appearances and pulls

PhotosAssumption ==
    /\ Photo \subseteq Nat /\ Big \subseteq Photo /\ PageSize \in Nat \ {0}
    /\ MayFail \subseteq {"put", "list", "download"} /\ MaxLoads \in Nat

VARIABLES
    stored,     \* server: the event's folder
    uploading,  \* photos on their way to it, from any device
    stage,      \* per load: "list", "download", "show" on the main queue, "ended"
    items,      \* per load: what its listing found so far
    pending,    \* per load: downloads the group waits for
    images,     \* per load: what was downloaded
    main,       \* loads whose group has notified, in that order
    gallery,    \* EventPhotosView.images
    shown,      \* history: the loads whose photos were shown
    before,     \* history, per load: what was stored when it began
    since       \* history, per load: how many had been shown by then

loads == <<stage, items, pending, images, main>>
history == <<shown, before, since>>
vars == <<stored, uploading, loads, gallery, history>>

Loads == DOMAIN stage

TypeOK ==
    /\ {stored, uploading, gallery} \subseteq SUBSET Photo
    /\ stage \in Seq({"list", "download", "show", "ended"}) /\ Len(stage) <= MaxLoads
    /\ {items, pending, images, before} \subseteq [Loads -> SUBSET Photo]
    /\ \A l \in Loads : stage[l] = "download" <=> pending[l] # {}
    /\ main \in Seq(Loads) /\ shown \in Seq(Loads)
    /\ since \in [Loads -> 0..Len(shown)]

Init ==
    /\ stored \in SUBSET Photo /\ uploading = {}
    /\ stage = <<>> /\ items = <<>> /\ pending = <<>> /\ images = <<>> /\ main = <<>>
    /\ gallery = {}
    /\ shown = <<>> /\ before = <<>> /\ since = <<>>

-----------------------------------------------------------------------------
(* Uploads *)

\* uploadEventPhoto, under a fresh name. The download URL it asks for is only
\* printed.
UploadEventPhoto(p) ==
    /\ p \notin stored \cup uploading
    /\ uploading' = uploading \cup {p}
    /\ UNCHANGED <<stored, loads, gallery, history>>

\* putData ends; an error is only printed.
PutEnds(p) ==
    /\ p \in uploading /\ uploading' = uploading \ {p}
    /\ stored' = stored \cup {p} \/ ("put" \in MayFail /\ UNCHANGED stored)
    /\ UNCHANGED <<loads, gallery, history>>

-----------------------------------------------------------------------------
(* Loads *)

\* loadImages, on appearing and pulling.
LoadImages ==
    /\ Len(stage) < MaxLoads
    /\ stage' = Append(stage, "list")
    /\ items' = Append(items, {}) /\ pending' = Append(pending, {})
    /\ images' = Append(images, {})
    /\ before' = Append(before, stored) /\ since' = Append(since, Len(shown))
    /\ UNCHANGED <<stored, uploading, main, gallery, shown>>

\* The page of the folder after what was listed: its first names.
Rest(l) == {p \in stored : \A q \in items[l] : q < p}
Page(l) == {p \in Rest(l) : Cardinality({q \in Rest(l) : q <= p}) <= PageSize}

\* Mutant: the listing stops after its first page.
LastPageFirst(l) == TRUE

LastPage(l) == Page(l) = Rest(l)

\* Mutants: the group is never entered; it notifies on a leave only.
JoinedAtOnce(l) == TRUE
JoinedByLeave(l) == pending'[l] = {} /\ pending[l] # {}

\* The group notifies when nobody is in it (any more).
Joined(l) == pending'[l] = {}

Notify(l) ==
    IF Joined(l) THEN stage' = [stage EXCEPT ![l] = "show"] /\ main' = Append(main, l)
    ELSE stage' = [stage EXCEPT ![l] = "download"] /\ UNCHANGED main

\* listAll: another page, and with the last one the downloads begin.
ListPage(l) ==
    /\ stage[l] = "list"
    /\ LET found == items[l] \cup Page(l)
       IN /\ items' = [items EXCEPT ![l] = found]
          /\ IF ~LastPage(l)
             THEN UNCHANGED <<stage, pending, main>>
             ELSE pending' = [pending EXCEPT ![l] = found] /\ Notify(l)
    /\ UNCHANGED <<stored, uploading, images, gallery, history>>

\* An error: retrieveEventPhotos hands over nil and the gallery stays.
ListFails(l) ==
    /\ "list" \in MayFail /\ stage[l] = "list"
    /\ stage' = [stage EXCEPT ![l] = "ended"]
    /\ UNCHANGED <<stored, uploading, items, pending, images, main, gallery, history>>

\* getData answers, with an image or not. With the last answer the group
\* notifies the main queue.
Downloaded(l, p) ==
    /\ p \in pending[l]
    /\ pending' = [pending EXCEPT ![l] = @ \ {p}]
    /\ \/ images' = [images EXCEPT ![l] = @ \cup {p}]
       \/ (p \in Big \/ "download" \in MayFail) /\ UNCHANGED images
    /\ Notify(l)
    /\ UNCHANGED <<stored, uploading, items, gallery, history>>

\* The gallery is replaced.
Show ==
    /\ main # <<>> /\ main' = Tail(main)
    /\ gallery' = images[Head(main)]
    /\ stage' = [stage EXCEPT ![Head(main)] = "ended"]
    /\ shown' = Append(shown, Head(main))
    /\ UNCHANGED <<stored, uploading, items, pending, images, before, since>>

-----------------------------------------------------------------------------

LoadStep(l) == ListPage(l) \/ ListFails(l) \/ \E p \in Photo : Downloaded(l, p)

Next ==
    \/ LoadImages \/ Show
    \/ \E l \in Loads : LoadStep(l)
    \/ \E p \in Photo : UploadEventPhoto(p) \/ PutEnds(p)

Spec == Init /\ [][Next]_vars

\* Storage answers every request, and the main queue is served.
Fairness == /\ WF_vars(\E l \in Loads : LoadStep(l)) /\ WF_vars(Show)
            /\ WF_vars(\E p \in Photo : PutEnds(p))

FairSpec == Spec /\ Fairness

-----------------------------------------------------------------------------
(* Properties *)

\* However the uploads and the pages of the listing overlap: when downloads
\* succeed the gallery holds every photo (not too big) that was stored before
\* its load began, and nothing that is not stored.
GalleryIsWhole ==
    /\ gallery \subseteq stored
    /\ shown # <<>> => before[Last(shown)] \ Big \subseteq gallery

\* A photo (not too big) that was shown goes from the gallery only by a load
\* that had begun before that photo's load was shown: never by one pull after
\* the other.
NothingGoesBySuccession == gallery \ Big \subseteq gallery' \/ since[Last(shown')] < Len(shown)
PhotosGoOnlyByOverlap == [][NothingGoesBySuccession]_vars

\* Every load comes to an end, also when nothing is stored and when listings
\* and downloads fail: the group is left as often as it was entered.
LoadsEnd == \A l \in 1..MaxLoads : [](l \in Loads => <>(l \in Loads /\ stage[l] = "ended"))
=============================================================================
