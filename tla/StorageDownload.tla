--------------------------- MODULE StorageDownload ---------------------------
(***************************************************************************)
(* One StorageReference.getData(maxSize:) of Firebase Storage, as it runs  *)
(* on three queues: the URL session's, where GTMSessionFetcher receives    *)
(* the object; the task's dispatch queue, which starts and cancels the     *)
(* fetch; and the main queue, where the fetcher's callbacks, the task's    *)
(* observers and the caller's completion run.                              *)
(*                                                                         *)
(* An object over maxSize is noticed by the progress observer, which       *)
(* cancels the task from another queue than the one the fetch ends on.     *)
(***************************************************************************)
EXTENDS Integers, Sequences

CONSTANTS MaxSize,     \* getData's maxSize, in chunks
          Size,        \* the sizes an object may have
          MaxRetries   \* bound: errors the fetcher retries

ASSUME DownloadAssumption == MaxSize \in Nat /\ Size \subseteq Nat /\ MaxRetries \in Nat

VARIABLES
    size,       \* of the object
    length,     \* the response's expectedContentLength, or Unknown
    retries,
    fetch,      \* "idle", "running", or "over": its callbacks are released
    arrived,    \* chunks in _downloadedData
    stopped,    \* _userStoppedFetching
    completed, total,   \* task.progress
    worker,     \* the task's dispatch queue
    main,       \* the main queue
    observed,   \* has the task its observers?
    retained,   \* fetcherCompletion, which holds the task
    held,       \* completionData, which holds the caller's completion
    answers     \* what the completion was called with

progress == <<completed, total>>
network == <<size, length, retries, fetch, arrived, stopped>>
vars == <<network, progress, worker, main, observed, retained, held, answers>>

Unknown == -1

\* What the main queue has to run.
Blocks == {"received", "failed", "done", "forget", "progress", "success", "failure", "data",
           "error"}

TypeOK ==
    /\ size \in Size /\ length \in {size, Unknown}
    /\ retries \in 0..MaxRetries
    /\ fetch \in {"idle", "running", "over"}
    /\ arrived \in 0..size /\ completed \in 0..size /\ total \in {0, size, Unknown}
    /\ worker \in Seq({"enqueue", "cancel"})
    /\ main \in Seq(Blocks)
    /\ {stopped, observed, retained, held} \subseteq BOOLEAN
    /\ answers \in Seq({"data", "error"})

\* getData has set its three observers and enqueued the task.
Init ==
    /\ size \in Size /\ length \in {size, Unknown}
    /\ retries = 0 /\ fetch = "idle" /\ arrived = 0 /\ stopped = FALSE
    /\ completed = 0 /\ total = 0
    /\ worker = <<"enqueue">> /\ main = <<>>
    /\ observed = TRUE /\ retained = FALSE /\ held = TRUE
    /\ answers = <<>>

\* fire(for:): the observers of an event are dispatched to the main queue.
Fired(event) == IF observed THEN <<event>> ELSE <<>>

-----------------------------------------------------------------------------
(* The URL session's queue *)

ReceiveData ==
    /\ fetch = "running" /\ arrived < size
    /\ arrived' = arrived + 1
    /\ main' = Append(main, "received")
    /\ UNCHANGED <<size, length, retries, fetch, stopped, progress, worker, observed, retained,
                   held, answers>>

\* An error it retries: the data starts anew.
Retry ==
    /\ fetch = "running" /\ retries < MaxRetries
    /\ retries' = retries + 1 /\ arrived' = 0
    /\ UNCHANGED <<size, length, fetch, stopped, progress, worker, main, observed, retained, held,
                   answers>>

\* finishWithError: the callbacks are released, the completion handler is
\* dispatched.
Finish ==
    /\ fetch = "running" /\ fetch' = "over"
    /\ \/ arrived = size /\ main' = Append(main, "done")
       \/ main' = Append(main, "failed")
    /\ UNCHANGED <<size, length, retries, arrived, stopped, progress, worker, observed, retained,
                   held, answers>>

-----------------------------------------------------------------------------
(* The task's dispatch queue *)

Enqueue ==
    /\ worker # <<>> /\ Head(worker) = "enqueue" /\ worker' = Tail(worker)
    /\ fetch' = "running" /\ retained' = TRUE
    /\ UNCHANGED <<size, length, retries, arrived, stopped, progress, main, observed, held, answers>>

\* cancel(withError:). The stopped fetcher calls nobody any more.
Cancel ==
    /\ worker # <<>> /\ Head(worker) = "cancel" /\ worker' = Tail(worker)
    /\ stopped' = TRUE /\ fetch' = "over"
    /\ main' = main \o Fired("failure")
    /\ UNCHANGED <<size, length, retries, arrived, progress, observed, retained, held, answers>>

-----------------------------------------------------------------------------
(* The main queue *)

Block(b) == main # <<>> /\ Head(main) = b

\* Mutant: the chunks so far are added to those counted before.
CountedTwice == completed' = completed + arrived /\ total' = length

Counted == completed' = arrived /\ total' = length

\* receivedProgressBlock; it is gone when the fetch is over.
Received ==
    /\ Block("received")
    /\ IF fetch = "running"
       THEN /\ Counted
            /\ main' = Tail(main) \o Fired("progress")
       ELSE main' = Tail(main) /\ UNCHANGED progress
    /\ UNCHANGED <<network, worker, observed, retained, held, answers>>

\* fetcherCompletion: it fires, and then it forgets its observers and itself.
FetchEnds(b, event) ==
    /\ Block(b)
    /\ main' = IF stopped THEN Tail(main)
               ELSE <<"forget">> \o Tail(main) \o Fired("progress") \o Fired(event)
    /\ UNCHANGED <<network, progress, worker, observed, retained, held, answers>>

\* Still the same block, after what another queue may have done meanwhile.
Forget ==
    /\ Block("forget") /\ main' = Tail(main)
    /\ observed' = FALSE /\ retained' = FALSE
    /\ UNCHANGED <<network, progress, worker, held, answers>>

\* checkSizeOverflow, of what has been reported.
Overflow == total > MaxSize \/ completed > MaxSize

OnProgress ==
    /\ Block("progress") /\ main' = Tail(main)
    /\ worker' = IF Overflow THEN Append(worker, "cancel") ELSE worker
    /\ UNCHANGED <<network, progress, observed, retained, held, answers>>

\* Mutant: what was received is handed over whatever its size.
SuccessUnchecked == "data"

Success == IF Overflow THEN "error" ELSE "data"

OnEnd ==
    /\ Block("success") \/ Block("failure")
    /\ main' = Append(Tail(main), IF Block("success") THEN Success ELSE "error")
    /\ UNCHANGED <<network, progress, worker, observed, retained, held, answers>>

\* Mutant: the completion is kept after its call.
CompletionKept == UNCHANGED held

CompletionDropped == held' = FALSE

\* The completion is called, if it still is there.
Call ==
    /\ Block("data") \/ Block("error")
    /\ main' = Tail(main)
    /\ answers' = IF held THEN Append(answers, Head(main)) ELSE answers
    /\ CompletionDropped
    /\ UNCHANGED <<network, progress, worker, observed, retained>>

-----------------------------------------------------------------------------

MainStep ==
    \/ Received \/ FetchEnds("done", "success") \/ FetchEnds("failed", "failure")
    \/ Forget \/ OnProgress \/ OnEnd \/ Call

SessionStep == ReceiveData \/ Retry \/ Finish

Next == SessionStep \/ Enqueue \/ Cancel \/ MainStep

\* The queues are served, and a transfer comes to an end (by its timeouts if
\* not by its last byte).
Fairness == WF_vars(SessionStep) /\ WF_vars(Enqueue \/ Cancel) /\ WF_vars(MainStep)

Spec == Init /\ [][Next]_vars /\ Fairness

-----------------------------------------------------------------------------
(* Properties *)

\* What the caller relies on: retrieveEventPhotos leaves its DispatchGroup once
\* per photo.
Caller == INSTANCE OneAnswer WITH Answer <- {"data", "error"}, answers <- answers

\* An object whose length the response states is not handed over if a progress
\* report came before the fetch was over and it is longer than maxSize.
ReportedIsNotDelivered == (total > MaxSize) => "data" \notin {answers[i] : i \in DOMAIN answers}
=============================================================================
