------------------------ MODULE StorageDownloadProofs ------------------------
(***************************************************************************)
(* A download answers its caller at most once, and hands over nothing that *)
(* was reported to be too big: proved for any sizes, limit and retries.    *)
(***************************************************************************)
EXTENDS StorageDownload, SequenceTheorems, TLAPS

Elements(s) == {s[i] : i \in DOMAIN s}

LEMMA TailElements ==
    ASSUME NEW S, NEW s \in Seq(S), s # <<>>
    PROVE  Tail(s) \in Seq(S) /\ Elements(Tail(s)) \subseteq Elements(s) /\ Head(s) \in Elements(s)
<1>1. /\ Head(s) = s[1] /\ Tail(s) \in Seq(S) /\ Len(Tail(s)) = Len(s) - 1
      /\ \A i \in 1..Len(Tail(s)) : Tail(s)[i] = s[i + 1]
  BY HeadTailProperties
<1>2. DOMAIN s = 1..Len(s) /\ DOMAIN Tail(s) = 1..Len(Tail(s)) /\ Len(s) \in Nat \ {0}
  BY <1>1, LenProperties, EmptySeq
<1>3. QED BY <1>1, <1>2 DEF Elements

LEMMA ConcatElements ==
    ASSUME NEW S, NEW s \in Seq(S), NEW t \in Seq(S)
    PROVE  s \o t \in Seq(S) /\ Elements(s \o t) = Elements(s) \cup Elements(t)
<1>1. s \o t \in Seq(S) /\ Len(s \o t) = Len(s) + Len(t)
  BY ConcatProperties
<1>2. \A i \in 1..(Len(s) + Len(t)) :
         (s \o t)[i] = IF i <= Len(s) THEN s[i] ELSE t[i - Len(s)]
  BY ConcatProperties
<1>3. /\ DOMAIN s = 1..Len(s) /\ DOMAIN t = 1..Len(t) /\ Len(s) \in Nat /\ Len(t) \in Nat
      /\ DOMAIN (s \o t) = 1..(Len(s) + Len(t))
  BY <1>1, LenProperties
<1>4. Elements(s \o t) \subseteq Elements(s) \cup Elements(t)
  BY <1>2, <1>3 DEF Elements
<1>5. ASSUME NEW i \in DOMAIN s PROVE s[i] \in Elements(s \o t)
  BY <1>2, <1>3 DEF Elements
<1>6. ASSUME NEW i \in DOMAIN t PROVE t[i] \in Elements(s \o t)
  <2>1. i + Len(s) \in DOMAIN (s \o t) /\ (s \o t)[i + Len(s)] = t[i]
    BY <1>2, <1>3
  <2>2. QED BY <2>1 DEF Elements
<1>7. QED BY <1>1, <1>4, <1>5, <1>6 DEF Elements

LEMMA OneElement ==
    ASSUME NEW S, NEW e \in S
    PROVE  <<e>> \in Seq(S) /\ Elements(<<e>>) = {e}
<1>1. <<e>> \in Seq(S) /\ Len(<<e>>) = 1 /\ <<e>>[1] = e
  OBVIOUS
<1>2. DOMAIN <<e>> = {1}
  BY <1>1, LenProperties
<1>3. QED BY <1>1, <1>2 DEF Elements

LEMMA AppendElements ==
    ASSUME NEW S, NEW s \in Seq(S), NEW e \in S
    PROVE  Append(s, e) \in Seq(S) /\ Elements(Append(s, e)) = Elements(s) \cup {e}
<1> DEFINE t == <<e>>
<1>1. Append(s, e) = s \o t
  BY AppendIsConcat
<1>2. t \in Seq(S) /\ Elements(t) = {e}
  BY OneElement
<1> HIDE DEF t
<1>3. QED BY <1>1, <1>2, ConcatElements

-----------------------------------------------------------------------------
(* Types *)

LEMMA FiredType ==
    ASSUME NEW e \in Blocks
    PROVE  Fired(e) \in Seq(Blocks) /\ Elements(Fired(e)) \subseteq {e}
<1>1. <<>> \in Seq(Blocks) /\ Elements(<<>>) = {}
  BY DEF Elements
<1>2. QED BY <1>1, OneElement DEF Fired

LEMMA TypeInit == Init => TypeOK
<1> SUFFICES ASSUME Init PROVE TypeOK
  OBVIOUS
<1>1. size \in Nat /\ MaxRetries \in Nat
  BY DownloadAssumption DEF Init, DownloadAssumption
<1>2. worker \in Seq({"enqueue", "cancel"})
  BY OneElement DEF Init
<1>3. main \in Seq(Blocks) /\ answers \in Seq({"data", "error"})
  BY EmptySeq DEF Init
<1>4. {stopped, observed, retained, held} \subseteq BOOLEAN
  BY Zenon DEF Init
<1>5. QED BY <1>1, <1>2, <1>3, <1>4 DEF Init, TypeOK

LEMMA TypeSession == ASSUME TypeOK, SessionStep PROVE TypeOK'
<1>1. size \in Nat /\ MaxRetries \in Nat
  BY DownloadAssumption DEF TypeOK, DownloadAssumption
<1>2. main' \in Seq(Blocks)
  <2>1. main \in Seq(Blocks)
    BY DEF TypeOK
  <2>2. \A e \in Blocks : Append(main, e) \in Seq(Blocks)
    BY <2>1, AppendElements, Zenon
  <2>3. "received" \in Blocks /\ "done" \in Blocks /\ "failed" \in Blocks
    BY DEF Blocks
  <2>4. QED BY <2>1, <2>2, <2>3, Zenon DEF SessionStep, ReceiveData, Retry, Finish
<1>3. arrived' \in 0..size /\ retries' \in 0..MaxRetries /\ fetch' \in {"idle", "running", "over"}
  BY <1>1 DEF SessionStep, ReceiveData, Retry, Finish, TypeOK
<1>4. /\ UNCHANGED <<size, length, stopped, worker, observed, retained, held, answers>>
      /\ UNCHANGED progress
  BY DEF SessionStep, ReceiveData, Retry, Finish
<1>5. QED BY <1>2, <1>3, <1>4 DEF progress, TypeOK

LEMMA TypeTask == ASSUME TypeOK, Enqueue \/ Cancel PROVE TypeOK'
<1>1. worker' \in Seq({"enqueue", "cancel"})
  BY TailElements DEF Enqueue, Cancel, TypeOK
<1>2. main' \in Seq(Blocks)
  <2>1. Fired("failure") \in Seq(Blocks)
    BY FiredType DEF Blocks
  <2>2. main \in Seq(Blocks)
    BY DEF TypeOK
  <2>3. main \o Fired("failure") \in Seq(Blocks)
    BY <2>1, <2>2, ConcatElements, Zenon
  <2>4. QED BY <2>2, <2>3, Zenon DEF Enqueue, Cancel
<1>3. fetch' \in {"idle", "running", "over"} /\ {stopped, observed, retained, held}' \subseteq BOOLEAN
  BY DEF Enqueue, Cancel, TypeOK
<1>4. UNCHANGED <<size, length, retries, arrived, progress, answers>>
  BY DEF Enqueue, Cancel
<1>5. QED BY <1>1, <1>2, <1>3, <1>4 DEF progress, TypeOK

\* What a block of the main queue leaves on it.
LEMMA TypeBlock ==
    ASSUME TypeOK, main # <<>>
    PROVE  /\ Tail(main) \in Seq(Blocks) /\ Elements(Tail(main)) \subseteq Elements(main)
           /\ \A e \in Blocks :
                 /\ Append(Tail(main), e) \in Seq(Blocks)
                 /\ Elements(Append(Tail(main), e)) \subseteq Elements(main) \cup {e}
                 /\ Tail(main) \o Fired(e) \in Seq(Blocks)
                 /\ Elements(Tail(main) \o Fired(e)) \subseteq Elements(main) \cup {e}
<1>1. Tail(main) \in Seq(Blocks) /\ Elements(Tail(main)) \subseteq Elements(main)
  BY TailElements DEF TypeOK
<1> DEFINE rest == Tail(main)
<1> HIDE DEF rest
<1>2. \A e \in Blocks :
         /\ Append(rest, e) \in Seq(Blocks)
         /\ Elements(Append(rest, e)) \subseteq Elements(main) \cup {e}
  <2>1. rest \in Seq(Blocks) /\ Elements(rest) \subseteq Elements(main)
    BY <1>1 DEF rest
  <2>2. \A e \in Blocks :
           Append(rest, e) \in Seq(Blocks) /\ Elements(Append(rest, e)) = Elements(rest) \cup {e}
    BY <2>1, AppendElements, Zenon
  <2>3. QED BY <2>1, <2>2
<1>3. ASSUME NEW e \in Blocks
      PROVE  /\ rest \o Fired(e) \in Seq(Blocks)
             /\ Elements(rest \o Fired(e)) \subseteq Elements(main) \cup {e}
  <2>1. Fired(e) \in Seq(Blocks) /\ Elements(Fired(e)) \subseteq {e}
    BY FiredType
  <2>2. rest \in Seq(Blocks) /\ Elements(rest) \subseteq Elements(main)
    BY <1>1 DEF rest
  <2>3. /\ rest \o Fired(e) \in Seq(Blocks)
        /\ Elements(rest \o Fired(e)) = Elements(rest) \cup Elements(Fired(e))
    BY <2>1, <2>2, ConcatElements, Zenon
  <2>4. QED BY <2>1, <2>2, <2>3
<1>4. QED BY <1>1, <1>2, <1>3 DEF rest

\* The end of a fetch puts its observers on the main queue.
LEMMA TypeFetchEnds ==
    ASSUME TypeOK, NEW b, NEW e \in Blocks, FetchEnds(b, e)
    PROVE  /\ main' \in Seq(Blocks)
           /\ Elements(main') \subseteq Elements(main) \cup {"forget", "progress", e}
<1> DEFINE rest == Tail(main) \o Fired("progress")
           last == rest \o Fired(e)
           first == <<"forget">>
           all == first \o last
<1>1. main # <<>>
  BY DEF FetchEnds, Block
<1>2. rest \in Seq(Blocks) /\ Elements(rest) \subseteq Elements(main) \cup {"progress"}
  BY <1>1, TypeBlock DEF Blocks
<1> HIDE DEF rest
<1>3. Fired(e) \in Seq(Blocks) /\ Elements(Fired(e)) \subseteq {e}
  BY FiredType
<1>4. last \in Seq(Blocks) /\ Elements(last) \subseteq Elements(main) \cup {"progress", e}
  BY <1>2, <1>3, ConcatElements
<1> HIDE DEF last
<1>5. first \in Seq(Blocks) /\ Elements(first) = {"forget"}
  <2>1. "forget" \in Blocks
    BY DEF Blocks
  <2>2. QED BY <2>1, OneElement, Zenon
<1> HIDE DEF first
<1>6. all \in Seq(Blocks) /\ Elements(all) \subseteq Elements(main) \cup {"forget", "progress", e}
  <2>1. all \in Seq(Blocks) /\ Elements(all) = Elements(first) \cup Elements(last)
    BY <1>4, <1>5, ConcatElements, Zenon
  <2>2. QED BY <1>4, <1>5, <2>1
<1>7. main' = Tail(main) \/ main' = all
  <2>1. main' = Tail(main) \/ main' = <<"forget">> \o Tail(main) \o Fired("progress") \o Fired(e)
    BY Zenon DEF FetchEnds
  <2>2. Tail(main) \in Seq(Blocks) /\ Fired("progress") \in Seq(Blocks)
    BY <1>1, TypeBlock, FiredType DEF Blocks
  <2>3. (first \o Tail(main)) \o Fired("progress") = first \o rest
    BY <1>5, <2>2, ConcatAssociative DEF rest
  <2>4. (first \o rest) \o Fired(e) = first \o last
    BY <1>2, <1>3, <1>5, ConcatAssociative DEF last
  <2>5. QED BY <2>1, <2>3, <2>4 DEF first
<1>8. QED BY <1>1, <1>6, <1>7, TypeBlock

\* A block is taken off the main queue, and others are put on it.
LEMMA TypeMain ==
    ASSUME TypeOK, MainStep
    PROVE  /\ main # <<>> /\ Head(main) \in Elements(main) /\ main' \in Seq(Blocks)
           /\ Received => Elements(main') \subseteq Elements(main) \cup {"progress"}
           /\ OnEnd =>
                 Elements(main') \subseteq
                    Elements(main) \cup {IF Block("success") THEN Success ELSE "error"}
           /\ (Forget \/ OnProgress \/ Call) => Elements(main') \subseteq Elements(main)
<1>1. main # <<>> /\ main \in Seq(Blocks)
  BY DEF MainStep, Received, FetchEnds, Forget, OnProgress, OnEnd, Call, Block, TypeOK
<1>2. Head(main) \in Elements(main)
  BY <1>1, TailElements, Zenon
<1> DEFINE end == IF Block("success") THEN Success ELSE "error"
<1>3. /\ {"progress", "success", "failure", "data", "error"} \subseteq Blocks
      /\ end \in {"data", "error"}
  BY DEF Blocks, Success
<1> HIDE DEF end
<1>4. CASE Received
  <2>1. main' = Tail(main) \/ main' = Tail(main) \o Fired("progress")
    BY <1>4, Zenon DEF Received
  <2>2. main' \in Seq(Blocks) /\ Elements(main') \subseteq Elements(main) \cup {"progress"}
    BY <1>1, <1>3, <2>1, TypeBlock
  <2>3. ~OnEnd /\ ~(Forget \/ OnProgress \/ Call)
    BY <1>4 DEF Received, OnEnd, Forget, OnProgress, Call, Block
  <2>4. QED BY <1>1, <1>2, <2>2, <2>3, Zenon
<1>5. CASE FetchEnds("done", "success") \/ FetchEnds("failed", "failure")
  <2>1. main' \in Seq(Blocks)
    BY <1>3, <1>5, TypeFetchEnds
  <2>2. ~Received /\ ~OnEnd /\ ~(Forget \/ OnProgress \/ Call)
    BY <1>5 DEF FetchEnds, Received, OnEnd, Forget, OnProgress, Call, Block
  <2>3. QED BY <1>1, <1>2, <2>1, <2>2, Zenon
<1>6. CASE OnEnd
  <2>1. main' = Append(Tail(main), end)
    BY <1>6, Zenon DEF OnEnd, end
  <2>2. main' \in Seq(Blocks) /\ Elements(main') \subseteq Elements(main) \cup {end}
    BY <1>1, <1>3, <2>1, TypeBlock
  <2>3. ~Received /\ ~(Forget \/ OnProgress \/ Call)
    BY <1>6 DEF Received, OnEnd, Forget, OnProgress, Call, Block
  <2>4. QED BY <1>1, <1>2, <2>2, <2>3, Zenon DEF end
<1>7. CASE Forget \/ OnProgress \/ Call
  <2>1. main' = Tail(main)
    BY <1>7, Zenon DEF Forget, OnProgress, Call
  <2>2. main' \in Seq(Blocks) /\ Elements(main') \subseteq Elements(main)
    BY <1>1, <2>1, TypeBlock
  <2>3. ~Received /\ ~OnEnd
    BY <1>7 DEF Received, OnEnd, Forget, OnProgress, Call, Block
  <2>4. QED BY <1>1, <1>2, <2>2, <2>3, Zenon
<1>8. QED BY <1>4, <1>5, <1>6, <1>7 DEF MainStep

LEMMA TypeRest == ASSUME TypeOK, MainStep PROVE TypeOK'
<1>1. main' \in Seq(Blocks)
  BY TypeMain
<1>2. completed' \in 0..size /\ total' \in {0, size, Unknown}
  BY DEF MainStep, Received, FetchEnds, Forget, OnProgress, OnEnd, Call, Counted, progress, TypeOK
<1>3. worker' \in Seq({"enqueue", "cancel"})
  <2>1. worker \in Seq({"enqueue", "cancel"})
    BY DEF TypeOK
  <2>2. Append(worker, "cancel") \in Seq({"enqueue", "cancel"})
    BY <2>1, AppendElements
  <2>3. worker' = worker \/ worker' = Append(worker, "cancel")
    BY DEF MainStep, Received, FetchEnds, Forget, OnProgress, OnEnd, Call
  <2>4. QED BY <2>1, <2>2, <2>3
<1>4. answers' \in Seq({"data", "error"})
  <2>1. answers \in Seq({"data", "error"})
    BY DEF TypeOK
  <2>2. CASE answers' = answers
    BY <2>1, <2>2
  <2>3. CASE answers' = Append(answers, Head(main)) /\ (Block("data") \/ Block("error"))
    <3>1. Head(main) \in {"data", "error"}
      BY <2>3 DEF Block
    <3>2. QED BY <2>1, <2>3, <3>1, AppendElements
  <2>4. QED
    BY <2>2, <2>3, Zenon DEF MainStep, Received, FetchEnds, Forget, OnProgress, OnEnd, Call
<1>5. {stopped, observed, retained, held}' \subseteq BOOLEAN
  <2>1. UNCHANGED stopped
    BY Zenon DEF MainStep, Received, FetchEnds, Forget, OnProgress, OnEnd, Call, network
  <2>2. UNCHANGED observed \/ observed' = FALSE
    BY Zenon DEF MainStep, Received, FetchEnds, Forget, OnProgress, OnEnd, Call
  <2>3. UNCHANGED retained \/ retained' = FALSE
    BY Zenon DEF MainStep, Received, FetchEnds, Forget, OnProgress, OnEnd, Call
  <2>4. UNCHANGED held \/ held' = FALSE
    BY Zenon DEF MainStep, Received, FetchEnds, Forget, OnProgress, OnEnd, Call,
                 CompletionDropped
  <2>5. {stopped, observed, retained, held} \subseteq BOOLEAN
    BY Zenon DEF TypeOK
  <2>6. QED BY <2>1, <2>2, <2>3, <2>4, <2>5, Zenon
<1>6. UNCHANGED network
  BY DEF MainStep, Received, FetchEnds, Forget, OnProgress, OnEnd, Call
<1>7. QED BY <1>1, <1>2, <1>3, <1>4, <1>5, <1>6 DEF network, TypeOK

\* Every state of a download is of its types, however big the objects and the
\* limit are and however often the fetcher retries.
THEOREM DownloadTyped == Spec => []TypeOK
<1>1. TypeOK /\ [Next]_vars => TypeOK'
  <2> SUFFICES ASSUME TypeOK, [Next]_vars PROVE TypeOK'
    OBVIOUS
  <2>1. CASE UNCHANGED vars
    BY <2>1 DEF vars, network, progress, TypeOK
  <2>2. QED BY <2>1, TypeSession, TypeTask, TypeRest DEF Next
<1>2. QED BY <1>1, TypeInit, PTL DEF Spec

-----------------------------------------------------------------------------
(* The inductive invariant *)

\* As long as the completion is there it was not called.
NotCalledYet == held => answers = <<>>

\* The task is enqueued once, and before that nothing happens.
EnqueuedOnce ==
    /\ fetch = "idle" => worker = <<"enqueue">> /\ main = <<>>
    /\ fetch # "idle" => "enqueue" \notin Elements(worker)

\* Data comes of a fetch that is over, so no progress is counted after it.
DataIsLast ==
    fetch \in {"idle", "running"} =>
        /\ "done" \notin Elements(main) /\ "success" \notin Elements(main)
        /\ "data" \notin Elements(main) /\ "data" \notin Elements(answers)

\* What was reported to be too big is neither handed over nor about to be.
TooBigIsHeldBack ==
    total > MaxSize => "data" \notin Elements(main) /\ "data" \notin Elements(answers)

DownloadInv == NotCalledYet /\ EnqueuedOnce /\ DataIsLast /\ TooBigIsHeldBack

LEMMA InvInit == Init => DownloadInv
<1> SUFFICES ASSUME Init PROVE DownloadInv
  OBVIOUS
<1>1. Elements(<<>>) = {}
  BY DEF Elements
<1>2. main = <<>> /\ answers = <<>> /\ fetch = "idle" /\ worker = <<"enqueue">>
  BY DEF Init
<1>3. "data" \notin Elements(main) /\ "data" \notin Elements(answers)
      /\ "done" \notin Elements(main) /\ "success" \notin Elements(main)
  BY <1>1, <1>2
<1>4. QED
  BY <1>2, <1>3 DEF DownloadInv, NotCalledYet, EnqueuedOnce, DataIsLast, TooBigIsHeldBack

LEMMA InvSession == ASSUME TypeOK, DownloadInv, SessionStep PROVE DownloadInv'
<1>1. UNCHANGED <<held, answers, worker, total>>
  BY DEF SessionStep, ReceiveData, Retry, Finish, progress
<1>2. fetch = "running" /\ fetch' \in {"running", "over"}
  BY DEF SessionStep, ReceiveData, Retry, Finish
<1>3. \E e \in {"received", "done", "failed"} :
         /\ Elements(main') \subseteq Elements(main) \cup {e}
         /\ e = "done" => fetch' = "over"
  <2>1. main \in Seq(Blocks)
    BY DEF TypeOK
  <2>2. \A e \in Blocks : Elements(Append(main, e)) = Elements(main) \cup {e}
    BY <2>1, AppendElements, Zenon
  <2>3. {"received", "done", "failed"} \subseteq Blocks
    BY DEF Blocks
  <2>4. \/ UNCHANGED main
        \/ \E e \in {"received", "done", "failed"} :
              main' = Append(main, e) /\ (e = "done" => fetch' = "over")
    BY DEF SessionStep, ReceiveData, Retry, Finish
  <2>5. QED BY <2>2, <2>3, <2>4
<1>4. QED
  BY <1>1, <1>2, <1>3 DEF DownloadInv, NotCalledYet, EnqueuedOnce, DataIsLast, TooBigIsHeldBack

LEMMA InvTask == ASSUME TypeOK, DownloadInv, Enqueue \/ Cancel PROVE DownloadInv'
<1>1. worker \in Seq({"enqueue", "cancel"}) /\ worker # <<>> /\ worker' = Tail(worker)
  BY DEF Enqueue, Cancel, TypeOK
<1>2. Head(worker) \in Elements(worker) /\ Elements(worker') \subseteq Elements(worker)
  BY <1>1, TailElements
<1>3. UNCHANGED <<held, answers, total>>
  BY DEF Enqueue, Cancel, progress
<1>4. CASE Enqueue
  <2>1. fetch = "idle"
    BY <1>2, <1>4 DEF Enqueue, DownloadInv, EnqueuedOnce
  <2>2. worker = <<"enqueue">> /\ main = <<>>
    BY <2>1 DEF DownloadInv, EnqueuedOnce
  <2>3. "enqueue" \notin Elements(worker')
    BY <1>1, <2>2 DEF Elements
  <2>4. fetch' = "running" /\ UNCHANGED main
    BY <1>4 DEF Enqueue
  <2>5. QED
    BY <1>3, <2>1, <2>3, <2>4
    DEF DownloadInv, NotCalledYet, EnqueuedOnce, DataIsLast, TooBigIsHeldBack
<1>5. CASE Cancel
  <2>1. fetch' = "over" /\ main' = main \o Fired("failure")
    BY <1>5 DEF Cancel
  <2>2. fetch # "idle"
    <3>1. ASSUME fetch = "idle" PROVE FALSE
      BY <1>5, <3>1 DEF Cancel, DownloadInv, EnqueuedOnce
    <3>2. QED BY <3>1
  <2>3. Elements(main') \subseteq Elements(main) \cup {"failure"}
    <3>1. main \in Seq(Blocks) /\ Fired("failure") \in Seq(Blocks)
          /\ Elements(Fired("failure")) \subseteq {"failure"}
      BY FiredType DEF TypeOK, Blocks
    <3>2. Elements(main \o Fired("failure")) = Elements(main) \cup Elements(Fired("failure"))
      BY <3>1, ConcatElements, Zenon
    <3>3. QED BY <2>1, <3>1, <3>2
  <2>4. QED
    BY <1>2, <1>3, <2>1, <2>2, <2>3
    DEF DownloadInv, NotCalledYet, EnqueuedOnce, DataIsLast, TooBigIsHeldBack
<1>6. QED BY <1>4, <1>5

\* On the main queue: the fetch is under way, and nothing is enqueued.
LEMMA MainWhileFetching ==
    ASSUME TypeOK, DownloadInv, MainStep
    PROVE  fetch # "idle" /\ UNCHANGED fetch /\ "enqueue" \notin Elements(worker')
<1>1. fetch # "idle"
  BY TypeMain DEF DownloadInv, EnqueuedOnce
<1>2. worker \in Seq({"enqueue", "cancel"}) /\ "enqueue" \notin Elements(worker)
  BY <1>1 DEF DownloadInv, EnqueuedOnce, TypeOK
<1>3. Elements(Append(worker, "cancel")) = Elements(worker) \cup {"cancel"}
  BY <1>2, AppendElements
<1>4. worker' = worker \/ worker' = Append(worker, "cancel")
  BY DEF MainStep, Received, FetchEnds, Forget, OnProgress, OnEnd, Call
<1>5. UNCHANGED fetch
  BY DEF MainStep, Received, FetchEnds, Forget, OnProgress, OnEnd, Call, network
<1>6. "enqueue" \notin Elements(worker')
  <2>1. CASE worker' = worker
    BY <1>2, <2>1
  <2>2. CASE worker' = Append(worker, "cancel")
    <3>1. Elements(worker') = Elements(worker) \cup {"cancel"}
      BY <1>3, <2>2, Zenon
    <3>2. QED BY <1>2, <3>1
  <2>3. QED BY <1>4, <2>1, <2>2
<1>7. QED BY <1>1, <1>5, <1>6

LEMMA InvMain == ASSUME TypeOK, DownloadInv, MainStep PROVE DownloadInv'
<1>1. fetch # "idle" /\ fetch' = fetch /\ "enqueue" \notin Elements(worker')
  BY MainWhileFetching
<1>2. main # <<>> /\ Head(main) \in Elements(main)
  BY TypeMain
<1>3. NotCalledYet'
  <2>1. CASE Call
    BY <2>1, Zenon DEF Call, CompletionDropped, NotCalledYet
  <2>2. CASE ~Call
    <3>1. UNCHANGED held /\ UNCHANGED answers
      BY <2>2, Zenon DEF MainStep, Received, FetchEnds, Forget, OnProgress, OnEnd
    <3>2. QED BY <3>1, Zenon DEF DownloadInv, NotCalledYet
  <2>3. QED BY <2>1, <2>2
<1>4. CASE Received
  <2>1. Elements(main') \subseteq Elements(main) \cup {"progress"} /\ UNCHANGED answers
    BY <1>4, TypeMain DEF Received
  <2>2. fetch = "running" \/ UNCHANGED total
    BY <1>4 DEF Received, progress
  <2>3. QED
    BY <1>1, <1>3, <2>1, <2>2
    DEF DownloadInv, EnqueuedOnce, DataIsLast, TooBigIsHeldBack
<1>5. CASE FetchEnds("done", "success")
  <2>1. fetch = "over"
    <3>1. Head(main) = "done"
      BY <1>5 DEF FetchEnds, Block
    <3>2. fetch \notin {"idle", "running"}
      BY <1>2, <3>1 DEF DownloadInv, DataIsLast
    <3>3. QED BY <3>2 DEF TypeOK
  <2>2. Elements(main') \subseteq Elements(main) \cup {"forget", "progress", "success"}
    BY <1>5, TypeFetchEnds DEF Blocks
  <2>3. UNCHANGED <<answers, total>>
    BY <1>5 DEF FetchEnds, progress
  <2>4. QED
    BY <1>1, <1>3, <2>1, <2>2, <2>3
    DEF DownloadInv, EnqueuedOnce, DataIsLast, TooBigIsHeldBack
<1>6. CASE FetchEnds("failed", "failure")
  <2>1. Elements(main') \subseteq Elements(main) \cup {"forget", "progress", "failure"}
    BY <1>6, TypeFetchEnds DEF Blocks
  <2>2. UNCHANGED <<answers, total>>
    BY <1>6 DEF FetchEnds, progress
  <2>3. QED
    BY <1>1, <1>3, <2>1, <2>2
    DEF DownloadInv, EnqueuedOnce, DataIsLast, TooBigIsHeldBack
<1>7. CASE OnEnd
  <2> DEFINE end == IF Block("success") THEN Success ELSE "error"
  <2>1. Elements(main') \subseteq Elements(main) \cup {end} /\ UNCHANGED <<answers, total>>
    BY <1>7, TypeMain DEF OnEnd, progress
  <2>2. end = "data" => fetch \notin {"idle", "running"}
    BY <1>2 DEF Block, DownloadInv, DataIsLast
  <2>3. end \in {"data", "error"} /\ (end = "data" => ~(total > MaxSize))
    BY DEF Success, Overflow
  <2> HIDE DEF end
  <2>4. QED
    BY <1>1, <1>3, <2>1, <2>2, <2>3
    DEF DownloadInv, EnqueuedOnce, DataIsLast, TooBigIsHeldBack
<1>8. CASE Forget \/ OnProgress
  <2>1. Elements(main') \subseteq Elements(main) /\ UNCHANGED <<answers, total>>
    BY <1>8, TypeMain DEF Forget, OnProgress, progress
  <2>2. QED
    BY <1>1, <1>3, <2>1
    DEF DownloadInv, EnqueuedOnce, DataIsLast, TooBigIsHeldBack
<1>9. CASE Call
  <2>1. Elements(main') \subseteq Elements(main) /\ UNCHANGED total
    BY <1>9, TypeMain DEF Call, progress
  <2>2. Elements(answers') \subseteq Elements(answers) \cup Elements(main)
    <3>1. answers \in Seq({"data", "error"}) /\ Head(main) \in {"data", "error"}
      BY <1>9 DEF Call, Block, TypeOK
    <3>2. Elements(Append(answers, Head(main))) = Elements(answers) \cup {Head(main)}
      BY <3>1, AppendElements
    <3>3. answers' = Append(answers, Head(main)) \/ UNCHANGED answers
      BY <1>9 DEF Call
    <3>4. QED BY <1>2, <3>2, <3>3
  <2>3. QED
    BY <1>1, <1>3, <2>1, <2>2
    DEF DownloadInv, EnqueuedOnce, DataIsLast, TooBigIsHeldBack
<1>10. QED BY <1>4, <1>5, <1>6, <1>7, <1>8, <1>9 DEF MainStep

LEMMA DownloadInductive == Spec => [](TypeOK /\ DownloadInv)
<1>1. TypeOK /\ DownloadInv /\ [Next]_vars => (TypeOK /\ DownloadInv)'
  <2> SUFFICES ASSUME TypeOK, DownloadInv, [Next]_vars PROVE TypeOK' /\ DownloadInv'
    OBVIOUS
  <2>1. CASE UNCHANGED vars
    BY <2>1 DEF vars, network, progress, TypeOK, DownloadInv, NotCalledYet, EnqueuedOnce,
                DataIsLast, TooBigIsHeldBack
  <2>2. CASE Next
    BY <2>2, TypeSession, TypeTask, TypeRest, InvSession, InvTask, InvMain DEF Next
  <2>3. QED BY <2>1, <2>2
<1>2. QED BY <1>1, TypeInit, InvInit, PTL DEF Spec

-----------------------------------------------------------------------------
(* What the caller may rely on *)

\* No object that was reported to be over maxSize reaches the caller.
THEOREM TooBigIsNotDelivered == Spec => []ReportedIsNotDelivered
<1>1. DownloadInv => ReportedIsNotDelivered
  BY Zenon DEF DownloadInv, TooBigIsHeldBack, ReportedIsNotDelivered, Elements
<1>2. QED BY <1>1, DownloadInductive, PTL

\* Whatever the queues do, the completion is called once at most: the safety
\* part of the promise that retrieveEventPhotos builds its DispatchGroup on.
THEOREM AnsweredAtMostOnce == Spec => Caller!Init /\ [][Caller!Complete]_answers
<1>1. Init => Caller!Init
  BY DEF Init, Caller!Init
<1>2. TypeOK /\ DownloadInv /\ [Next]_vars => [Caller!Complete]_answers
  <2> SUFFICES ASSUME TypeOK, DownloadInv, [Next]_vars PROVE [Caller!Complete]_answers
    OBVIOUS
  <2>1. CASE Call
    <3>1. CASE held
      <4>1. answers = <<>> /\ Head(main) \in {"data", "error"}
        BY <2>1, <3>1 DEF Call, Block, DownloadInv, NotCalledYet
      <4>2. answers' = Append(<<>>, Head(main))
        BY <2>1, <3>1, <4>1, Zenon DEF Call
      <4>3. answers' = <<Head(main)>>
        BY <4>2
      <4>4. QED BY <4>1, <4>3 DEF Caller!Complete
    <3>2. CASE ~held
      BY <2>1, <3>2, Zenon DEF Call
    <3>3. QED BY <3>1, <3>2
  <2>2. CASE ~Call
    BY <2>2 DEF Next, SessionStep, ReceiveData, Retry, Finish, Enqueue, Cancel, MainStep,
                Received, FetchEnds, Forget, OnProgress, OnEnd, vars
  <2>3. QED BY <2>1, <2>2
<1>3. QED BY <1>1, <1>2, DownloadInductive, PTL DEF Spec
=============================================================================
