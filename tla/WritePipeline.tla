---------------------------- MODULE WritePipeline ----------------------------
(***************************************************************************)
(* How the Firestore client of one installation gets writes to the         *)
(* backend: the queue of each user on disk, the pipeline of the current    *)
(* user's first writes, and the write stream that carries them, which      *)
(* waits for a token, opens, shakes hands, breaks, backs off, idles and is *)
(* torn down when Firebase's user changes.                                 *)
(*                                                                         *)
(* Four threads take part: FIRAuth's work queue (its user changes there    *)
(* and tokens are fetched there), the main queue (where both are           *)
(* announced), the client's worker queue, and the backend.                 *)
(***************************************************************************)
EXTENDS Naturals, FiniteSets, SequencesExt

CONSTANTS User,
          MaxPending,    \* kMaxPendingWrites
          MaxWrites,     \* bound: writes of each user
          MaxSwitches,   \* bound: changes of Firebase's user or its token
          MaxBreaks,     \* bound: streams that break
          MaxRestarts    \* bound: times the app starts again

ASSUME PipelineAssumption ==
    /\ MaxPending \in Nat \ {0}
    /\ {MaxWrites, MaxSwitches, MaxBreaks, MaxRestarts} \subseteq Nat

VARIABLES
    authUser,   \* FIRAuth's current user
    auth,       \* its work queue: requests for a token
    refreshing, \* tokens that are fetched from the network
    main,       \* the main queue: changes of user, and tokens
    counter,    \* FirebaseAuthCredentialsProvider's token_counter
    worker,     \* the worker queue: the same as they come to the client
    user,       \* SyncEngine's current_user_
    queue,      \* per user: writes on disk, by number
    pipeline,   \* RemoteStore's write_pipeline_
    stream,     \* the state of the write stream
    closes,     \* its close_count_
    token,      \* whose token its gRPC stream carries
    idle,       \* is its idle timer running?
    requests,   \* writes on their way to the backend
    responses,  \* answers on their way back, each with its write
    made,       \* per user: writes made
    taken, refused,   \* backend: writes of each user
    switches, breaks, restarts

firebase == <<authUser, refreshing, main, counter>>
credentials == <<firebase, auth, worker>>
wire == <<token, requests, responses>>
backend == <<taken, refused>>
bounds == <<switches, breaks, restarts>>
vars == <<credentials, user, queue, pipeline, stream, closes, idle, wire, made, backend, bounds>>

\* A request for a token remembers the close_count_ and the token_counter.
Ask == [close : Nat, counter : Nat]
Change == [kind : {"user"}, user : User]
Token == [kind : {"token"}, user : User, close : Nat, counter : Nat]

Numbers == 1..MaxWrites

TypeOK ==
    /\ {authUser, user, token} \subseteq User
    /\ auth \in Seq(Ask) /\ refreshing \subseteq Token
    /\ main \in Seq(Change \cup Token) /\ worker \in Seq(Change \cup Token)
    /\ counter \in 0..MaxSwitches /\ closes \in Nat
    /\ queue \in [User -> Seq(Numbers)] /\ pipeline \in Seq(Numbers) /\ Len(pipeline) <= MaxPending
    /\ stream \in {"off", "initial", "starting", "connecting", "open", "ready", "error", "backoff"}
    /\ idle \in BOOLEAN
    /\ requests \in Seq(Numbers)
    /\ responses \in Seq([write : Numbers, ok : BOOLEAN])
    /\ made \in [User -> 0..MaxWrites]
    /\ {taken, refused} \subseteq [User -> SUBSET Numbers]
    /\ switches \in 0..MaxSwitches /\ breaks \in 0..MaxBreaks /\ restarts \in 0..MaxRestarts

Init ==
    /\ authUser \in User /\ user = authUser /\ token = authUser
    /\ auth = <<>> /\ refreshing = {} /\ main = <<>> /\ worker = <<>> /\ counter = 0
    /\ queue = [u \in User |-> <<>>] /\ pipeline = <<>>
    /\ stream = "off" /\ closes = 0 /\ idle = FALSE
    /\ requests = <<>> /\ responses = <<>>
    /\ made = [u \in User |-> 0]
    /\ taken = [u \in User |-> {}] /\ refused = [u \in User |-> {}]
    /\ switches = 0 /\ breaks = 0 /\ restarts = 0

-----------------------------------------------------------------------------
(* The pipeline and the stream, as each task on the worker queue leaves them *)

IsOpen(s) == s \in {"open", "ready"}

\* Mutant: the limit is on the writes added at once, not on the pipeline.
RoomForMore(left) == MaxPending

\* CanAddToWritePipeline, as often as it holds.
Room(left) == MaxPending - Len(left)

\* Mutant: a write is sent on a stream that has not shaken hands.
SendsWhenOpen(s) == IsOpen(s)

\* AddToWritePipeline sends at once what the open stream can take.
Sends(s) == s = "ready"

\* Mutant: a stream that ended with an error is left alone.
ShouldStartFresh(s, writes) == s = "initial" /\ writes # <<>>

ShouldStart(s, writes) == s \in {"initial", "error"} /\ writes # <<>>

\* FillWritePipeline and StartWriteStream, on a stream in state s with what is
\* left of the pipeline and of the requests sent. What the disk, which keeps the
\* writes by number, holds after the last write is added as far as there is
\* room. A stream that is needed asks for a token, after an error it backs off
\* first; an empty pipeline starts the idle timer and a write stops it.
Fill(s, left, sent, timer) ==
    LET disk  == queue'[user']
        last  == IF left = <<>> THEN 0 ELSE Last(left)
        rest  == SubSeq(disk, 1 + Cardinality({i \in DOMAIN disk : disk[i] <= last}), Len(disk))
        added == IF Len(rest) > Room(left) THEN SubSeq(rest, 1, Room(left)) ELSE rest
        now   == left \o added
    IN /\ pipeline' = now
       /\ requests' = IF Sends(s) THEN sent \o added ELSE sent
       /\ idle' = IF added # <<>> /\ Sends(s) THEN FALSE ELSE timer \/ (now = <<>> /\ IsOpen(s))
       /\ stream' = IF ~ShouldStart(s, now) THEN s
                    ELSE IF s = "error" THEN "backoff" ELSE "starting"
       /\ auth' = IF stream' # "starting" \/ s = "starting" THEN auth
                  ELSE Append(auth, [close |-> closes', counter |-> counter])

\* WriteMutations.
Write ==
    /\ stream # "off" /\ made[user] < MaxWrites
    /\ made' = [made EXCEPT ![user] = @ + 1]
    /\ queue' = [queue EXCEPT ![user] = Append(@, made'[user])]
    /\ UNCHANGED <<firebase, worker, user, closes, token, responses, backend, bounds>>
    /\ Fill(stream, pipeline, requests, idle)

\* HandleSuccessfulWrite or HandleRejectedWrite of the pipeline's first write.
\* The batch is looked up by its number.
PopFirst ==
    LET i == CHOOSE i \in DOMAIN queue[user] : queue[user][i] = Head(pipeline)
    IN  queue' = [queue EXCEPT ![user] = RemoveAt(@, i)]

\* Mutant: the first write goes with whatever error the stream broke.
PermanentAlways(r) == TRUE

\* IsPermanentWriteError: a refusal, not a broken stream.
Permanent(r) == ~r.ok

\* OnWriteStreamMutationResult.
MutationResult ==
    /\ stream = "ready" /\ responses # <<>> /\ Head(responses).ok
    /\ responses' = Tail(responses)
    /\ PopFirst
    /\ UNCHANGED <<firebase, worker, user, closes, token, made, backend, bounds>>
    /\ Fill(stream, Tail(pipeline), requests, idle)

\* The stream ends with an error, and what is on the wire is lost. A refusal
\* costs the first write and restarts without backing off; after any other
\* error the pipeline is kept.
StreamCloses(r) ==
    /\ closes' = closes + 1 /\ responses' = <<>>
    /\ UNCHANGED <<firebase, user, token, made, backend, switches, restarts>>
    /\ IF Permanent(r) /\ stream = "ready" /\ pipeline # <<>>
       THEN PopFirst /\ Fill("initial", Tail(pipeline), <<>>, FALSE)
       ELSE UNCHANGED queue /\ Fill("error", pipeline, <<>>, FALSE)

Refused ==
    /\ stream = "ready" /\ responses # <<>> /\ ~Head(responses).ok
    /\ UNCHANGED <<worker, breaks>> /\ StreamCloses(Head(responses))

\* Any other end: the write it may carry is not to blame.
Broken == [write |-> 0, ok |-> TRUE]

StreamBreaks ==
    /\ stream \in {"connecting", "open", "ready"}
    /\ breaks < MaxBreaks /\ breaks' = breaks + 1
    /\ UNCHANGED worker /\ StreamCloses(Broken)

\* BackoffAndTryRestarting.
BackoffElapses ==
    /\ stream = "backoff" /\ stream' = "starting"
    /\ auth' = Append(auth, [close |-> closes, counter |-> counter])
    /\ UNCHANGED <<firebase, worker, user, queue, pipeline, closes, idle, wire, made,
                   backend, bounds>>

\* OnStreamStart, and the handshake that is written then.
StreamOpens ==
    /\ stream = "connecting" /\ stream' = "open" /\ idle' = FALSE
    /\ UNCHANGED <<credentials, user, queue, pipeline, closes, wire, made, backend,
                   bounds>>

\* OnWriteStreamHandshakeComplete: the pipeline is sent.
HandshakeComplete ==
    /\ stream = "open" /\ stream' = "ready"
    /\ requests' = requests \o pipeline /\ idle' = (idle /\ pipeline = <<>>)
    /\ UNCHANGED <<credentials, user, queue, pipeline, closes, token, responses, made,
                   backend, bounds>>

\* The idle timer: Stop.
IdleStop ==
    /\ idle /\ idle' = FALSE
    /\ stream' = "initial" /\ closes' = closes + 1
    /\ requests' = <<>> /\ responses' = <<>>
    /\ UNCHANGED <<credentials, user, queue, pipeline, token, made, backend, bounds>>

-----------------------------------------------------------------------------
(* Users and tokens *)

\* Firebase's user changes, or gets a new token.
AuthChanges(u) ==
    /\ switches < MaxSwitches /\ switches' = switches + 1
    /\ authUser' = u
    /\ main' = Append(main, [kind |-> "user", user |-> u])
    /\ UNCHANGED <<auth, refreshing, counter, worker, user, queue, pipeline, stream,
                   closes, idle, wire, made, backend, breaks, restarts>>

\* getTokenForcingRefresh: the token of whoever is the user by now, at once or
\* after a refresh.
TokenAsked ==
    /\ auth # <<>> /\ auth' = Tail(auth)
    /\ LET t == [kind |-> "token", user |-> authUser, close |-> Head(auth).close,
                 counter |-> Head(auth).counter]
       IN \/ main' = Append(main, t) /\ UNCHANGED refreshing
          \/ refreshing' = refreshing \cup {t} /\ UNCHANGED main
    /\ UNCHANGED <<authUser, counter, worker, user, queue, pipeline, stream, closes, idle,
                   wire, made, backend, bounds>>

TokenRefreshed ==
    /\ \E t \in refreshing : refreshing' = refreshing \ {t} /\ main' = Append(main, t)
    /\ UNCHANGED <<authUser, auth, counter, worker, user, queue, pipeline, stream, closes,
                   idle, wire, made, backend, bounds>>

\* No change was announced since the token was asked for.
SameCounter(t) == t.counter = counter

\* The main queue: a change is counted and passed on; a token that was asked
\* for before a change is asked for again.
Announced ==
    /\ main # <<>> /\ main' = Tail(main)
    /\ LET m == Head(main)
       IN \/ /\ m.kind = "user" /\ counter' = counter + 1
             /\ worker' = Append(worker, m) /\ UNCHANGED auth
          \/ /\ m.kind = "token" /\ SameCounter(m)
             /\ worker' = Append(worker, m) /\ UNCHANGED <<auth, counter>>
          \/ /\ m.kind = "token" /\ ~SameCounter(m)
             /\ auth' = Append(auth, [close |-> m.close, counter |-> counter])
             /\ UNCHANGED <<worker, counter>>
    /\ UNCHANGED <<authUser, refreshing, user, queue, pipeline, stream, closes, idle,
                   wire, made, backend, bounds>>

\* Mutant: the streams and the pipeline are kept.
StreamsKept ==
    stream # "off" /\ UNCHANGED <<closes, responses, pipeline, requests, idle, stream, auth>>

\* RestartNetwork: the streams are torn down and made anew, without backoff.
RestartNetwork ==
    /\ stream # "off"
    /\ closes' = IF stream = "initial" THEN closes ELSE closes + 1
    /\ responses' = <<>>
    /\ Fill("initial", <<>>, <<>>, FALSE)

\* HandleCredentialChange: the queue is now that of the new user.
CredentialChange ==
    /\ worker # <<>> /\ Head(worker).kind = "user" /\ worker' = Tail(worker)
    /\ user' = Head(worker).user
    /\ UNCHANGED <<firebase, queue, token, made, backend, bounds>>
    /\ RestartNetwork

\* The device gets another network.
ConnectivityChange ==
    /\ breaks < MaxBreaks /\ breaks' = breaks + 1
    /\ UNCHANGED <<firebase, worker, user, queue, token, made, backend, switches,
                   restarts>>
    /\ RestartNetwork

\* Mutant: a token is used though the stream was stopped meanwhile.
SameStreamIgnored(t) == stream = "starting"

SameStream(t) == t.close = closes

\* ResumeStartWithCredentials, unless the stream was stopped meanwhile.
TokenArrives ==
    /\ worker # <<>> /\ Head(worker).kind = "token" /\ worker' = Tail(worker)
    /\ \/ /\ SameStream(Head(worker))
          /\ stream' = "connecting" /\ token' = Head(worker).user
       \/ ~SameStream(Head(worker)) /\ UNCHANGED <<stream, token>>
    /\ UNCHANGED <<firebase, auth, user, queue, pipeline, closes, idle, requests,
                   responses, made, backend, bounds>>

\* The same when no token could be had.
TokenFails ==
    /\ worker # <<>> /\ Head(worker).kind = "token" /\ SameStream(Head(worker))
    /\ worker' = Tail(worker)
    /\ breaks < MaxBreaks /\ breaks' = breaks + 1
    /\ StreamCloses(Broken)

\* The app is killed: what is on disk is left.
Killed ==
    /\ restarts < MaxRestarts /\ restarts' = restarts + 1
    /\ stream # "off" /\ stream' = "off" /\ closes' = 0 /\ counter' = 0 /\ idle' = FALSE
    /\ main' = <<>> /\ worker' = <<>> /\ auth' = <<>> /\ refreshing' = {}
    /\ pipeline' = <<>> /\ requests' = <<>> /\ responses' = <<>>
    /\ UNCHANGED <<authUser, user, queue, token, made, backend, switches, breaks>>

\* The client is made, with Firebase's user: RemoteStore::Start.
Started ==
    /\ stream = "off" /\ user' = authUser
    /\ UNCHANGED <<firebase, worker, queue, closes, token, responses, made, backend,
                   bounds>>
    /\ Fill("initial", <<>>, <<>>, FALSE)

-----------------------------------------------------------------------------
(* The backend *)

\* It takes the next write, in the name of the token's user, or refuses it and
\* ends the stream.
Judge ==
    /\ requests # <<>>
    /\ \A i \in DOMAIN responses : responses[i].ok
    /\ requests' = Tail(requests)
    /\ \E ok \in BOOLEAN :
          /\ responses' = Append(responses, [write |-> Head(requests), ok |-> ok])
          /\ taken' = IF ok THEN [taken EXCEPT ![token] = @ \cup {Head(requests)}] ELSE taken
          /\ refused' = IF ok THEN refused ELSE [refused EXCEPT ![token] = @ \cup {Head(requests)}]
    /\ UNCHANGED <<credentials, user, queue, pipeline, stream, closes, idle, token, made,
                   bounds>>

-----------------------------------------------------------------------------

ClientStep ==
    \/ MutationResult \/ Refused \/ BackoffElapses \/ StreamOpens \/ HandshakeComplete
    \/ CredentialChange \/ TokenArrives \/ Started

Next ==
    \/ ClientStep \/ TokenAsked \/ TokenRefreshed \/ Announced \/ Judge
    \/ Write \/ StreamBreaks \/ ConnectivityChange \/ TokenFails \/ IdleStop \/ Killed
    \/ \E u \in User : AuthChanges(u)

Spec == Init /\ [][Next]_vars

\* Every queue is served, the backend answers, streams open and back off.
FairSpec == Spec /\ WF_vars(ClientStep) /\ WF_vars(TokenAsked) /\ WF_vars(TokenRefreshed)
                 /\ WF_vars(Announced) /\ WF_vars(Judge)

-----------------------------------------------------------------------------
(* Properties *)

\* Whatever breaks, restarts, and changes of user overlap: each user's writes
\* reach the backend in order and under that user's token only, and leave the
\* queue in order, once each, after the backend's verdict.
Queue == INSTANCE WriteQueue WITH settled <- [u \in User |-> made[u] - Len(queue[u])]
ImplementsWriteQueue == Queue!Spec

\* "Should be correlated to the first write in our write pipeline": what is
\* sent and answered on the stream is the pipeline, in order, and the pipeline
\* is the head of the current user's queue.
AnswersMatchPipeline ==
    /\ IsPrefix(pipeline, queue[user])
    /\ stream = "ready" =>
          [i \in DOMAIN responses |-> responses[i].write] \o requests = pipeline

\* The client's own assertions: the idle timer never stops a stream that is
\* needed, and a token that is used finds its stream still starting.
AssertionsHold ==
    /\ idle => pipeline = <<>> /\ IsOpen(stream)
    /\ \A i \in DOMAIN worker :
          worker[i].kind = "token" /\ worker[i].close = closes
             /\ (\A j \in 1..(i - 1) : worker[j].kind # "user") => stream = "starting"

\* A user who stays gets every write settled, made before the changes or after.
WritesSettle == \A u \in User : (<>[](authUser = u)) => <>[](queue[u] = <<>>)
=============================================================================
