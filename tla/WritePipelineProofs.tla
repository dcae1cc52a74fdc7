-------------------------- MODULE WritePipelineProofs --------------------------
(***************************************************************************)
(* What TLAPS proves of the write pipeline: for any users, any length of   *)
(* the pipeline and any number of writes, breaks, changes of user and      *)
(* restarts, answers meet the writes they are about, a token is used for   *)
(* the stream and the user it was fetched for, and the client implements   *)
(* the write queue the rest of the app relies on.                          *)
(***************************************************************************)
EXTENDS WritePipeline, SequenceFacts

(***************************************************************************)
(* The inductive invariant                                                 *)
(***************************************************************************)

\* Writes leave a queue from the front, so it holds the last ones made.
QueueShape ==
    \A u \in User :
        /\ Len(queue[u]) <= made[u]
        /\ \A i \in DOMAIN queue[u] : queue[u][i] = (made[u] - Len(queue[u])) + i

\* The pipeline is the head of the current user's queue.
PipelineShape ==
    /\ Len(pipeline) <= Len(queue[user])
    /\ \A i \in DOMAIN pipeline : pipeline[i] = queue[user][i]

\* Once the stream is ready, what is on the wire is the pipeline, answers
\* first. Nothing is on the wire of a stream that is not.
OnTheWire(s, writes, answers, sent) ==
    IF s = "ready"
    THEN /\ Len(writes) = Len(answers) + Len(sent)
         /\ \A i \in DOMAIN answers : answers[i].write = writes[i]
         /\ \A i \in DOMAIN sent : sent[i] = writes[Len(answers) + i]
    ELSE answers = <<>> /\ sent = <<>>

WireShape == OnTheWire(stream, pipeline, responses, requests)

\* A stream is not asked for without a write to send, and an idle one is ready.
Needed(s, writes, timer) ==
    /\ s \in {"starting", "connecting", "open", "backoff"} => writes # <<>>
    /\ s = "off" => writes = <<>>
    /\ timer => writes = <<>> /\ s = "ready"

StreamShape == Needed(stream, pipeline, idle)

\* Only a token of the current user is on a stream.
TokenRight == stream \in {"connecting", "open", "ready"} => token = user

\* What was answered was taken or refused, in the name of the token's user.
Answered ==
    \A i \in DOMAIN responses :
        responses[i].write \in (IF responses[i].ok THEN taken[token] ELSE refused[token])

-----------------------------------------------------------------------------
(* Requests for a token, and tokens on their way *)

In(s, C) == \E i \in DOMAIN s : s[i] \in C
Once(s, C) == \A i, j \in DOMAIN s : s[i] \in C /\ s[j] \in C => i = j

\* Those for the stream that was closed c times before.
AsksOf(c) == {a \in Ask : a.close = c}
TokensOf(c) == {t \in Token : t.close = c}

AskedSoFar == [close : 0..closes, counter : 0..counter]
TokensSoFar == [kind : {"token"}, user : User, close : 0..closes, counter : 0..counter]

\* None is of a later stream, or counts changes that are still to come.
NoneFromLater ==
    /\ auth \in Seq(AskedSoFar) /\ refreshing \subseteq TokensSoFar
    /\ main \in Seq(Change \cup TokensSoFar) /\ worker \in Seq(Change \cup TokensSoFar)

\* The changes of user that the main queue is still to count.
Changes(s) == {i \in DOMAIN s : s[i] \in Change}
ChangesCounted == counter + Cardinality(Changes(main)) <= switches

\* Of all that is under way, at most one is for a stream closed c times before ...
Alone(asked, fetched, announced, tasks, c) ==
    /\ Once(asked, AsksOf(c)) /\ Once(announced, TokensOf(c)) /\ Once(tasks, TokensOf(c))
    /\ \A t, v \in fetched \cap TokensOf(c) : t = v
    /\ In(asked, AsksOf(c)) =>
          ~In(announced, TokensOf(c)) /\ ~In(tasks, TokensOf(c)) /\ fetched \cap TokensOf(c) = {}
    /\ In(announced, TokensOf(c)) => ~In(tasks, TokensOf(c)) /\ fetched \cap TokensOf(c) = {}
    /\ In(tasks, TokensOf(c)) => fetched \cap TokensOf(c) = {}

Waiting(asked, fetched, announced, tasks, c) ==
    \/ In(asked, AsksOf(c)) \/ In(announced, TokensOf(c)) \/ In(tasks, TokensOf(c))
    \/ fetched \cap TokensOf(c) # {}

\* ... and the current stream waits for it.
OneRequest ==
    /\ Alone(auth, refreshing, main, worker, closes)
    /\ Waiting(auth, refreshing, main, worker, closes) => stream = "starting"
    /\ stream = "off" =>
          auth = <<>> /\ refreshing = {} /\ ~In(main, Token) /\ ~In(worker, Token)

\* The changes of user before position i of s leave user v to be user u.
Leaves(s, i, v, u) ==
    \/ \E j \in DOMAIN s :
          /\ j < i /\ s[j] \in Change /\ s[j].user = u
          /\ \A k \in DOMAIN s : j < k /\ k < i => s[k] \notin Change
    \/ u = v /\ \A k \in DOMAIN s : k < i => s[k] \notin Change

\* The user that the client has, or that its queue is about to give it.
Announces(u) == Leaves(worker, Len(worker) + 1, IF stream = "off" THEN authUser ELSE user, u)

\* FIRAuth's user is the last one that was or will be announced.
AuthAhead == \E u \in User : Announces(u) /\ Leaves(main, Len(main) + 1, u, authUser)

\* A token that no change has overtaken is of the user announced last ...
FreshTokens ==
    /\ \A t \in refreshing : t.counter = counter /\ ~In(main, Change) => Announces(t.user)
    /\ \A i \in DOMAIN main :
          /\ main[i] \in Token /\ main[i].counter = counter
          /\ \A j \in DOMAIN main : j < i => main[j] \notin Change
          => Announces(main[i].user)

\* ... so the one that comes to the client is of the user it has by then.
WorkerTokens ==
    \A i \in DOMAIN worker : worker[i] \in Token => Leaves(worker, i, user, worker[i].user)

Streams == {"initial", "starting", "connecting", "open", "ready", "error", "backoff"}
Answer == [write : Numbers, ok : BOOLEAN]

WritesTyped ==
    /\ user \in User /\ token \in User
    /\ queue \in [User -> Seq(Numbers)] /\ made \in [User -> 0..MaxWrites]
    /\ pipeline \in Seq(Numbers) /\ Len(pipeline) <= MaxPending
    /\ stream \in Streams \cup {"off"} /\ idle \in BOOLEAN
    /\ requests \in Seq(Numbers) /\ responses \in Seq(Answer)
    /\ taken \in [User -> SUBSET Numbers] /\ refused \in [User -> SUBSET Numbers]
    /\ breaks \in 0..MaxBreaks /\ restarts \in 0..MaxRestarts

TokensTyped ==
    /\ authUser \in User /\ counter \in Nat /\ closes \in Nat
    /\ switches \in 0..MaxSwitches

WritesInv ==
    /\ WritesTyped /\ QueueShape /\ PipelineShape /\ WireShape /\ StreamShape
    /\ TokenRight /\ Answered

TokensInv ==
    /\ TokensTyped /\ NoneFromLater /\ ChangesCounted /\ OneRequest
    /\ AuthAhead /\ FreshTokens /\ WorkerTokens

PipelineInv == WritesInv /\ TokensInv

-----------------------------------------------------------------------------
(* Queues of tasks: what Append and Tail leave of them *)

LEMMA InAppend ==
    ASSUME NEW S, NEW C, NEW s \in Seq(S), NEW x \in S
    PROVE  /\ In(Append(s, x), C) <=> In(s, C) \/ x \in C
           /\ Once(s, C) /\ ~(In(s, C) /\ x \in C) => Once(Append(s, x), C)
<1> DEFINE n == Len(s)
           t == Append(s, x)
<1>1. n \in Nat /\ DOMAIN s = 1..n /\ DOMAIN t = 1..(n + 1)
  BY SeqAt, AppendAt
<1>2. t[n + 1] = x /\ \A i \in 1..n : t[i] = s[i]
  BY AppendAt
<1> HIDE DEF n, t
<1>3. In(t, C) <=> In(s, C) \/ x \in C
  BY <1>1, <1>2 DEF In
<1>4. ASSUME Once(s, C), ~(In(s, C) /\ x \in C)
      PROVE  Once(t, C)
  BY <1>1, <1>2, <1>4 DEF In, Once
<1>5. QED BY <1>3, <1>4 DEF t

LEMMA InTail ==
    ASSUME NEW S, NEW C, NEW s \in Seq(S), s # <<>>
    PROVE  /\ In(Tail(s), C) => In(s, C)
           /\ Head(s) \in C => In(s, C)
           /\ Once(s, C) => Once(Tail(s), C)
           /\ Once(s, C) /\ Head(s) \in C => ~In(Tail(s), C)
<1> DEFINE n == Len(s)
           t == Tail(s)
<1>1. n \in Nat /\ n - 1 \in Nat /\ DOMAIN s = 1..n /\ DOMAIN t = 1..(n - 1) /\ 1 \in DOMAIN s
  BY SeqAt, TailAt
<1>2. Head(s) = s[1] /\ \A i \in 1..(n - 1) : t[i] = s[i + 1] /\ i + 1 \in DOMAIN s
  BY TailAt
<1> HIDE DEF n, t
<1>3. In(t, C) => In(s, C)
  BY <1>1, <1>2 DEF In
<1>4. Head(s) \in C => In(s, C)
  BY <1>1, <1>2 DEF In
<1>5. Once(s, C) => Once(t, C)
  BY <1>1, <1>2 DEF Once
<1>6. Once(s, C) /\ Head(s) \in C => ~In(t, C)
  BY <1>1, <1>2 DEF In, Once
<1>7. QED BY <1>3, <1>4, <1>5, <1>6 DEF t

LEMMA LeavesAppend ==
    ASSUME NEW S, NEW s \in Seq(S), NEW x \in S, NEW v, NEW u
    PROVE  /\ \A i \in 1..(Len(s) + 1) : Leaves(Append(s, x), i, v, u) <=> Leaves(s, i, v, u)
           /\ x \notin Change => Leaves(Append(s, x), Len(s) + 2, v, u) = Leaves(s, Len(s) + 1, v, u)
           /\ x \in Change /\ x.user = u => Leaves(Append(s, x), Len(s) + 2, v, u)
<1> DEFINE n == Len(s)
           t == Append(s, x)
<1>1. n \in Nat /\ DOMAIN s = 1..n /\ DOMAIN t = 1..(n + 1)
  BY SeqAt, AppendAt
<1>2. t[n + 1] = x /\ \A i \in 1..n : t[i] = s[i]
  BY AppendAt
<1> HIDE DEF n, t
<1>3. \A i \in 1..(n + 1) : Leaves(t, i, v, u) <=> Leaves(s, i, v, u)
  BY <1>1, <1>2 DEF Leaves
<1>4. x \notin Change => (Leaves(t, n + 2, v, u) <=> Leaves(s, n + 1, v, u))
  BY <1>1, <1>2 DEF Leaves
<1>5. x \in Change /\ x.user = u => Leaves(t, n + 2, v, u)
  BY <1>1, <1>2 DEF Leaves
<1>6. Leaves(t, n + 2, v, u) \in BOOLEAN /\ Leaves(s, n + 1, v, u) \in BOOLEAN
  BY DEF Leaves
<1>7. QED BY <1>3, <1>4, <1>5, <1>6 DEF n, t

LEMMA LeavesTail ==
    ASSUME NEW S, NEW s \in Seq(S), s # <<>>, NEW v, NEW u, NEW w,
           w = IF Head(s) \in Change THEN Head(s).user ELSE v
    PROVE  \A i \in 1..Len(s) : Leaves(s, i + 1, v, u) => Leaves(Tail(s), i, w, u)
<1> DEFINE n == Len(s)
           t == Tail(s)
<1>1. n \in Nat /\ n - 1 \in Nat /\ DOMAIN s = 1..n /\ DOMAIN t = 1..(n - 1) /\ 1 \in DOMAIN s
  BY SeqAt, TailAt
<1>2. Head(s) = s[1] /\ \A i \in 1..(n - 1) : t[i] = s[i + 1] /\ i + 1 \in DOMAIN s
  BY TailAt
<1> HIDE DEF n, t
<1>3. SUFFICES ASSUME NEW i \in 1..n, Leaves(s, i + 1, v, u)
               PROVE  Leaves(t, i, w, u)
  BY DEF n, t
<1>4. CASE u = v /\ \A k \in DOMAIN s : k < i + 1 => s[k] \notin Change
  <2>1. Head(s) \notin Change
    BY <1>1, <1>2, <1>4
  <2>2. \A k \in DOMAIN t : k < i => t[k] \notin Change
    BY <1>1, <1>2, <1>4
  <2>3. QED BY <2>1, <2>2, <1>4 DEF Leaves
<1>5. ASSUME NEW j \in DOMAIN s, j < i + 1, s[j] \in Change, s[j].user = u,
             \A k \in DOMAIN s : j < k /\ k < i + 1 => s[k] \notin Change
      PROVE  Leaves(t, i, w, u)
  <2>1. CASE j = 1
    <3>1. \A k \in DOMAIN t : k < i => t[k] \notin Change
      BY <1>1, <1>2, <1>5, <2>1
    <3>2. QED BY <1>2, <1>5, <2>1, <3>1 DEF Leaves
  <2>2. CASE j # 1
    <3>1. j - 1 \in DOMAIN t /\ j - 1 < i /\ t[j - 1] = s[j]
      BY <1>1, <1>2, <1>5, <2>2
    <3>2. \A k \in DOMAIN t : j - 1 < k /\ k < i => t[k] \notin Change
      <4>1. SUFFICES ASSUME NEW k \in DOMAIN t, j - 1 < k, k < i
                     PROVE  t[k] \notin Change
        OBVIOUS
      <4>2. t[k] = s[k + 1] /\ k + 1 \in DOMAIN s /\ j < k + 1 /\ k + 1 < i + 1
        BY <1>1, <1>2, <4>1
      <4>3. QED BY <1>5, <4>2
    <3>3. QED BY <1>5, <3>1, <3>2 DEF Leaves
  <2>3. QED BY <2>1, <2>2
<1>6. QED BY <1>3, <1>4, <1>5 DEF Leaves

\* The changes before a position leave a user to be one user.
LEMMA LeavesOne ==
    ASSUME NEW S, NEW s \in Seq(S), NEW i, NEW v, NEW u, NEW w,
           Leaves(s, i, v, u), Leaves(s, i, v, w), i \in Nat
    PROVE  u = w
<1>1. Len(s) \in Nat /\ DOMAIN s = 1..Len(s)
  BY SeqAt
<1>2. CASE \A k \in DOMAIN s : k < i => s[k] \notin Change
  BY <1>2 DEF Leaves
<1>3. ASSUME NEW k \in DOMAIN s, k < i, s[k] \in Change
      PROVE  u = w
  <2>1. PICK j \in DOMAIN s : /\ j < i /\ s[j] \in Change /\ s[j].user = u
                              /\ \A l \in DOMAIN s : j < l /\ l < i => s[l] \notin Change
    BY <1>3 DEF Leaves
  <2>2. PICK h \in DOMAIN s : /\ h < i /\ s[h] \in Change /\ s[h].user = w
                              /\ \A l \in DOMAIN s : h < l /\ l < i => s[l] \notin Change
    BY <1>3 DEF Leaves
  <2>3. j = h
    BY <1>1, <2>1, <2>2
  <2>4. QED BY <2>1, <2>2, <2>3
<1>4. QED BY <1>2, <1>3

LEMMA ChangesAppend ==
    ASSUME NEW S, NEW s \in Seq(S), NEW x \in S
    PROVE  /\ IsFiniteSet(Changes(s)) /\ Cardinality(Changes(s)) \in Nat
           /\ Cardinality(Changes(Append(s, x)))
                 = Cardinality(Changes(s)) + (IF x \in Change THEN 1 ELSE 0)
<1> DEFINE n == Len(s)
           t == Append(s, x)
<1>1. n \in Nat /\ DOMAIN s = 1..n /\ DOMAIN t = 1..(n + 1)
  BY SeqAt, AppendAt
<1>2. t[n + 1] = x /\ \A i \in 1..n : t[i] = s[i]
  BY AppendAt
<1> HIDE DEF n, t
<1>3. IsFiniteSet(1..n) /\ Changes(s) \subseteq 1..n
  BY <1>1, FS_Interval DEF Changes
<1>4. IsFiniteSet(Changes(s)) /\ Cardinality(Changes(s)) \in Nat
  BY <1>3, FS_Subset, FS_CardinalityType
<1>5. n + 1 \notin Changes(s)
  BY <1>1 DEF Changes
<1>6. CASE x \in Change
  <2>1. Changes(t) = Changes(s) \cup {n + 1}
    BY <1>1, <1>2, <1>6 DEF Changes
  <2>2. Cardinality(Changes(t)) = Cardinality(Changes(s)) + 1
    BY <1>4, <1>5, <2>1, FS_AddElement
  <2>3. QED BY <1>4, <1>6, <2>2 DEF t
<1>7. CASE x \notin Change
  <2>1. Changes(t) = Changes(s)
    BY <1>1, <1>2, <1>7 DEF Changes
  <2>2. QED BY <1>4, <1>7, <2>1 DEF t
<1>8. QED BY <1>6, <1>7

LEMMA ChangesTail ==
    ASSUME NEW S, NEW s \in Seq(S), s # <<>>
    PROVE  /\ Cardinality(Changes(s)) \in Nat /\ Cardinality(Changes(Tail(s))) \in Nat
           /\ Cardinality(Changes(s))
                 = Cardinality(Changes(Tail(s))) + (IF Head(s) \in Change THEN 1 ELSE 0)
<1> DEFINE n == Len(s)
           t == Tail(s)
           D == {i + 1 : i \in Changes(t)}
<1>1. n \in Nat /\ n - 1 \in Nat /\ DOMAIN s = 1..n /\ DOMAIN t = 1..(n - 1) /\ 1 \in DOMAIN s
  BY SeqAt, TailAt
<1>2. Head(s) = s[1] /\ \A i \in 1..(n - 1) : t[i] = s[i + 1] /\ i + 1 \in DOMAIN s
  BY TailAt
<1> HIDE DEF n, t
<1>3. IsFiniteSet(1..(n - 1)) /\ Changes(t) \subseteq 1..(n - 1)
  BY <1>1, FS_Interval DEF Changes
<1>4. IsFiniteSet(Changes(t)) /\ Cardinality(Changes(t)) \in Nat
  BY <1>3, FS_Subset, FS_CardinalityType
<1>5. IsFiniteSet(D) /\ Cardinality(D) = Cardinality(Changes(t))
  <2> DEFINE f == [i \in Changes(t) |-> i + 1]
  <2>1. f \in Bijection(Changes(t), D)
    <3>1. f \in [Changes(t) -> D] /\ \A i \in Changes(t) : f[i] = i + 1
      OBVIOUS
    <3>2. \A i, j \in Changes(t) : i + 1 = j + 1 => i = j
      BY <1>3
    <3>3. \A d \in D : \E i \in Changes(t) : f[i] = d
      BY <3>1
    <3> HIDE DEF f, D
    <3>4. QED BY <3>1, <3>2, <3>3 DEF Bijection, Injection, Surjection, IsInjective
  <2>2. ExistsBijection(Changes(t), D)
    BY <2>1 DEF ExistsBijection
  <2>3. QED BY <1>4, <2>2, FS_Bijection
<1>6. 1 \notin D
  BY <1>3
<1>7. D \subseteq Changes(s)
  <2>1. \A i \in Changes(t) : i + 1 \in Changes(s)
    BY <1>1, <1>2 DEF Changes
  <2>2. QED BY <2>1
<1>8. ASSUME NEW i \in Changes(s), i # 1
       PROVE  i \in D
  <2>1. i \in 1..n /\ i - 1 \in 1..(n - 1) /\ (i - 1) + 1 = i
    BY <1>1, <1>8 DEF Changes
  <2>2. i - 1 \in Changes(t)
    BY <1>1, <1>2, <2>1 DEF Changes
  <2>3. QED BY <2>1, <2>2
<1> HIDE DEF D
<1>9. CASE Head(s) \in Change
  <2>1. Changes(s) = D \cup {1}
    <3>1. 1 \in Changes(s)
      BY <1>1, <1>2, <1>9 DEF Changes
    <3>2. QED BY <1>7, <1>8, <3>1
  <2>2. Cardinality(Changes(s)) = Cardinality(D) + 1
    BY <1>5, <1>6, <2>1, FS_AddElement
  <2>3. QED BY <1>4, <1>5, <1>9, <2>2 DEF t
<1>10. CASE Head(s) \notin Change
  <2>1. Changes(s) = D
    <3>1. 1 \notin Changes(s)
      BY <1>1, <1>2, <1>10 DEF Changes
    <3>2. QED BY <1>7, <1>8, <3>1
  <2>2. QED BY <1>4, <1>5, <1>10, <2>1 DEF t
<1>11. QED BY <1>9, <1>10

-----------------------------------------------------------------------------
(* What FillWritePipeline and StartWriteStream leave *)

\* The last write of the pipeline finds its own place on disk.
LEMMA PlaceOfLast ==
    ASSUME NEW d \in Seq(Numbers), NEW base \in Nat, \A i \in DOMAIN d : d[i] = base + i,
           NEW left \in Seq(Numbers), Len(left) <= Len(d),
           \A i \in DOMAIN left : left[i] = d[i]
    PROVE  Cardinality({i \in DOMAIN d : d[i] <= (IF left = <<>> THEN 0 ELSE Last(left))})
              = Len(left)
<1> DEFINE l == Len(left)
           n == Len(d)
           last == IF left = <<>> THEN 0 ELSE Last(left)
<1>1. l \in Nat /\ n \in Nat /\ DOMAIN left = 1..l /\ DOMAIN d = 1..n /\ (left = <<>> <=> l = 0)
  BY SeqAt
<1>2. {i \in DOMAIN d : d[i] <= last} = 1..l
  <2>1. CASE left = <<>>
    BY <1>1, <2>1
  <2>2. CASE left # <<>>
    <3>1. l \in DOMAIN left /\ l \in DOMAIN d
      BY <1>1, <2>2
    <3>2. last = base + l
      BY <2>2, <3>1 DEF Last
    <3> HIDE DEF last, l
    <3>3. QED BY <1>1, <3>1, <3>2
  <2>3. QED BY <2>1, <2>2
<1>3. 1 \in Int /\ l \in Int
  BY <1>1
<1>4. Cardinality(1..l) = IF 1 > l THEN 0 ELSE l - 1 + 1
  BY <1>3, FS_Interval
<1> HIDE DEF l, last
<1>5. Cardinality(1..l) = l
  BY <1>1, <1>4
<1>6. QED BY <1>2, <1>5 DEF l, last

LEMMA FillAdds ==
    ASSUME NEW s \in Streams, NEW left \in Seq(Numbers), NEW sent, NEW timer,
           Fill(s, left, sent, timer),
           NEW d \in Seq(Numbers), d = queue'[user'],
           NEW base \in Nat, \A i \in DOMAIN d : d[i] = base + i,
           Len(left) <= Len(d), Len(left) <= MaxPending,
           \A i \in DOMAIN left : left[i] = d[i]
    PROVE  \E a \in Seq(Numbers) :
              /\ Len(left) + Len(a) <= Len(d) /\ Len(left) + Len(a) <= MaxPending
              /\ \A i \in 1..Len(a) : a[i] = d[Len(left) + i]
              /\ pipeline' = left \o a
              /\ requests' = IF Sends(s) THEN sent \o a ELSE sent
              /\ idle' = IF a # <<>> /\ Sends(s) THEN FALSE
                         ELSE timer \/ (left \o a = <<>> /\ IsOpen(s))
              /\ stream' = IF ~ShouldStart(s, left \o a) THEN s
                           ELSE IF s = "error" THEN "backoff" ELSE "starting"
              /\ auth' = IF stream' # "starting" \/ s = "starting" THEN auth
                         ELSE Append(auth, [close |-> closes', counter |-> counter])
<1> DEFINE l == Len(left)
           n == Len(d)
           k == Cardinality({i \in DOMAIN d : d[i] <= (IF left = <<>> THEN 0 ELSE Last(left))})
           rest == SubSeq(d, 1 + k, n)
           a == IF Len(rest) > Room(left) THEN SubSeq(rest, 1, Room(left)) ELSE rest
<1>1. l \in Nat /\ n \in Nat /\ n - l \in Nat /\ MaxPending \in Nat /\ k = l
  <2>1. k = l
    BY PlaceOfLast
  <2> HIDE DEF k
  <2>2. l \in Nat /\ n \in Nat
    BY SeqAt
  <2>3. QED BY <2>1, <2>2, PipelineAssumption
<1> HIDE DEF k
<1>2. Room(left) = MaxPending - l /\ Room(left) \in Nat
  BY <1>1 DEF Room
<1>3. /\ rest \in Seq(Numbers) /\ Len(rest) = n - l
      /\ \A i \in 1..(n - l) : rest[i] = d[l + i]
  BY <1>1, DropAt
<1> HIDE DEF l, n, rest
<1>4. /\ a \in Seq(Numbers) /\ l + Len(a) <= n /\ l + Len(a) <= MaxPending
      /\ \A i \in 1..Len(a) : a[i] = d[l + i]
  <2>1. CASE Len(rest) > Room(left)
    <3>1. a = SubSeq(rest, 1, Room(left))
      BY <2>1
    <3> HIDE DEF a
    <3>2. /\ a \in Seq(Numbers) /\ Len(a) = Room(left)
          /\ \A i \in 1..Room(left) : a[i] = rest[i]
      BY <1>2, <1>3, <2>1, <3>1, TakeAt
    <3>3. \A i \in 1..Room(left) : i \in 1..(n - l)
      BY <1>1, <1>2, <1>3, <2>1
    <3>4. l + Room(left) <= n /\ l + Room(left) <= MaxPending
      BY <1>1, <1>2, <1>3, <2>1
    <3>5. QED BY <1>3, <3>2, <3>3, <3>4
  <2>2. CASE ~(Len(rest) > Room(left))
    <3>1. a = rest
      BY <2>2
    <3>2. l + Len(rest) <= n /\ l + Len(rest) <= MaxPending
      BY <1>1, <1>2, <1>3, <2>2
    <3> HIDE DEF a
    <3>3. QED BY <1>3, <3>1, <3>2
  <2>3. QED BY <2>1, <2>2
<1>5. /\ pipeline' = left \o a
      /\ requests' = IF Sends(s) THEN sent \o a ELSE sent
      /\ idle' = IF a # <<>> /\ Sends(s) THEN FALSE
                 ELSE timer \/ (left \o a = <<>> /\ IsOpen(s))
      /\ stream' = IF ~ShouldStart(s, left \o a) THEN s
                   ELSE IF s = "error" THEN "backoff" ELSE "starting"
      /\ auth' = IF stream' # "starting" \/ s = "starting" THEN auth
                 ELSE Append(auth, [close |-> closes', counter |-> counter])
  BY Zenon DEF Fill, rest, n, k
<1> HIDE DEF a
<1>6. QED BY <1>4, <1>5, Zenon DEF l, n

\* On a stream in any state, what Fill leaves is in order again.
LEMMA FillKeeps ==
    ASSUME NEW s \in Streams, NEW left \in Seq(Numbers), NEW sent \in Seq(Numbers),
           NEW timer \in BOOLEAN, Fill(s, left, sent, timer),
           user' \in User, queue' \in [User -> Seq(Numbers)], made' \in [User -> Nat],
           QueueShape',
           Len(left) <= Len(queue'[user']), Len(left) <= MaxPending,
           \A i \in DOMAIN left : left[i] = queue'[user'][i],
           responses' \in Seq(Answer),
           OnTheWire(s, left, responses', sent), Needed(s, left, timer)
    PROVE  /\ pipeline' \in Seq(Numbers) /\ Len(pipeline') <= MaxPending
           /\ requests' \in Seq(Numbers) /\ idle' \in BOOLEAN /\ stream' \in Streams
           /\ PipelineShape' /\ WireShape' /\ StreamShape'
           /\ stream' \in {"connecting", "open", "ready"} => stream' = s
           /\ \/ /\ auth' = Append(auth, [close |-> closes', counter |-> counter])
                 /\ stream' = "starting" /\ s # "starting"
              \/ auth' = auth /\ (stream' = "starting" <=> s = "starting")
<1>1. PICK d : d = queue'[user'] /\ d \in Seq(Numbers)
  OBVIOUS
<1>2. PICK base \in Nat : \A i \in DOMAIN d : d[i] = base + i
  <2>1. Len(d) <= made'[user'] /\ made'[user'] \in Nat /\ Len(d) \in Nat
    BY <1>1, SeqAt DEF QueueShape
  <2>2. made'[user'] - Len(d) \in Nat
    BY <2>1
  <2>3. \A i \in DOMAIN d : d[i] = (made'[user'] - Len(d)) + i
    BY <1>1 DEF QueueShape
  <2>4. QED BY <2>2, <2>3
<1>3. PICK a \in Seq(Numbers) :
              /\ Len(left) + Len(a) <= Len(d) /\ Len(left) + Len(a) <= MaxPending
              /\ \A i \in 1..Len(a) : a[i] = d[Len(left) + i]
              /\ pipeline' = left \o a
              /\ requests' = IF Sends(s) THEN sent \o a ELSE sent
              /\ idle' = IF a # <<>> /\ Sends(s) THEN FALSE
                         ELSE timer \/ (left \o a = <<>> /\ IsOpen(s))
              /\ stream' = IF ~ShouldStart(s, left \o a) THEN s
                           ELSE IF s = "error" THEN "backoff" ELSE "starting"
              /\ auth' = IF stream' # "starting" \/ s = "starting" THEN auth
                         ELSE Append(auth, [close |-> closes', counter |-> counter])
  BY <1>1, <1>2, FillAdds, Zenon
<1> DEFINE p == left \o a
           l == Len(left)
           k == Len(a)
<1>4. /\ p \in Seq(Numbers) /\ Len(p) = l + k /\ DOMAIN p = 1..(l + k)
      /\ \A i \in 1..l : p[i] = left[i]
      /\ \A i \in 1..k : p[l + i] = a[i]
  BY ConcatAt
<1>5. /\ l \in Nat /\ k \in Nat /\ DOMAIN left = 1..l /\ DOMAIN a = 1..k
      /\ (left = <<>> <=> l = 0) /\ (a = <<>> <=> k = 0) /\ (p = <<>> <=> Len(p) = 0)
  BY <1>4, SeqAt
<1> HIDE DEF p, l, k
<1>6. p = <<>> <=> left = <<>> /\ a = <<>>
  BY <1>4, <1>5
<1>7. \A i \in DOMAIN p : p[i] = d[i]
  <2>1. SUFFICES ASSUME NEW i \in 1..(l + k)
                 PROVE  p[i] = d[i]
    BY <1>4
  <2>2. CASE i \in 1..l
    BY <1>1, <1>4, <1>5, <2>2
  <2>3. CASE i \notin 1..l
    <3>1. PICK j \in 1..k : i = l + j
      <4>1. i - l \in 1..k /\ i = l + (i - l)
        BY <1>5, <2>3
      <4>2. QED BY <4>1
    <3>2. a[j] = d[l + j]
      BY <1>3 DEF l, k
    <3>3. QED BY <1>4, <3>1, <3>2
  <2>4. QED BY <2>2, <2>3
<1>8. pipeline' = p
  BY <1>3 DEF p
<1>9. PipelineShape'
  <2>1. Len(p) <= Len(d)
    BY <1>3, <1>4 DEF l, k
  <2>2. QED BY <1>1, <1>7, <1>8, <2>1 DEF PipelineShape
<1>10. stream' \in Streams /\ (stream' # s => p # <<>> /\ stream' \in {"starting", "backoff"})
  BY <1>3 DEF ShouldStart, Streams, p
<1>11. /\ stream' = "ready" <=> s = "ready"
       /\ s = "ready" => stream' = s
  BY <1>3 DEF ShouldStart
<1>12. WireShape' /\ requests' \in Seq(Numbers)
  <2>1. CASE s = "ready"
    <3> DEFINE q == sent \o a
               m == Len(sent)
               h == Len(responses')
    <3>1. /\ q \in Seq(Numbers) /\ Len(q) = m + k /\ DOMAIN q = 1..(m + k)
          /\ \A i \in 1..m : q[i] = sent[i]
          /\ \A i \in 1..k : q[m + i] = a[i]
      BY ConcatAt DEF k
    <3>2. /\ m \in Nat /\ h \in Nat /\ DOMAIN sent = 1..m /\ DOMAIN responses' = 1..h
      BY SeqAt
    <3>3. requests' = q
      BY <1>3, <2>1 DEF Sends
    <3>4. /\ l = h + m
          /\ \A i \in 1..h : responses'[i].write = left[i]
          /\ \A i \in 1..m : sent[i] = left[h + i]
      BY <2>1, <3>2 DEF OnTheWire, l
    <3> HIDE DEF q, m, h
    <3>5. Len(p) = h + Len(q)
      BY <1>4, <1>5, <3>1, <3>2, <3>4
    <3>6. \A i \in 1..h : responses'[i].write = p[i]
      BY <1>4, <1>5, <3>2, <3>4
    <3>7. \A i \in DOMAIN q : q[i] = p[h + i]
      <4>1. SUFFICES ASSUME NEW i \in 1..(m + k)
                     PROVE  q[i] = p[h + i]
        BY <3>1
      <4>2. CASE i \in 1..m
        <5>1. h + i \in 1..l
          BY <1>5, <3>2, <3>4, <4>2
        <5>2. QED BY <1>4, <3>1, <3>4, <4>2, <5>1
      <4>3. CASE i \notin 1..m
        <5>1. PICK j : j \in 1..k /\ i = m + j
          <6>1. i - m \in 1..k /\ i = m + (i - m)
            BY <1>5, <3>2, <4>3
          <6>2. QED BY <6>1
        <5>2. h + i = l + j
          BY <1>5, <3>2, <3>4, <5>1
        <5>3. QED BY <1>4, <3>1, <5>1, <5>2
      <4>4. QED BY <4>2, <4>3
    <3>8. QED
      BY <1>8, <1>11, <2>1, <3>1, <3>2, <3>3, <3>5, <3>6, <3>7 DEF WireShape, OnTheWire, h
  <2>2. CASE s # "ready"
    <3>1. requests' = sent
      BY <1>3, <2>2 DEF Sends
    <3>2. QED BY <1>11, <2>2, <3>1 DEF WireShape, OnTheWire
  <2>3. QED BY <2>1, <2>2
<1>13. idle' \in BOOLEAN /\ (idle' => p = <<>> /\ s = "ready")
  <2>1. CASE a # <<>> /\ Sends(s)
    <3>1. idle' = FALSE
      BY <1>3, <2>1
    <3>2. QED BY <3>1
  <2>2. CASE ~(a # <<>> /\ Sends(s))
    <3>1. idle' = (timer \/ (p = <<>> /\ IsOpen(s)))
      BY <1>3, <2>2 DEF p
    <3>2. timer => left = <<>> /\ s = "ready" /\ a = <<>>
      BY <2>2 DEF Needed, Sends
    <3>3. p = <<>> /\ IsOpen(s) => s = "ready"
      BY <1>6 DEF Needed, IsOpen
    <3>4. QED BY <1>6, <3>1, <3>2, <3>3
  <2>3. QED BY <2>1, <2>2
<1>14. StreamShape'
  <2>1. s \in {"starting", "connecting", "open", "backoff"} => p # <<>>
    BY <1>6 DEF Needed
  <2>2. stream' \in {"starting", "connecting", "open", "backoff"} => p # <<>>
    BY <1>10, <2>1
  <2>3. stream' # "off"
    BY <1>10 DEF Streams
  <2>4. Needed(stream', p, idle')
    BY <1>11, <1>13, <2>2, <2>3 DEF Needed
  <2>5. QED BY <1>8, <2>4 DEF StreamShape
<1>15. \/ /\ auth' = Append(auth, [close |-> closes', counter |-> counter])
          /\ stream' = "starting" /\ s # "starting"
       \/ auth' = auth /\ (stream' = "starting" <=> s = "starting")
  <2>1. CASE s = "starting"
    BY <1>3, <2>1 DEF ShouldStart
  <2>2. CASE s # "starting" /\ stream' = "starting"
    BY <1>3, <2>2
  <2>3. CASE s # "starting" /\ stream' # "starting"
    BY <1>3, <2>3
  <2>4. QED BY <2>1, <2>2, <2>3
<1>16. Len(p) <= MaxPending /\ p \in Seq(Numbers)
  BY <1>3, <1>4 DEF l, k
<1>17. stream' \in {"connecting", "open", "ready"} => stream' = s
  BY <1>10
<1>18. QED BY <1>8, <1>9, <1>10, <1>12, <1>13, <1>14, <1>15, <1>16, <1>17

-----------------------------------------------------------------------------
(* The first write leaves the pipeline, and the disk *)

LEMMA PopKeeps ==
    ASSUME WritesTyped, QueueShape, PipelineShape, pipeline # <<>>, PopFirst, UNCHANGED <<user, made>>
    PROVE  /\ queue' \in [User -> Seq(Numbers)] /\ QueueShape'
           /\ Len(queue[user]) \in Nat /\ Len(queue[user]) # 0
           /\ Len(queue'[user]) = Len(queue[user]) - 1
           /\ \A u \in User : u # user => queue'[u] = queue[u]
           /\ Len(Tail(pipeline)) <= Len(queue'[user])
           /\ \A i \in DOMAIN Tail(pipeline) : Tail(pipeline)[i] = queue'[user][i]
<1> DEFINE q == queue[user]
           n == Len(q)
           b == made[user] - n
           l == Len(pipeline)
<1>1. /\ user \in User /\ queue \in [User -> Seq(Numbers)] /\ pipeline \in Seq(Numbers)
      /\ made \in [User -> Nat]
  BY DEF WritesTyped
<1>2. /\ q \in Seq(Numbers) /\ n \in Nat /\ DOMAIN q = 1..n
      /\ l \in Nat /\ l # 0 /\ DOMAIN pipeline = 1..l
  BY <1>1, SeqAt
<1>3. /\ n <= made[user] /\ \A i \in 1..n : q[i] = b + i
      /\ l <= n /\ \A i \in 1..l : pipeline[i] = q[i]
  BY <1>1, <1>2 DEF QueueShape, PipelineShape
<1>4. b \in Nat /\ n # 0 /\ n - 1 \in Nat /\ made[user] \in Nat
  <2> HIDE DEF n, l
  <2>1. made[user] \in Nat
    BY <1>1
  <2>2. QED BY <1>2, <1>3, <2>1
<1>5. Head(pipeline) = b + 1
  <2>1. Head(pipeline) = pipeline[1]
    BY <1>1, <1>2, SeqAt, TailAt
  <2> HIDE DEF l, n, q, b
  <2>2. 1 \in 1..l /\ 1 \in 1..n
    BY <1>2, <1>3
  <2>3. QED BY <1>3, <2>1, <2>2
<1>6. (CHOOSE i \in DOMAIN q : q[i] = Head(pipeline)) = 1
  <2> HIDE DEF n, q, b, l
  <2>1. 1 \in DOMAIN q /\ \A i \in DOMAIN q : q[i] = Head(pipeline) => i = 1
    BY <1>2, <1>3, <1>4, <1>5
  <2>2. q[1] = Head(pipeline)
    BY <1>2, <1>3, <1>5, <2>1
  <2>3. QED BY <2>1, <2>2
<1>7. q # <<>>
  BY <1>2, <1>4, SeqAt
<1>8. queue' = [queue EXCEPT ![user] = Tail(q)]
  <2>1. queue' = [queue EXCEPT ![user] = RemoveAt(q, 1)]
    BY <1>6 DEF PopFirst
  <2>2. RemoveAt(q, 1) = Tail(q)
    BY <1>2, <1>7, FirstRemoved
  <2>3. QED BY <2>1, <2>2
<1>9. /\ Tail(q) \in Seq(Numbers) /\ Len(Tail(q)) = n - 1 /\ DOMAIN Tail(q) = 1..(n - 1)
      /\ \A i \in 1..(n - 1) : Tail(q)[i] = q[i + 1]
  BY <1>2, <1>7, TailAt
<1>10. queue' \in [User -> Seq(Numbers)]
  BY <1>1, <1>8, <1>9
<1>11. queue'[user] = Tail(q) /\ \A u \in User : u # user => queue'[u] = queue[u]
  BY <1>1, <1>8
<1>12. QueueShape'
  <2>1. SUFFICES ASSUME NEW u \in User
                 PROVE  /\ Len(queue'[u]) <= made[u]
                        /\ \A i \in DOMAIN queue'[u] : queue'[u][i] = (made[u] - Len(queue'[u])) + i
    BY DEF QueueShape
  <2>2. CASE u = user
    <3> DEFINE r == Tail(q)
    <3> HIDE DEF q, n, b, r, l
    <3>1. n - 1 <= made[user] /\ \A i \in 1..(n - 1) : r[i] = (made[user] - (n - 1)) + i
      <4>1. \A i \in 1..(n - 1) : i + 1 \in 1..n /\ r[i] = b + (i + 1)
        BY <1>2, <1>3, <1>4, <1>9 DEF r
      <4>2. \A i \in 1..(n - 1) : b + (i + 1) = (made[user] - (n - 1)) + i
        BY <1>2, <1>4 DEF b
      <4>3. QED BY <1>2, <1>3, <1>4, <4>1, <4>2
    <3>2. queue'[u] = r /\ Len(r) = n - 1 /\ DOMAIN r = 1..(n - 1)
      BY <1>9, <1>11, <2>2 DEF r
    <3>3. QED BY <2>2, <3>1, <3>2
  <2>3. CASE u # user
    BY <1>11, <2>3 DEF QueueShape
  <2>4. QED BY <2>2, <2>3
<1>13. /\ Len(Tail(pipeline)) = l - 1 /\ DOMAIN Tail(pipeline) = 1..(l - 1)
       /\ \A i \in 1..(l - 1) : Tail(pipeline)[i] = pipeline[i + 1]
  BY <1>1, TailAt
<1>14. /\ l - 1 <= n - 1
       /\ \A i \in 1..(l - 1) : Tail(pipeline)[i] = Tail(q)[i]
  <2> HIDE DEF l, n, q
  <2>1. \A i \in 1..(l - 1) : i + 1 \in 1..l /\ i \in 1..(n - 1)
    BY <1>2, <1>3
  <2>2. QED BY <1>2, <1>3, <1>9, <1>13, <2>1
<1>15. QED BY <1>2, <1>4, <1>9, <1>10, <1>11, <1>12, <1>13, <1>14

-----------------------------------------------------------------------------
(* The writes: one lemma per step *)

\* A stream that was in state s asks for a token when it is to start.
AskedFrom(s) ==
    /\ stream' \in Streams
    /\ \/ /\ auth' = Append(auth, [close |-> closes', counter |-> counter])
          /\ stream' = "starting" /\ s # "starting"
       \/ auth' = auth /\ (stream' = "starting" <=> s = "starting")

LEMMA FillStep ==
    ASSUME WritesInv,
           NEW s \in Streams, NEW left \in Seq(Numbers), NEW sent \in Seq(Numbers),
           NEW timer \in BOOLEAN, Fill(s, left, sent, timer),
           UNCHANGED <<token, taken, refused, restarts>>, breaks' \in 0..MaxBreaks,
           user' \in User, queue' \in [User -> Seq(Numbers)], made' \in [User -> 0..MaxWrites],
           QueueShape',
           Len(left) <= Len(queue'[user']), Len(left) <= MaxPending,
           \A i \in DOMAIN left : left[i] = queue'[user'][i],
           responses' \in Seq(Answer),
           \A i \in DOMAIN responses' : \E j \in DOMAIN responses : responses'[i] = responses[j],
           OnTheWire(s, left, responses', sent), Needed(s, left, timer),
           s \in {"connecting", "open", "ready"} => token = user'
    PROVE  WritesInv' /\ AskedFrom(s)
<1>1. made' \in [User -> Nat]
  <2>1. 0..MaxWrites \subseteq Nat
    BY PipelineAssumption
  <2>2. QED BY <2>1
<1>2. /\ pipeline' \in Seq(Numbers) /\ Len(pipeline') <= MaxPending
      /\ requests' \in Seq(Numbers) /\ idle' \in BOOLEAN /\ stream' \in Streams
      /\ PipelineShape' /\ WireShape' /\ StreamShape'
      /\ stream' \in {"connecting", "open", "ready"} => stream' = s
      /\ \/ /\ auth' = Append(auth, [close |-> closes', counter |-> counter])
            /\ stream' = "starting" /\ s # "starting"
         \/ auth' = auth /\ (stream' = "starting" <=> s = "starting")
  BY <1>1, FillKeeps
<1>3. Answered'
  BY DEF WritesInv, Answered
<1>4. TokenRight'
  BY <1>2 DEF TokenRight
<1>5. WritesTyped'
  BY <1>2 DEF WritesInv, WritesTyped
<1>6. QED BY <1>2, <1>3, <1>4, <1>5 DEF WritesInv, AskedFrom

LEMMA WriteStep ==
    ASSUME WritesInv, Write
    PROVE  WritesInv' /\ AskedFrom(stream)
<1> DEFINE q == queue[user]
           n == Len(q)
           m == made[user]
<1>1. /\ user \in User /\ queue \in [User -> Seq(Numbers)] /\ made \in [User -> 0..MaxWrites]
      /\ stream \in Streams /\ m < MaxWrites /\ QueueShape
  BY DEF WritesInv, WritesTyped, Write
<1>2. UNCHANGED <<user, token, responses, taken, refused, breaks, restarts>>
  BY DEF Write, backend, bounds
<1>3. m \in Nat /\ m + 1 \in Numbers /\ m + 1 \in 0..MaxWrites
  BY <1>1, PipelineAssumption DEF Numbers
<1>4. /\ made' = [made EXCEPT ![user] = m + 1] /\ made'[user] = m + 1
      /\ made' \in [User -> 0..MaxWrites]
  <2>1. made' = [made EXCEPT ![user] = m + 1]
    BY DEF Write
  <2>2. QED BY <1>1, <1>3, <2>1
<1>5. /\ Append(q, m + 1) \in Seq(Numbers) /\ Len(Append(q, m + 1)) = n + 1 /\ n \in Nat
      /\ DOMAIN Append(q, m + 1) = 1..(n + 1) /\ DOMAIN q = 1..n
      /\ \A i \in 1..n : Append(q, m + 1)[i] = q[i]
      /\ Append(q, m + 1)[n + 1] = m + 1
  BY <1>1, <1>3, SeqAt, AppendAt
<1>6. /\ queue' = [queue EXCEPT ![user] = Append(q, m + 1)]
      /\ queue' \in [User -> Seq(Numbers)] /\ queue'[user] = Append(q, m + 1)
      /\ \A u \in User : u # user => queue'[u] = queue[u] /\ made'[u] = made[u]
  <2>1. queue' = [queue EXCEPT ![user] = Append(q, m + 1)]
    BY <1>4 DEF Write
  <2>2. QED BY <1>1, <1>4, <1>5, <2>1
<1>7. QueueShape'
  <2>1. SUFFICES ASSUME NEW u \in User
                 PROVE  /\ Len(queue'[u]) <= made'[u]
                        /\ \A i \in DOMAIN queue'[u] : queue'[u][i] = (made'[u] - Len(queue'[u])) + i
    BY DEF QueueShape
  <2>2. CASE u = user
    <3> DEFINE r == Append(q, m + 1)
    <3>1. n <= m /\ \A i \in 1..n : q[i] = (m - n) + i
      BY <1>1, <1>5 DEF QueueShape
    <3> HIDE DEF q, n, m, r
    <3>2. n + 1 <= m + 1 /\ \A i \in 1..(n + 1) : r[i] = ((m + 1) - (n + 1)) + i
      BY <1>3, <1>5, <3>1 DEF r
    <3>3. queue'[u] = r /\ Len(r) = n + 1 /\ DOMAIN r = 1..(n + 1) /\ made'[u] = m + 1
      BY <1>4, <1>5, <1>6, <2>2 DEF r
    <3>4. QED BY <3>2, <3>3
  <2>3. CASE u # user
    BY <1>1, <1>6, <2>3 DEF QueueShape
  <2>4. QED BY <2>2, <2>3
<1>8. /\ Len(pipeline) <= Len(queue'[user'])
      /\ \A i \in DOMAIN pipeline : pipeline[i] = queue'[user'][i]
  <2> DEFINE r == Append(q, m + 1)
             l == Len(pipeline)
  <2>1. l <= n /\ (\A i \in DOMAIN pipeline : pipeline[i] = q[i]) /\ DOMAIN pipeline = 1..l /\ l \in Nat
    BY SeqAt DEF WritesInv, WritesTyped, PipelineShape
  <2> HIDE DEF q, n, m, r, l
  <2>2. l <= Len(r) /\ \A i \in 1..l : pipeline[i] = r[i]
    BY <1>5, <2>1 DEF r
  <2>3. queue'[user'] = r
    BY <1>2, <1>6 DEF r
  <2>4. QED BY <2>1, <2>2, <2>3 DEF l
<1>9. /\ Fill(stream, pipeline, requests, idle)
      /\ pipeline \in Seq(Numbers) /\ Len(pipeline) <= MaxPending
      /\ requests \in Seq(Numbers) /\ idle \in BOOLEAN
      /\ responses' \in Seq(Answer) /\ user' \in User /\ breaks' \in 0..MaxBreaks
  BY <1>2 DEF WritesInv, WritesTyped, Write
<1>10. /\ OnTheWire(stream, pipeline, responses', requests)
       /\ Needed(stream, pipeline, idle)
       /\ stream \in {"connecting", "open", "ready"} => token = user'
       /\ \A i \in DOMAIN responses' : \E j \in DOMAIN responses : responses'[i] = responses[j]
  BY <1>2 DEF WritesInv, WireShape, StreamShape, TokenRight
<1> HIDE DEF q, n, m
<1>11. QED BY <1>1, <1>2, <1>4, <1>6, <1>7, <1>8, <1>9, <1>10, FillStep

\* The first answer is about the first write of the pipeline.
LEMMA FirstAnswered ==
    ASSUME WritesInv, stream = "ready", responses # <<>>
    PROVE  /\ pipeline # <<>>
           /\ OnTheWire("ready", Tail(pipeline), Tail(responses), requests)
           /\ Tail(responses) \in Seq(Answer) /\ Tail(pipeline) \in Seq(Numbers)
           /\ Len(Tail(pipeline)) <= MaxPending
           /\ \A i \in DOMAIN Tail(responses) : \E j \in DOMAIN responses :
                 Tail(responses)[i] = responses[j]
           /\ 1 \in DOMAIN responses /\ Head(responses) = responses[1]
           /\ Head(responses).write = (made[user] - Len(queue[user])) + 1
<1> DEFINE l == Len(pipeline)
           h == Len(responses)
           m == Len(requests)
           tp == Tail(pipeline)
           tr == Tail(responses)
<1>1. /\ pipeline \in Seq(Numbers) /\ responses \in Seq(Answer) /\ requests \in Seq(Numbers)
      /\ l <= MaxPending
      /\ l = h + m
      /\ \A i \in DOMAIN responses : responses[i].write = pipeline[i]
      /\ \A i \in DOMAIN requests : requests[i] = pipeline[h + i]
  BY DEF WritesInv, WritesTyped, WireShape, OnTheWire
<1>2. /\ l \in Nat /\ h \in Nat /\ m \in Nat /\ h # 0 /\ (pipeline = <<>> <=> l = 0)
      /\ DOMAIN responses = 1..h /\ DOMAIN requests = 1..m /\ DOMAIN pipeline = 1..l
  BY <1>1, SeqAt
<1>3. l # 0 /\ pipeline # <<>> /\ 1 \in 1..h /\ 1 \in 1..l
  <2> HIDE DEF l, h, m
  <2>1. l # 0 /\ 1 \in 1..h /\ 1 \in 1..l
    BY <1>1, <1>2
  <2>2. QED BY <1>2, <2>1
<1>4. /\ tr \in Seq(Answer) /\ Len(tr) = h - 1 /\ DOMAIN tr = 1..(h - 1)
      /\ \A i \in 1..(h - 1) : tr[i] = responses[i + 1]
      /\ Head(responses) = responses[1]
  BY <1>1, TailAt
<1>5. /\ tp \in Seq(Numbers) /\ Len(tp) = l - 1
      /\ \A i \in 1..(l - 1) : tp[i] = pipeline[i + 1]
  BY <1>1, <1>3, TailAt
<1>6. Head(responses).write = (made[user] - Len(queue[user])) + 1
  <2>1. responses[1].write = pipeline[1]
    BY <1>1, <1>2, <1>3
  <2>2. pipeline[1] = queue[user][1] /\ l <= Len(queue[user]) /\ queue[user] \in Seq(Numbers)
    BY <1>2, <1>3 DEF WritesInv, WritesTyped, PipelineShape
  <2>3. 1 \in DOMAIN queue[user]
    <3> DEFINE n == Len(queue[user])
    <3>1. n \in Nat /\ DOMAIN queue[user] = 1..n
      BY <2>2, SeqAt
    <3> HIDE DEF n, l
    <3>2. 1 \in 1..n
      BY <1>2, <1>3, <2>2, <3>1 DEF n
    <3>3. QED BY <3>1, <3>2
  <2>4. queue[user][1] = (made[user] - Len(queue[user])) + 1
    BY <2>3 DEF WritesInv, WritesTyped, QueueShape
  <2>5. QED BY <1>4, <2>1, <2>2, <2>4
<1> HIDE DEF l, h, m, tp, tr
<1>7. l - 1 = (h - 1) + m /\ l - 1 <= MaxPending
  BY <1>1, <1>2, PipelineAssumption
<1>8. \A i \in 1..(h - 1) : /\ i + 1 \in 1..h /\ i \in 1..(l - 1)
                            /\ tr[i] = responses[i + 1] /\ tp[i] = pipeline[i + 1]
  BY <1>1, <1>2, <1>4, <1>5
<1>9. \A i \in 1..m : (h - 1) + i \in 1..(l - 1) /\ ((h - 1) + i) + 1 = h + i
  BY <1>1, <1>2
<1>10. OnTheWire("ready", tp, tr, requests)
  <2>1. \A i \in DOMAIN tr : tr[i].write = tp[i]
    BY <1>1, <1>2, <1>4, <1>8, Zenon
  <2>2. \A i \in DOMAIN requests : requests[i] = tp[Len(tr) + i]
    BY <1>1, <1>2, <1>4, <1>5, <1>9, Zenon
  <2>3. Len(tp) = Len(tr) + Len(requests)
    BY <1>4, <1>5, <1>7 DEF m
  <2>4. QED BY <2>1, <2>2, <2>3 DEF OnTheWire
<1>11. \A i \in DOMAIN tr : \E j \in DOMAIN responses : tr[i] = responses[j]
  BY <1>2, <1>4, <1>8
<1>12. QED BY <1>2, <1>3, <1>4, <1>5, <1>6, <1>7, <1>10, <1>11 DEF tp, tr

LEMMA MutationResultStep ==
    ASSUME WritesInv, MutationResult
    PROVE  WritesInv' /\ AskedFrom("ready")
<1>1. stream = "ready" /\ responses # <<>>
  BY DEF MutationResult
<1>2. UNCHANGED <<user, token, made, taken, refused, breaks, restarts>>
  BY DEF MutationResult, backend, bounds
<1>3. /\ pipeline # <<>>
      /\ OnTheWire("ready", Tail(pipeline), responses', requests)
      /\ responses' \in Seq(Answer) /\ Tail(pipeline) \in Seq(Numbers)
      /\ Len(Tail(pipeline)) <= MaxPending
      /\ \A i \in DOMAIN responses' : \E j \in DOMAIN responses : responses'[i] = responses[j]
  <2>1. responses' = Tail(responses)
    BY DEF MutationResult
  <2>2. QED BY <1>1, <2>1, FirstAnswered
<1>4. /\ queue' \in [User -> Seq(Numbers)] /\ QueueShape'
      /\ Len(Tail(pipeline)) <= Len(queue'[user])
      /\ \A i \in DOMAIN Tail(pipeline) : Tail(pipeline)[i] = queue'[user][i]
  BY <1>2, <1>3, PopKeeps DEF WritesInv, MutationResult
<1>5. Needed("ready", Tail(pipeline), idle)
  BY <1>3 DEF WritesInv, StreamShape, Needed
<1>6. /\ Fill("ready", Tail(pipeline), requests, idle) /\ "ready" \in Streams
      /\ requests \in Seq(Numbers) /\ idle \in BOOLEAN /\ user' \in User
      /\ made' \in [User -> 0..MaxWrites] /\ breaks' \in 0..MaxBreaks
      /\ token = user'
  BY <1>1, <1>2 DEF WritesInv, WritesTyped, TokenRight, MutationResult, Streams
<1>7. user' = user
  BY <1>2
<1>8. /\ Len(Tail(pipeline)) <= Len(queue'[user'])
      /\ \A i \in DOMAIN Tail(pipeline) : Tail(pipeline)[i] = queue'[user'][i]
  BY <1>4, <1>7, Zenon
<1>9. UNCHANGED <<token, taken, refused, restarts>>
  BY <1>2
<1>10. QED BY <1>3, <1>4, <1>5, <1>6, <1>8, <1>9, FillStep, Zenon

\* A stream that is made anew, with what is left of the pipeline.
LEMMA AnewStep ==
    ASSUME WritesInv,
           NEW s \in {"initial", "error"}, NEW left \in Seq(Numbers),
           Fill(s, left, <<>>, FALSE), responses' = <<>>,
           UNCHANGED <<token, taken, refused, restarts>>, breaks' \in 0..MaxBreaks,
           user' \in User, queue' \in [User -> Seq(Numbers)], made' \in [User -> 0..MaxWrites],
           QueueShape',
           Len(left) <= Len(queue'[user']), Len(left) <= MaxPending,
           \A i \in DOMAIN left : left[i] = queue'[user'][i]
    PROVE  WritesInv' /\ AskedFrom(s)
<1>1. s \in Streams /\ FALSE \in BOOLEAN /\ s \notin {"connecting", "open", "ready"}
  BY DEF Streams
<1>2. responses' \in Seq(Answer) /\ <<>> \in Seq(Numbers) /\ DOMAIN responses' = {}
  OBVIOUS
<1>3. OnTheWire(s, left, responses', <<>>) /\ Needed(s, left, FALSE)
  BY DEF OnTheWire, Needed
<1>4. QED BY <1>1, <1>2, <1>3, FillStep

LEMMA StreamClosesStep ==
    ASSUME WritesInv, NEW r, StreamCloses(r), breaks' \in 0..MaxBreaks
    PROVE  WritesInv' /\ (AskedFrom("initial") \/ AskedFrom("error"))
<1>1. UNCHANGED <<user, token, made, taken, refused, restarts>> /\ responses' = <<>>
  BY DEF StreamCloses, backend
<1>2. /\ user' \in User /\ made' \in [User -> 0..MaxWrites] /\ user' = user
      /\ pipeline \in Seq(Numbers) /\ Len(pipeline) <= MaxPending
  BY <1>1 DEF WritesInv, WritesTyped
<1>3. CASE Permanent(r) /\ stream = "ready" /\ pipeline # <<>>
  <2>1. PopFirst /\ Fill("initial", Tail(pipeline), <<>>, FALSE)
    BY <1>3 DEF StreamCloses
  <2>2. /\ queue' \in [User -> Seq(Numbers)] /\ QueueShape'
        /\ Len(Tail(pipeline)) <= Len(queue'[user])
        /\ \A i \in DOMAIN Tail(pipeline) : Tail(pipeline)[i] = queue'[user][i]
    BY <1>1, <1>3, <2>1, PopKeeps DEF WritesInv
  <2>3. Tail(pipeline) \in Seq(Numbers) /\ Len(Tail(pipeline)) <= MaxPending
    <3>1. /\ Tail(pipeline) \in Seq(Numbers) /\ Len(Tail(pipeline)) = Len(pipeline) - 1
          /\ Len(pipeline) \in Nat
      BY <1>2, <1>3, SeqAt, TailAt
    <3>2. QED BY <1>2, <3>1, PipelineAssumption
  <2>4. QED BY <1>1, <1>2, <2>1, <2>2, <2>3, AnewStep
<1>4. CASE ~(Permanent(r) /\ stream = "ready" /\ pipeline # <<>>)
  <2>1. queue' = queue /\ Fill("error", pipeline, <<>>, FALSE)
    BY <1>4 DEF StreamCloses
  <2>2. /\ queue' \in [User -> Seq(Numbers)] /\ QueueShape'
        /\ Len(pipeline) <= Len(queue'[user'])
        /\ \A i \in DOMAIN pipeline : pipeline[i] = queue'[user'][i]
    BY <1>1, <2>1 DEF WritesInv, WritesTyped, QueueShape, PipelineShape
  <2>3. QED BY <1>1, <1>2, <2>1, <2>2, AnewStep
<1>5. QED BY <1>3, <1>4

LEMMA FromNothingStep ==
    ASSUME WritesInv, Fill("initial", <<>>, <<>>, FALSE), responses' = <<>>,
           UNCHANGED <<queue, made, token, taken, refused, restarts>>, breaks' \in 0..MaxBreaks,
           user' \in User
    PROVE  WritesInv' /\ AskedFrom("initial")
<1>1. /\ queue' \in [User -> Seq(Numbers)] /\ QueueShape' /\ made' \in [User -> 0..MaxWrites]
  BY DEF WritesInv, WritesTyped, QueueShape
<1>2. /\ <<>> \in Seq(Numbers) /\ Len(<<>>) = 0 /\ DOMAIN <<>> = {} /\ Len(<<>>) <= MaxPending
      /\ Len(<<>>) <= Len(queue'[user'])
  <2>1. Len(queue'[user']) \in Nat
    BY <1>1, SeqAt
  <2>2. QED BY <2>1, PipelineAssumption
<1>3. QED BY <1>1, <1>2, AnewStep

\* A stream that moves on without anything on the wire.
LEMMA MovesOnStep ==
    ASSUME WritesInv, stream' \in Streams, stream # "ready", stream' # "ready",
           Needed(stream', pipeline, idle'), idle' \in BOOLEAN,
           UNCHANGED <<user, queue, pipeline, requests, responses, made, taken, refused>>,
           breaks' \in 0..MaxBreaks, restarts' \in 0..MaxRestarts, token' \in User,
           stream' \in {"connecting", "open", "ready"} => token' = user
    PROVE  WritesInv'
<1>1. responses = <<>> /\ requests = <<>>
  BY DEF WritesInv, WireShape, OnTheWire
<1>2. WritesTyped'
  BY DEF WritesInv, WritesTyped
<1>3. QueueShape' /\ PipelineShape'
  BY DEF WritesInv, QueueShape, PipelineShape
<1>4. WireShape' /\ StreamShape'
  BY <1>1 DEF WireShape, OnTheWire, StreamShape
<1>5. TokenRight' /\ Answered'
  BY <1>1 DEF TokenRight, Answered
<1>6. QED BY <1>2, <1>3, <1>4, <1>5 DEF WritesInv

LEMMA BackoffElapsesStep ==
    ASSUME WritesInv, BackoffElapses
    PROVE  WritesInv' /\ AskedFrom("backoff")
<1>1. /\ stream = "backoff" /\ stream' = "starting" /\ closes' = closes
      /\ auth' = Append(auth, [close |-> closes, counter |-> counter])
      /\ UNCHANGED <<user, queue, pipeline, requests, responses, made, taken, refused>>
      /\ UNCHANGED <<token, idle, breaks, restarts>>
  BY DEF BackoffElapses, wire, backend, bounds
<1>2. Needed(stream', pipeline, idle')
  BY <1>1 DEF WritesInv, StreamShape, Needed
<1>3. /\ idle' \in BOOLEAN /\ breaks' \in 0..MaxBreaks /\ restarts' \in 0..MaxRestarts
      /\ token' \in User
  BY <1>1 DEF WritesInv, WritesTyped
<1>4. stream' \in Streams /\ stream # "ready" /\ stream' # "ready"
  BY <1>1 DEF Streams
<1>5. WritesInv'
  BY <1>1, <1>2, <1>3, <1>4, MovesOnStep
<1>6. QED BY <1>1, <1>4, <1>5 DEF AskedFrom

LEMMA StreamOpensStep ==
    ASSUME WritesInv, StreamOpens
    PROVE  WritesInv'
<1>1. /\ stream = "connecting" /\ stream' = "open" /\ idle' = FALSE
      /\ UNCHANGED <<user, queue, pipeline, requests, responses, made, taken, refused>>
      /\ UNCHANGED <<token, breaks, restarts>>
  BY DEF StreamOpens, wire, backend, bounds
<1>2. Needed(stream', pipeline, idle') /\ token = user
  BY <1>1 DEF WritesInv, StreamShape, Needed, TokenRight
<1>3. /\ idle' \in BOOLEAN /\ breaks' \in 0..MaxBreaks /\ restarts' \in 0..MaxRestarts
      /\ token' \in User
  BY <1>1 DEF WritesInv, WritesTyped
<1>4. stream' \in Streams /\ stream # "ready" /\ stream' # "ready"
  BY <1>1 DEF Streams
<1>5. QED BY <1>1, <1>2, <1>3, <1>4, MovesOnStep

LEMMA HandshakeCompleteStep ==
    ASSUME WritesInv, HandshakeComplete
    PROVE  WritesInv'
<1>1. /\ stream = "open" /\ stream' = "ready"
      /\ requests' = requests \o pipeline /\ idle' = (idle /\ pipeline = <<>>)
      /\ UNCHANGED <<user, queue, pipeline, responses, made, taken, refused>>
      /\ UNCHANGED <<token, breaks, restarts>>
  BY DEF HandshakeComplete, wire, backend, bounds
<1>2. /\ responses = <<>> /\ requests = <<>> /\ pipeline \in Seq(Numbers) /\ ~idle /\ token = user
      /\ pipeline # <<>>
  BY <1>1 DEF WritesInv, WritesTyped, WireShape, OnTheWire, StreamShape, Needed, TokenRight
<1>3. requests' = pipeline
  <2>1. <<>> \o pipeline = pipeline
    BY <1>2, ConcatEmptySeq
  <2>2. QED BY <1>1, <1>2, <2>1
<1>4. OnTheWire("ready", pipeline, <<>>, pipeline)
  <2>1. Len(<<>>) = 0 /\ DOMAIN <<>> = {} /\ Len(pipeline) \in Nat
        /\ \A i \in DOMAIN pipeline : i \in Nat
    BY <1>2, SeqAt
  <2>2. QED BY <2>1 DEF OnTheWire
<1>5. WireShape'
  BY <1>1, <1>2, <1>3, <1>4 DEF WireShape
<1>6. StreamShape' /\ idle' = FALSE
  BY <1>1, <1>2 DEF StreamShape, Needed
<1>7. WritesTyped'
  BY <1>1, <1>2, <1>3, <1>6 DEF WritesInv, WritesTyped, Streams
<1>8. QueueShape' /\ PipelineShape'
  BY <1>1 DEF WritesInv, QueueShape, PipelineShape
<1>9. TokenRight' /\ Answered'
  BY <1>1, <1>2 DEF WritesInv, TokenRight, Answered
<1>10. QED BY <1>5, <1>6, <1>7, <1>8, <1>9 DEF WritesInv

\* A stream that is stopped, or an app that is: nothing is on the wire.
LEMMA StopStep ==
    ASSUME WritesInv, stream' \in {"initial", "off"}, idle' = FALSE,
           requests' = <<>>, responses' = <<>>, pipeline' = <<>>,
           UNCHANGED <<user, token, queue, made, taken, refused, breaks>>,
           restarts' \in 0..MaxRestarts
    PROVE  WritesInv'
<1>1. WritesTyped'
  <2>1. Len(<<>>) <= MaxPending /\ <<>> \in Seq(Numbers) /\ <<>> \in Seq(Answer)
    BY PipelineAssumption
  <2>2. QED BY <2>1 DEF WritesInv, WritesTyped, Streams
<1>2. QueueShape'
  BY DEF WritesInv, QueueShape
<1>3. PipelineShape'
  <2>1. queue[user] \in Seq(Numbers)
    BY DEF WritesInv, WritesTyped
  <2>2. Len(queue[user]) \in Nat /\ Len(<<>>) = 0 /\ DOMAIN <<>> = {}
    BY <2>1, SeqAt
  <2>3. QED BY <2>2 DEF PipelineShape
<1>4. WireShape' /\ StreamShape' /\ TokenRight' /\ Answered'
  BY DEF WireShape, OnTheWire, StreamShape, Needed, TokenRight, Answered
<1>5. QED BY <1>1, <1>2, <1>3, <1>4 DEF WritesInv

LEMMA IdleStopStep ==
    ASSUME WritesInv, IdleStop
    PROVE  WritesInv' /\ stream = "ready"
<1>1. /\ idle /\ idle' = FALSE /\ stream' = "initial"
      /\ requests' = <<>> /\ responses' = <<>>
      /\ UNCHANGED <<user, token, queue, pipeline, made, taken, refused, breaks, restarts>>
  BY DEF IdleStop, backend, bounds
<1>2. pipeline = <<>> /\ stream = "ready"
  BY <1>1 DEF WritesInv, StreamShape, Needed
<1>3. restarts' \in 0..MaxRestarts
  BY <1>1 DEF WritesInv, WritesTyped
<1>4. QED BY <1>1, <1>2, <1>3, StopStep

LEMMA KilledStep ==
    ASSUME WritesInv, Killed
    PROVE  WritesInv'
<1>1. restarts' \in 0..MaxRestarts
  <2>1. /\ restarts \in 0..MaxRestarts /\ restarts < MaxRestarts /\ restarts' = restarts + 1
    BY DEF WritesInv, WritesTyped, Killed
  <2>2. QED BY <2>1, PipelineAssumption
<1>2. /\ stream' = "off" /\ idle' = FALSE
      /\ requests' = <<>> /\ responses' = <<>> /\ pipeline' = <<>>
      /\ UNCHANGED <<user, token, queue, made, taken, refused, breaks>>
  BY DEF Killed, backend
<1>3. QED BY <1>1, <1>2, StopStep

LEMMA TokenArrivesStep ==
    ASSUME PipelineInv, TokenArrives
    PROVE  WritesInv'
<1>1. /\ worker # <<>> /\ Head(worker).kind = "token"
      /\ UNCHANGED <<user, queue, pipeline, requests, responses, made, taken, refused>>
      /\ UNCHANGED <<idle, breaks, restarts>>
  BY DEF TokenArrives, backend, bounds
<1>2. CASE ~SameStream(Head(worker)) /\ UNCHANGED <<stream, token>>
  <2>1. WritesTyped' /\ QueueShape' /\ PipelineShape'
    BY <1>1, <1>2 DEF PipelineInv, WritesInv, WritesTyped, QueueShape, PipelineShape
  <2>2. WireShape' /\ StreamShape' /\ TokenRight' /\ Answered'
    BY <1>1, <1>2 DEF PipelineInv, WritesInv, WireShape, StreamShape, TokenRight, Answered
  <2>3. QED BY <2>1, <2>2 DEF WritesInv
<1>3. CASE /\ SameStream(Head(worker))
           /\ stream' = "connecting" /\ token' = Head(worker).user
  <2>1. /\ worker \in Seq(Change \cup TokensSoFar) /\ counter \in Nat /\ closes \in Nat
        /\ OneRequest /\ WorkerTokens
    BY DEF PipelineInv, TokensInv, TokensTyped, NoneFromLater
  <2>2. Head(worker) = worker[1] /\ 1 \in DOMAIN worker /\ Head(worker) \in Change \cup TokensSoFar
    BY <1>1, <2>1, TailAt
  <2>3. Head(worker) \in TokensSoFar
    BY <1>1, <2>2 DEF Change
  <2>4. Head(worker) \in Token /\ Head(worker).user \in User
    BY <2>1, <2>3 DEF Token, TokensSoFar
  <2>5. In(worker, TokensOf(closes))
    BY <1>3, <2>2, <2>4 DEF In, TokensOf, SameStream
  <2>6. stream = "starting"
    BY <2>1, <2>5 DEF OneRequest, Waiting
  <2>7. Leaves(worker, 1, user, Head(worker).user)
    BY <2>1, <2>2, <2>4 DEF WorkerTokens
  <2>8. Head(worker).user = user
    <3>1. DOMAIN worker = 1..Len(worker) /\ Len(worker) \in Nat
      BY <2>1, SeqAt
    <3>2. QED BY <2>7, <3>1 DEF Leaves
  <2>9. Needed(stream', pipeline, idle') /\ idle' \in BOOLEAN
        /\ breaks' \in 0..MaxBreaks /\ restarts' \in 0..MaxRestarts
    BY <1>1, <1>3, <2>6 DEF PipelineInv, WritesInv, WritesTyped, StreamShape, Needed
  <2>10. WritesInv /\ stream' \in Streams /\ stream # "ready" /\ stream' # "ready"
         /\ token' \in User /\ token' = user
    BY <1>3, <2>4, <2>6, <2>8 DEF PipelineInv, Streams
  <2>11. QED BY <1>1, <2>9, <2>10, MovesOnStep
<1>4. QED BY <1>2, <1>3 DEF TokenArrives

\* What the backend sees next is the write after those it has answered.
LEMMA NextOnWire ==
    ASSUME WritesInv, requests # <<>>
    PROVE  /\ stream = "ready" /\ token = user
           /\ Len(responses) \in Nat /\ Len(responses) < Len(pipeline)
           /\ Head(requests) \in Numbers /\ Head(requests) = pipeline[Len(responses) + 1]
           /\ Len(queue[user]) \in Nat /\ Len(responses) < Len(queue[user])
           /\ Head(requests) = (made[user] - Len(queue[user])) + (Len(responses) + 1)
           /\ \A i \in DOMAIN responses :
                 i \in Nat /\ responses[i].write = (made[user] - Len(queue[user])) + i
<1> DEFINE l == Len(pipeline)
           h == Len(responses)
           m == Len(requests)
           q == queue[user]
           n == Len(q)
           b == made[user] - n
<1>1. stream = "ready" /\ token = user
  BY DEF WritesInv, WireShape, OnTheWire, TokenRight
<1>2. /\ pipeline \in Seq(Numbers) /\ responses \in Seq(Answer) /\ requests \in Seq(Numbers)
      /\ q \in Seq(Numbers) /\ user \in User
      /\ l = h + m
      /\ \A i \in DOMAIN responses : responses[i].write = pipeline[i]
      /\ \A i \in DOMAIN requests : requests[i] = pipeline[h + i]
  BY <1>1 DEF WritesInv, WritesTyped, WireShape, OnTheWire
<1>3. /\ l \in Nat /\ h \in Nat /\ m \in Nat /\ n \in Nat /\ m # 0
      /\ DOMAIN responses = 1..h /\ DOMAIN requests = 1..m /\ DOMAIN pipeline = 1..l
      /\ DOMAIN q = 1..n
  BY <1>2, SeqAt
<1>4. Head(requests) = requests[1] /\ Head(requests) \in Numbers /\ 1 \in DOMAIN requests
  BY <1>2, TailAt
<1>5. Head(requests) = pipeline[h + 1]
  BY <1>2, <1>4
<1>6. l <= n /\ (\A i \in 1..l : pipeline[i] = q[i]) /\ (\A i \in 1..n : q[i] = b + i)
  BY <1>2, <1>3 DEF WritesInv, PipelineShape, QueueShape
<1> HIDE DEF l, h, m, q, n, b
<1>7. h < l /\ h < n /\ h + 1 \in 1..l /\ h + 1 \in 1..n
  BY <1>2, <1>3, <1>6
<1>8. Head(requests) = b + (h + 1)
  BY <1>5, <1>6, <1>7
<1>9. \A i \in 1..h : i \in Nat /\ responses[i].write = b + i
  <2>1. \A i \in 1..h : i \in Nat /\ i \in 1..l /\ i \in 1..n
    BY <1>3, <1>7
  <2>2. QED BY <1>2, <1>3, <1>6, <2>1
<1>10. QED BY <1>1, <1>3, <1>4, <1>5, <1>7, <1>8, <1>9 DEF l, h, q, n, b

LEMMA JudgeStep ==
    ASSUME WritesInv, Judge
    PROVE  WritesInv'
<1> DEFINE w == Head(requests)
           h == Len(responses)
           m == Len(requests)
<1>1. PICK ok \in BOOLEAN :
          /\ responses' = Append(responses, [write |-> w, ok |-> ok])
          /\ taken' = IF ok THEN [taken EXCEPT ![token] = @ \cup {w}] ELSE taken
          /\ refused' = IF ok THEN refused ELSE [refused EXCEPT ![token] = @ \cup {w}]
  BY DEF Judge
<1>2. /\ requests # <<>> /\ requests' = Tail(requests)
      /\ UNCHANGED <<user, queue, pipeline, stream, token, idle, made, breaks, restarts>>
  BY DEF Judge, bounds
<1>3. /\ stream = "ready" /\ w \in Numbers /\ w = pipeline[h + 1]
  BY <1>2, NextOnWire
<1> DEFINE r == [write |-> w, ok |-> ok]
           rs == Append(responses, r)
           ts == Tail(requests)
<1>4. /\ responses \in Seq(Answer) /\ requests \in Seq(Numbers) /\ r \in Answer
      /\ r.write = w /\ r.ok = ok /\ token \in User
      /\ taken \in [User -> SUBSET Numbers] /\ refused \in [User -> SUBSET Numbers]
  BY <1>3 DEF WritesInv, WritesTyped, Answer
<1>5. /\ rs \in Seq(Answer) /\ Len(rs) = h + 1 /\ DOMAIN rs = 1..(h + 1)
      /\ \A i \in 1..h : rs[i] = responses[i]
      /\ rs[h + 1] = r /\ h \in Nat /\ DOMAIN responses = 1..h
  BY <1>4, SeqAt, AppendAt
<1>6. /\ ts \in Seq(Numbers) /\ Len(ts) = m - 1 /\ DOMAIN ts = 1..(m - 1)
      /\ \A i \in 1..(m - 1) : ts[i] = requests[i + 1]
      /\ m \in Nat /\ m - 1 \in Nat /\ DOMAIN requests = 1..m
  BY <1>2, <1>4, SeqAt, TailAt
<1>7. /\ Len(pipeline) = h + m
      /\ \A i \in 1..h : responses[i].write = pipeline[i]
      /\ \A i \in 1..m : requests[i] = pipeline[h + i]
  BY <1>3, <1>5, <1>6 DEF WritesInv, WireShape, OnTheWire
<1>8. taken' \in [User -> SUBSET Numbers] /\ refused' \in [User -> SUBSET Numbers]
  BY <1>1, <1>3, <1>4
<1>9. Answered'
  <2>1. /\ \A u \in User : taken[u] \subseteq taken'[u] /\ refused[u] \subseteq refused'[u]
        /\ IF ok THEN w \in taken'[token] ELSE w \in refused'[token]
    BY <1>1, <1>4
  <2>2. \A i \in 1..h :
           rs[i].write \in (IF rs[i].ok THEN taken'[token] ELSE refused'[token])
    BY <1>4, <1>5, <2>1 DEF WritesInv, Answered
  <2>3. rs[h + 1].write \in (IF rs[h + 1].ok THEN taken'[token] ELSE refused'[token])
    BY <1>4, <1>5, <2>1
  <2> HIDE DEF rs, h
  <2>4. \A i \in DOMAIN rs :
           rs[i].write \in (IF rs[i].ok THEN taken'[token] ELSE refused'[token])
    BY <1>5, <2>2, <2>3
  <2>5. responses' = rs
    BY <1>1 DEF rs
  <2>6. QED BY <1>2, <2>4, <2>5 DEF Answered
<1> HIDE DEF r, w, rs, ts, h, m
<1>10. OnTheWire("ready", pipeline, rs, ts)
  <2>1. Len(pipeline) = Len(rs) + Len(ts)
    BY <1>5, <1>6, <1>7
  <2>2. \A i \in 1..(h + 1) : rs[i].write = pipeline[i]
    BY <1>3, <1>4, <1>5, <1>7
  <2>3. \A i \in 1..(m - 1) : i + 1 \in 1..m /\ h + (i + 1) = (h + 1) + i
    BY <1>5, <1>6
  <2>4. \A i \in 1..(m - 1) : ts[i] = pipeline[(h + 1) + i]
    BY <1>6, <1>7, <2>3
  <2>5. QED BY <1>5, <1>6, <2>1, <2>2, <2>4 DEF OnTheWire
<1>11. responses' = rs /\ requests' = ts
  BY <1>1, <1>2 DEF rs, ts, r, w
<1>12. WritesTyped'
  BY <1>2, <1>5, <1>6, <1>8, <1>11 DEF WritesInv, WritesTyped
<1>13. QueueShape' /\ PipelineShape' /\ StreamShape' /\ TokenRight'
  BY <1>2 DEF WritesInv, QueueShape, PipelineShape, StreamShape, TokenRight
<1>14. WireShape'
  BY <1>2, <1>3, <1>10, <1>11 DEF WireShape
<1>15. QED BY <1>9, <1>12, <1>13, <1>14 DEF WritesInv

\* The steps of FIRAuth and of the main queue leave the writes alone.
LEMMA WritesUntouched ==
    ASSUME WritesInv,
           UNCHANGED <<user, token, queue, made, pipeline, stream, idle>>,
           UNCHANGED <<requests, responses, taken, refused, breaks, restarts>>
    PROVE  WritesInv'
<1>1. WritesTyped' /\ QueueShape' /\ PipelineShape'
  BY DEF WritesInv, WritesTyped, QueueShape, PipelineShape
<1>2. WireShape' /\ StreamShape' /\ TokenRight' /\ Answered'
  BY DEF WritesInv, WireShape, StreamShape, TokenRight, Answered
<1>3. QED BY <1>1, <1>2 DEF WritesInv

-----------------------------------------------------------------------------
(* The tokens: what the client's own steps do to them *)

LEMMA TokensTypes ==
    ASSUME TokensInv
    PROVE  /\ auth \in Seq(Ask) /\ refreshing \subseteq Token
           /\ main \in Seq(Change \cup Token) /\ worker \in Seq(Change \cup Token)
           /\ counter \in Nat /\ closes \in Nat /\ authUser \in User
<1>1. counter \in Nat /\ closes \in Nat /\ authUser \in User /\ NoneFromLater
  BY DEF TokensInv, TokensTyped
<1>2. 0..counter \subseteq Nat /\ 0..closes \subseteq Nat
  BY <1>1
<1>3. AskedSoFar \subseteq Ask /\ TokensSoFar \subseteq Token
  BY <1>2 DEF AskedSoFar, TokensSoFar, Ask, Token
<1>4. Change \cup TokensSoFar \subseteq Change \cup Token
  BY <1>3
<1>5. auth \in Seq(Ask)
  BY <1>1, <1>3, SeqMore DEF NoneFromLater
<1>6. main \in Seq(Change \cup Token)
  BY <1>1, <1>4, SeqMore DEF NoneFromLater
<1>7. worker \in Seq(Change \cup Token)
  BY <1>1, <1>4, SeqMore DEF NoneFromLater
<1>8. QED BY <1>1, <1>3, <1>5, <1>6, <1>7 DEF NoneFromLater

\* Nothing is under way for a stream that was not yet closed that often.
LEMMA NothingForNext ==
    ASSUME TokensInv
    PROVE  /\ Alone(auth, refreshing, main, worker, closes + 1)
           /\ ~Waiting(auth, refreshing, main, worker, closes + 1)
<1>1. /\ closes \in Nat /\ NoneFromLater
      /\ \A i \in DOMAIN auth : auth[i] \in AskedSoFar
      /\ \A i \in DOMAIN main : main[i] \in Change \cup TokensSoFar
      /\ \A i \in DOMAIN worker : worker[i] \in Change \cup TokensSoFar
      /\ refreshing \subseteq TokensSoFar
  BY SeqAt DEF TokensInv, TokensTyped, NoneFromLater
<1>2. AskedSoFar \cap AsksOf(closes + 1) = {} /\ TokensSoFar \cap TokensOf(closes + 1) = {}
  BY <1>1 DEF AskedSoFar, AsksOf, TokensSoFar, TokensOf
<1>3. Change \cap TokensOf(closes + 1) = {}
  BY DEF Change, TokensOf, Token
<1>4. /\ ~In(auth, AsksOf(closes + 1)) /\ ~In(main, TokensOf(closes + 1))
      /\ ~In(worker, TokensOf(closes + 1)) /\ refreshing \cap TokensOf(closes + 1) = {}
  BY <1>1, <1>2, <1>3 DEF In
<1>5. /\ Once(auth, AsksOf(closes + 1)) /\ Once(main, TokensOf(closes + 1))
      /\ Once(worker, TokensOf(closes + 1))
  BY <1>4 DEF In, Once
<1>6. QED BY <1>4, <1>5 DEF Alone, Waiting

\* A request that is added is alone if nothing was under way; a task that is
\* done takes its token with it.
LEMMA AloneAfter ==
    ASSUME NEW a \in Seq(Ask), NEW f, NEW m, NEW w \in Seq(Change \cup Token), NEW c,
           NEW x \in Ask, NEW ap, NEW wp,
           wp = w \/ (w # <<>> /\ wp = Tail(w)),
           ap = a \/ (ap = Append(a, x) /\ ~Waiting(a, f, m, w, c)),
           Alone(a, f, m, w, c)
    PROVE  /\ Alone(ap, f, m, wp, c)
           /\ ap = a /\ Waiting(ap, f, m, wp, c) => Waiting(a, f, m, w, c)
           /\ ap = a /\ w # <<>> /\ wp = Tail(w) /\ Head(w) \in TokensOf(c) =>
                 ~Waiting(ap, f, m, wp, c)
<1> DEFINE A == AsksOf(c)
           T == TokensOf(c)
<1>1. /\ In(wp, T) => In(w, T)
      /\ Once(w, T) => Once(wp, T)
      /\ w # <<>> /\ wp = Tail(w) /\ Head(w) \in T => In(w, T) /\ (Once(w, T) => ~In(wp, T))
  <2>1. CASE wp = w /\ ~(w # <<>> /\ wp = Tail(w))
    BY <2>1
  <2>2. CASE w # <<>> /\ wp = Tail(w)
    BY <2>2, InTail
  <2>3. QED BY <2>1, <2>2
<1>2. /\ In(Append(a, x), A) => In(a, A) \/ x \in A
      /\ Once(a, A) /\ ~In(a, A) => Once(Append(a, x), A)
  BY InAppend
<1>3. CASE ap = a
  BY <1>1, <1>3 DEF Alone, Waiting
<1>4. CASE ap = Append(a, x) /\ ~Waiting(a, f, m, w, c)
  <2>1. ap # a
    <3>1. Len(ap) = Len(a) + 1 /\ Len(a) \in Nat
      BY <1>4, SeqAt, AppendAt
    <3>2. QED BY <3>1
  <2>2. Alone(ap, f, m, wp, c)
    BY <1>1, <1>2, <1>4 DEF Alone, Waiting
  <2>3. QED BY <2>1, <2>2
<1>5. QED BY <1>3, <1>4

\* The client goes on with its tasks: the first one is done, or none is.
TaskDone ==
    \/ worker' = worker /\ user' = user
    \/ /\ worker # <<>> /\ worker' = Tail(worker)
       /\ user' = IF Head(worker) \in Change THEN Head(worker).user ELSE user

\* It asks for a token for a stream that did not have a request under way;
\* otherwise a stream that waits goes on to wait, is closed or gets its token.
AskDone ==
    \/ /\ auth' = Append(auth, [close |-> closes', counter |-> counter])
       /\ stream' = "starting"
       /\ closes' = closes + 1 \/ (closes' = closes /\ stream # "starting")
    \/ /\ auth' = auth
       /\ \/ closes' = closes + 1
          \/ closes' = closes /\ (stream # "starting" \/ stream' = "starting")
          \/ /\ closes' = closes /\ worker # <<>> /\ worker' = Tail(worker)
             /\ Head(worker) \in TokensOf(closes)

LEMMA ClientOneRequest ==
    ASSUME TokensInv, worker' = worker \/ (worker # <<>> /\ worker' = Tail(worker)), AskDone,
           UNCHANGED <<refreshing, main, counter>>, stream' # "off"
    PROVE  OneRequest'
<1> DEFINE x == [close |-> closes', counter |-> counter]
<1>1. /\ auth \in Seq(Ask) /\ worker \in Seq(Change \cup Token) /\ OneRequest
      /\ closes \in Nat /\ counter \in Nat
  BY TokensTypes DEF TokensInv
<1>2. closes' \in Nat /\ closes' \in {closes, closes + 1}
  BY <1>1 DEF AskDone
<1>3. x \in Ask
  BY <1>1 DEF Ask, AskDone
<1>4. worker' = worker \/ (worker # <<>> /\ worker' = Tail(worker))
  OBVIOUS
<1>5. SUFFICES /\ Alone(auth', refreshing, main, worker', closes')
               /\ Waiting(auth', refreshing, main, worker', closes') => stream' = "starting"
  BY DEF OneRequest
<1> HIDE DEF x
<1>6. CASE closes' = closes + 1
  <2>1. auth' = auth \/ (auth' = Append(auth, x) /\ stream' = "starting")
    BY DEF AskDone, x
  <2>2. /\ Alone(auth, refreshing, main, worker, closes')
        /\ ~Waiting(auth, refreshing, main, worker, closes')
    BY <1>6, NothingForNext
  <2>3. /\ Alone(auth', refreshing, main, worker', closes')
        /\ auth' = auth => ~Waiting(auth', refreshing, main, worker', closes')
    BY <1>1, <1>3, <1>4, <2>1, <2>2, AloneAfter
  <2>4. QED BY <2>1, <2>3
<1>7. CASE closes' = closes
  <2>1. /\ Alone(auth, refreshing, main, worker, closes)
        /\ Waiting(auth, refreshing, main, worker, closes) => stream = "starting"
    BY <1>1 DEF OneRequest
  <2>2. closes # closes + 1
    BY <1>1
  <2>3. CASE auth' = Append(auth, x) /\ stream' = "starting" /\ stream # "starting"
    <3>1. Alone(auth', refreshing, main, worker', closes)
      BY <1>1, <1>3, <1>4, <2>1, <2>3, AloneAfter
    <3>2. QED BY <1>7, <2>3, <3>1
  <2>4. CASE auth' = auth
    <3>1. /\ Alone(auth', refreshing, main, worker', closes)
          /\ Waiting(auth', refreshing, main, worker', closes)
               => Waiting(auth, refreshing, main, worker, closes)
          /\ worker # <<>> /\ worker' = Tail(worker) /\ Head(worker) \in TokensOf(closes)
               => ~Waiting(auth', refreshing, main, worker', closes)
      BY <1>1, <1>3, <1>4, <2>1, <2>4, AloneAfter
    <3>2. \/ stream # "starting" \/ stream' = "starting"
          \/ worker # <<>> /\ worker' = Tail(worker) /\ Head(worker) \in TokensOf(closes)
      <4>1. auth' # Append(auth, x)
        <5>1. Len(Append(auth, x)) = Len(auth) + 1 /\ Len(auth) \in Nat
          BY <1>1, <1>3, SeqAt, AppendAt
        <5>2. QED BY <2>4, <5>1
      <4>2. \/ closes' = closes + 1
            \/ closes' = closes /\ (stream # "starting" \/ stream' = "starting")
            \/ /\ closes' = closes /\ worker # <<>> /\ worker' = Tail(worker)
               /\ Head(worker) \in TokensOf(closes)
        BY <4>1, Zenon DEF AskDone, x
      <4>3. QED BY <1>7, <2>2, <4>2
    <3>3. QED BY <1>7, <2>1, <3>1, <3>2
  <2>5. QED BY <1>7, <2>2, <2>3, <2>4 DEF AskDone, x
<1>8. QED BY <1>2, <1>6, <1>7

\* What the tasks announce, and the user of each token among them, stays.
LEMMA ClientUsers ==
    ASSUME TokensInv, TaskDone, UNCHANGED <<authUser, refreshing, main, counter>>,
           stream # "off", stream' # "off"
    PROVE  AuthAhead' /\ FreshTokens' /\ WorkerTokens'
<1> DEFINE n == Len(worker)
<1>1. worker \in Seq(Change \cup Token) /\ AuthAhead /\ FreshTokens /\ WorkerTokens
  BY TokensTypes DEF TokensInv
<1>2. n \in Nat /\ DOMAIN worker = 1..n /\ (worker = <<>> <=> n = 0)
  BY <1>1, SeqAt
<1>3. CASE worker' = worker /\ user' = user
  <2>1. \A u : Announces(u) <=> Announces(u)'
    BY <1>3 DEF Announces
  <2>2. AuthAhead' /\ FreshTokens'
    BY <1>1, <2>1 DEF AuthAhead, FreshTokens
  <2>3. WorkerTokens'
    BY <1>1, <1>3 DEF WorkerTokens
  <2>4. QED BY <2>2, <2>3
<1>4. CASE /\ worker # <<>> /\ worker' = Tail(worker)
           /\ user' = IF Head(worker) \in Change THEN Head(worker).user ELSE user
  <2>1. /\ Len(Tail(worker)) = n - 1 /\ DOMAIN Tail(worker) = 1..(n - 1)
        /\ \A i \in 1..(n - 1) : Tail(worker)[i] = worker[i + 1] /\ i + 1 \in DOMAIN worker
    BY <1>1, <1>4, TailAt
  <2>2. \A i \in 1..n : \A u : Leaves(worker, i + 1, user, u) => Leaves(Tail(worker), i, user', u)
    BY <1>1, <1>4, LeavesTail
  <2>3. n \in 1..n /\ (n - 1) + 1 = n /\ (\A i \in 1..(n - 1) : i \in 1..n)
    <3> HIDE DEF n
    <3>1. QED BY <1>2, <1>4
  <2> HIDE DEF n
  <2>4. \A u : Announces(u) => Announces(u)'
    <3>1. SUFFICES ASSUME NEW u, Leaves(worker, n + 1, user, u)
                   PROVE  Leaves(Tail(worker), n, user', u)
      BY <1>4, <2>1, <2>3 DEF Announces, n
    <3>2. QED BY <2>2, <2>3, <3>1
  <2>5. AuthAhead' /\ FreshTokens'
    BY <1>1, <2>4 DEF AuthAhead, FreshTokens
  <2>6. WorkerTokens'
    <3>1. \A i \in 1..(n - 1) : Tail(worker)[i] \in Token =>
             Leaves(Tail(worker), i, user', Tail(worker)[i].user)
      BY <1>1, <2>1, <2>2, <2>3 DEF WorkerTokens
    <3>2. QED BY <1>4, <2>1, <3>1 DEF WorkerTokens
  <2>7. QED BY <2>5, <2>6
<1>5. QED BY <1>3, <1>4 DEF TaskDone

LEMMA ClientRest ==
    ASSUME TokensInv, worker' = worker \/ (worker # <<>> /\ worker' = Tail(worker)), AskDone,
           UNCHANGED <<authUser, refreshing, main, counter, switches>>, stream' # "off"
    PROVE  TokensTyped' /\ NoneFromLater' /\ ChangesCounted' /\ OneRequest'
<1>1. OneRequest'
  BY ClientOneRequest
<1>2. /\ closes \in Nat /\ counter \in Nat /\ NoneFromLater /\ closes' \in {closes, closes + 1}
  BY DEF TokensInv, TokensTyped, AskDone
<1>3. closes' \in Nat /\ 0..closes \subseteq 0..closes' /\ closes' \in 0..closes' /\ counter \in 0..counter
  BY <1>2
<1>4. TokensTyped'
  BY <1>3 DEF TokensInv, TokensTyped
<1>5. ChangesCounted'
  BY DEF TokensInv, ChangesCounted, Changes
<1> DEFINE A == AskedSoFar'
           T == TokensSoFar'
<1>6. /\ AskedSoFar \subseteq A /\ TokensSoFar \subseteq T
      /\ [close |-> closes', counter |-> counter] \in A
  BY <1>3 DEF AskedSoFar, TokensSoFar
<1> HIDE DEF A, T
<1>7. auth' \in Seq(A)
  <2>1. auth \in Seq(A)
    BY <1>2, <1>6, SeqMore DEF NoneFromLater
  <2>2. QED BY <1>6, <2>1, AppendAt DEF AskDone
<1>8. Change \cup TokensSoFar \subseteq Change \cup T
  BY <1>6
<1>9. main \in Seq(Change \cup T)
  BY <1>2, <1>8, SeqMore DEF NoneFromLater
<1>10. worker' \in Seq(Change \cup T)
  <2>1. worker \in Seq(Change \cup T)
    BY <1>2, <1>8, SeqMore DEF NoneFromLater
  <2>2. QED BY <2>1, TailAt
<1>11. NoneFromLater'
  BY <1>2, <1>6, <1>7, <1>9, <1>10 DEF NoneFromLater, A, T
<1>12. QED BY <1>1, <1>4, <1>5, <1>11

LEMMA ClientTokens ==
    ASSUME TokensInv, TaskDone, AskDone,
           UNCHANGED <<authUser, refreshing, main, counter, switches>>,
           stream # "off", stream' # "off"
    PROVE  TokensInv'
<1>1. AuthAhead' /\ FreshTokens' /\ WorkerTokens'
  BY ClientUsers
<1>2. worker' = worker \/ (worker # <<>> /\ worker' = Tail(worker))
  BY DEF TaskDone
<1>3. TokensTyped' /\ NoneFromLater' /\ ChangesCounted' /\ OneRequest'
  BY <1>2, ClientRest
<1>4. QED BY <1>1, <1>3 DEF TokensInv

-----------------------------------------------------------------------------
(* The tokens: FIRAuth's steps and the main queue's *)

LEMMA ApartAreChanges ==
    /\ Change \cap Token = {}
    /\ \A c : Change \cap TokensOf(c) = {} /\ TokensOf(c) \subseteq Token
  BY DEF Change, Token, TokensOf

\* What is the first in a queue after its first entry, which changes no user.
LEMMA FirstIsNoChange ==
    ASSUME NEW S, NEW s \in Seq(S), s # <<>>, Head(s) \notin Change
    PROVE  /\ ~In(Tail(s), Change) => ~In(s, Change)
           /\ \A i \in DOMAIN Tail(s) :
                 /\ i + 1 \in DOMAIN s /\ s[i + 1] = Tail(s)[i]
                 /\ (\A j \in DOMAIN Tail(s) : j < i => Tail(s)[j] \notin Change) =>
                       \A j \in DOMAIN s : j < i + 1 => s[j] \notin Change
<1> DEFINE n == Len(s)
           r == Tail(s)
<1>1. n \in Nat /\ DOMAIN s = 1..n /\ DOMAIN r = 1..(n - 1)
  BY SeqAt, TailAt
<1>2. s[1] \notin Change /\ \A i \in 1..(n - 1) : r[i] = s[i + 1] /\ i + 1 \in DOMAIN s
  BY TailAt
<1> HIDE DEF n, r
<1>3. \A j \in 1..n : j = 1 \/ (j - 1 \in 1..(n - 1) /\ r[j - 1] = s[j])
  <2>1. SUFFICES ASSUME NEW j \in 1..n, j # 1
                 PROVE  j - 1 \in 1..(n - 1) /\ r[j - 1] = s[j]
    OBVIOUS
  <2>2. j - 1 \in 1..(n - 1) /\ (j - 1) + 1 = j
    BY <1>1, <2>1
  <2>3. QED BY <1>2, <2>2
<1>4. ~In(r, Change) => ~In(s, Change)
  BY <1>1, <1>2, <1>3 DEF In
<1>5. ASSUME NEW i \in 1..(n - 1), \A j \in 1..(n - 1) : j < i => r[j] \notin Change,
             NEW j \in 1..n, j < i + 1
      PROVE  s[j] \notin Change
  <2>1. CASE j = 1
    BY <1>2, <2>1
  <2>2. CASE j # 1
    <3>1. j - 1 \in 1..(n - 1) /\ r[j - 1] = s[j]
      BY <1>3, <2>2
    <3>2. j - 1 < i
      BY <1>1, <1>5
    <3>3. QED BY <1>5, <3>1, <3>2
  <2>3. QED BY <2>1, <2>2
<1>6. QED BY <1>1, <1>2, <1>4, <1>5 DEF r

\* Requests and tokens move on one place at a time, and stay alone.
LEMMA AloneMoves ==
    ASSUME NEW a \in Seq(Ask), NEW f \in SUBSET Token, NEW m \in Seq(Change \cup Token),
           NEW w \in Seq(Change \cup Token), NEW c, Alone(a, f, m, w, c)
    PROVE  /\ \A t \in Token : a # <<>> /\ t.close = Head(a).close =>
                 /\ Alone(Tail(a), f, Append(m, t), w, c) /\ Alone(Tail(a), f \cup {t}, m, w, c)
                 /\ \/ Waiting(Tail(a), f, Append(m, t), w, c)
                    \/ Waiting(Tail(a), f \cup {t}, m, w, c)
                    => Waiting(a, f, m, w, c)
           /\ \A t \in f :
                 /\ Alone(a, f \ {t}, Append(m, t), w, c)
                 /\ Waiting(a, f \ {t}, Append(m, t), w, c) => Waiting(a, f, m, w, c)
           /\ m # <<>> =>
                 /\ Alone(a, f, Tail(m), Append(w, Head(m)), c)
                 /\ Waiting(a, f, Tail(m), Append(w, Head(m)), c) => Waiting(a, f, m, w, c)
           /\ \A x \in Ask : m # <<>> /\ Head(m) \in Token /\ x.close = Head(m).close =>
                 /\ Alone(Append(a, x), f, Tail(m), w, c)
                 /\ Waiting(Append(a, x), f, Tail(m), w, c) => Waiting(a, f, m, w, c)
           /\ \A x \in Change :
                 /\ Alone(a, f, Append(m, x), w, c)
                 /\ Waiting(a, f, Append(m, x), w, c) => Waiting(a, f, m, w, c)
<1> DEFINE A == AsksOf(c)
           T == TokensOf(c)
<1>1. /\ \A t \in Token : t \in T <=> t.close = c
      /\ \A x \in Ask : x \in A <=> x.close = c
      /\ \A x \in Change : x \notin T
  BY ApartAreChanges DEF AsksOf, TokensOf
<1>2. a # <<>> =>
         /\ Head(a) \in Ask /\ (In(Tail(a), A) => In(a, A)) /\ (Head(a) \in A => In(a, A))
         /\ Once(a, A) => Once(Tail(a), A)
         /\ Once(a, A) /\ Head(a) \in A => ~In(Tail(a), A)
  BY InTail, TailAt
<1>3. m # <<>> =>
         /\ Head(m) \in Change \cup Token /\ (In(Tail(m), T) => In(m, T)) /\ (Head(m) \in T => In(m, T))
         /\ Once(m, T) => Once(Tail(m), T)
         /\ Once(m, T) /\ Head(m) \in T => ~In(Tail(m), T)
  BY InTail, TailAt
<1>4. \A t \in Change \cup Token :
         /\ In(Append(m, t), T) <=> In(m, T) \/ t \in T
         /\ Once(m, T) /\ ~(In(m, T) /\ t \in T) => Once(Append(m, t), T)
  BY InAppend
<1>5. \A t \in Change \cup Token :
         /\ In(Append(w, t), T) <=> In(w, T) \/ t \in T
         /\ Once(w, T) /\ ~(In(w, T) /\ t \in T) => Once(Append(w, t), T)
  BY InAppend
<1>6. \A x \in Ask :
         /\ In(Append(a, x), A) <=> In(a, A) \/ x \in A
         /\ Once(a, A) /\ ~(In(a, A) /\ x \in A) => Once(Append(a, x), A)
  BY InAppend
<1>7. /\ Once(a, A) /\ Once(m, T) /\ Once(w, T)
      /\ \A t, v \in f \cap T : t = v
      /\ In(a, A) => ~In(m, T) /\ ~In(w, T) /\ f \cap T = {}
      /\ In(m, T) => ~In(w, T) /\ f \cap T = {}
      /\ In(w, T) => f \cap T = {}
  BY DEF Alone
<1> HIDE DEF A, T
<1>8. ASSUME NEW t \in Token, a # <<>>, t.close = Head(a).close
      PROVE  /\ Alone(Tail(a), f, Append(m, t), w, c) /\ Alone(Tail(a), f \cup {t}, m, w, c)
             /\ \/ Waiting(Tail(a), f, Append(m, t), w, c)
                \/ Waiting(Tail(a), f \cup {t}, m, w, c)
                => Waiting(a, f, m, w, c)
  <2>1. t \in T <=> Head(a) \in A
    BY <1>1, <1>2, <1>8
  <2>2. Alone(Tail(a), f, Append(m, t), w, c)
    BY <1>2, <1>4, <1>7, <1>8, <2>1 DEF Alone, A, T
  <2>3. Alone(Tail(a), f \cup {t}, m, w, c)
    BY <1>2, <1>7, <1>8, <2>1 DEF Alone, A, T
  <2>4. \/ Waiting(Tail(a), f, Append(m, t), w, c)
        \/ Waiting(Tail(a), f \cup {t}, m, w, c)
        => Waiting(a, f, m, w, c)
    BY <1>2, <1>4, <1>8, <2>1 DEF Waiting, A, T
  <2>5. QED BY <2>2, <2>3, <2>4
<1>9. ASSUME NEW t \in f
      PROVE  /\ Alone(a, f \ {t}, Append(m, t), w, c)
             /\ Waiting(a, f \ {t}, Append(m, t), w, c) => Waiting(a, f, m, w, c)
  BY <1>4, <1>7 DEF Alone, Waiting, A, T
<1>10. ASSUME m # <<>>
       PROVE  /\ Alone(a, f, Tail(m), Append(w, Head(m)), c)
              /\ Waiting(a, f, Tail(m), Append(w, Head(m)), c) => Waiting(a, f, m, w, c)
  BY <1>3, <1>5, <1>7, <1>10 DEF Alone, Waiting, A, T
<1>11. ASSUME NEW x \in Ask, m # <<>>, Head(m) \in Token, x.close = Head(m).close
       PROVE  /\ Alone(Append(a, x), f, Tail(m), w, c)
              /\ Waiting(Append(a, x), f, Tail(m), w, c) => Waiting(a, f, m, w, c)
  <2>1. x \in A <=> Head(m) \in T
    BY <1>1, <1>11
  <2>2. QED BY <1>3, <1>6, <1>7, <1>11, <2>1 DEF Alone, Waiting, A, T
<1>12. ASSUME NEW x \in Change
       PROVE  /\ Alone(a, f, Append(m, x), w, c)
              /\ Waiting(a, f, Append(m, x), w, c) => Waiting(a, f, m, w, c)
  BY <1>1, <1>4, <1>7 DEF Alone, Waiting, A, T
<1>13. QED BY <1>8, <1>9, <1>10, <1>11, <1>12

\* Whatever user a queue starts with, its changes leave it to be some user.
LEMMA LeavesFrom ==
    ASSUME NEW s, NEW i, NEW v, NEW u, NEW w, Leaves(s, i, v, u)
    PROVE  Leaves(s, i, w, u) \/ Leaves(s, i, w, w)
  BY DEF Leaves

LEMMA AuthChangesTokens ==
    ASSUME TokensInv, NEW u \in User, AuthChanges(u)
    PROVE  TokensInv'
<1> DEFINE x == [kind |-> "user", user |-> u]
           n == Len(main)
           mp == Append(main, x)
<1>1. /\ authUser' = u /\ main' = mp /\ switches' = switches + 1 /\ switches < MaxSwitches
      /\ UNCHANGED <<auth, refreshing, counter, worker, user, stream, closes>>
  BY DEF AuthChanges
<1>2. /\ auth \in Seq(Ask) /\ refreshing \subseteq Token /\ main \in Seq(Change \cup Token)
      /\ worker \in Seq(Change \cup Token)
  BY TokensTypes
<1>3. /\ TokensTyped /\ NoneFromLater /\ ChangesCounted /\ OneRequest /\ AuthAhead
      /\ FreshTokens /\ WorkerTokens
  BY DEF TokensInv
<1>4. x \in Change /\ x.user = u /\ x \notin Token
  BY ApartAreChanges DEF Change
<1>5. /\ n \in Nat /\ Len(mp) = n + 1 /\ DOMAIN mp = 1..(n + 1) /\ DOMAIN main = 1..n
      /\ mp[n + 1] = x /\ \A i \in 1..n : mp[i] = main[i]
  BY <1>2, <1>4, SeqAt, AppendAt
<1> HIDE DEF x, n, mp
<1>6. TokensTyped'
  BY <1>1, <1>3, PipelineAssumption DEF TokensTyped
<1>7. NoneFromLater'
  <2>1. mp \in Seq(Change \cup TokensSoFar)
    BY <1>3, <1>4, AppendAt DEF NoneFromLater, mp
  <2>2. QED BY <1>1, <1>3, <2>1 DEF NoneFromLater, AskedSoFar, TokensSoFar
<1>8. ChangesCounted'
  <2>1. Cardinality(Changes(mp)) = Cardinality(Changes(main)) + 1 /\ Cardinality(Changes(main)) \in Nat
    BY <1>2, <1>4, ChangesAppend DEF mp
  <2>2. switches \in Nat /\ counter \in Nat /\ counter + Cardinality(Changes(main)) <= switches
    BY <1>3, PipelineAssumption DEF TokensTyped, ChangesCounted
  <2>3. counter + Cardinality(Changes(mp)) <= switches + 1
    BY <2>1, <2>2
  <2>4. QED BY <1>1, <2>3 DEF ChangesCounted
<1>9. OneRequest'
  <2>1. /\ Alone(auth, refreshing, mp, worker, closes)
        /\ Waiting(auth, refreshing, mp, worker, closes) => Waiting(auth, refreshing, main, worker, closes)
    BY <1>2, <1>3, <1>4, AloneMoves DEF OneRequest, mp
  <2>2. In(mp, Token) => In(main, Token)
    BY <1>2, <1>4, InAppend DEF mp
  <2>3. QED BY <1>1, <1>3, <2>1, <2>2 DEF OneRequest
<1>10. AuthAhead'
  <2>1. \A v : Leaves(mp, n + 2, v, u)
    BY <1>2, <1>4, LeavesAppend DEF mp, n
  <2>2. PICK v \in User : Announces(v)
    BY <1>3 DEF AuthAhead
  <2>3. \E w \in User : Announces(w)'
    <3>1. CASE stream = "off"
      <4>1. Leaves(worker, Len(worker) + 1, u, v) \/ Leaves(worker, Len(worker) + 1, u, u)
        BY <2>2, <3>1, LeavesFrom DEF Announces
      <4>2. Announces(v)' \/ Announces(u)'
        BY <1>1, <3>1, <4>1 DEF Announces
      <4>3. QED BY <4>2
    <3>2. CASE stream # "off"
      <4>1. Announces(v)'
        BY <1>1, <2>2, <3>2 DEF Announces
      <4>2. QED BY <4>1
    <3>3. QED BY <3>1, <3>2
  <2>4. Len(mp) + 1 = n + 2
    BY <1>5
  <2>5. QED BY <1>1, <2>1, <2>3, <2>4 DEF AuthAhead
<1>11. FreshTokens'
  <2>1. In(mp, Change)
    BY <1>4, <1>5 DEF In
  <2>2. ASSUME NEW i \in DOMAIN mp, mp[i] \in Token, mp[i].counter = counter,
               \A j \in DOMAIN mp : j < i => mp[j] \notin Change
        PROVE  stream # "off" /\ Announces(mp[i].user)
    <3>1. i \in 1..n /\ mp[i] = main[i] /\ i \in DOMAIN main
      BY <1>4, <1>5, <2>2
    <3>2. \A j \in DOMAIN main : j < i => main[j] \notin Change
      BY <1>5, <2>2
    <3>3. Announces(main[i].user)
      BY <1>3, <2>2, <3>1, <3>2 DEF FreshTokens
    <3>4. stream # "off"
      BY <1>3, <2>2, <3>1 DEF OneRequest, In
    <3>5. QED BY <3>1, <3>3, <3>4
  <2>3. stream # "off" => \A v : Announces(v) <=> Announces(v)'
    BY <1>1 DEF Announces
  <2>4. QED BY <1>1, <2>1, <2>2, <2>3 DEF FreshTokens
<1>12. WorkerTokens'
  BY <1>1, <1>3 DEF WorkerTokens
<1>13. QED BY <1>6, <1>7, <1>8, <1>9, <1>10, <1>11, <1>12 DEF TokensInv

\* A token at the end of the main queue: it is fresh if it was when it came.
LEMMA TokenAppended ==
    ASSUME TokensInv, NEW t \in TokensSoFar, main' = Append(main, t),
           t.counter = counter /\ ~In(main, Change) => Announces(t.user),
           refreshing' \subseteq refreshing,
           UNCHANGED <<authUser, counter, worker, user, stream, closes, switches>>
    PROVE  /\ AuthAhead' /\ FreshTokens' /\ WorkerTokens' /\ ChangesCounted'
           /\ main' \in Seq(Change \cup TokensSoFar)
<1> DEFINE n == Len(main)
           mp == Append(main, t)
<1>1. /\ main \in Seq(Change \cup Token) /\ main \in Seq(Change \cup TokensSoFar)
      /\ ChangesCounted /\ AuthAhead /\ FreshTokens /\ WorkerTokens /\ counter \in Nat
      /\ closes \in Nat
  BY TokensTypes DEF TokensInv, NoneFromLater
<1>2. t \in Token /\ t \notin Change
  <2>1. t \in Token
    BY <1>1 DEF TokensSoFar, Token
  <2>2. QED BY <2>1, ApartAreChanges
<1>3. /\ n \in Nat /\ Len(mp) = n + 1 /\ DOMAIN mp = 1..(n + 1) /\ DOMAIN main = 1..n
      /\ mp[n + 1] = t /\ \A i \in 1..n : mp[i] = main[i]
  BY <1>1, <1>2, SeqAt, AppendAt
<1>4. mp \in Seq(Change \cup TokensSoFar)
  BY <1>1, AppendAt
<1>5. Cardinality(Changes(mp)) = Cardinality(Changes(main)) + 0 /\ Cardinality(Changes(main)) \in Nat
  BY <1>1, <1>2, ChangesAppend
<1>6. \A v, u : Leaves(mp, n + 2, v, u) = Leaves(main, n + 1, v, u)
  BY <1>1, <1>2, LeavesAppend
<1>7. \A u : Announces(u) <=> Announces(u)'
  BY DEF Announces
<1>8. In(main, Change) <=> In(mp, Change)
  BY <1>1, <1>2, InAppend
<1> HIDE DEF n, mp
<1>9. AuthAhead'
  <2>1. Len(mp) + 1 = n + 2
    BY <1>3
  <2>2. PICK u \in User : Announces(u) /\ Leaves(main, n + 1, u, authUser)
    BY <1>1 DEF AuthAhead, n
  <2>3. Leaves(mp, Len(mp) + 1, u, authUser)
    BY <1>6, <2>1, <2>2
  <2>4. Announces(u)'
    BY <1>7, <2>2
  <2>5. QED BY <2>3, <2>4 DEF AuthAhead, mp
<1>10. FreshTokens'
  <2>1. ASSUME NEW i \in DOMAIN mp, mp[i] \in Token, mp[i].counter = counter,
               \A j \in DOMAIN mp : j < i => mp[j] \notin Change
        PROVE  Announces(mp[i].user)
    <3>1. CASE i = n + 1
      <4>1. ~In(main, Change)
        BY <1>3, <2>1, <3>1 DEF In
      <4>2. QED BY <1>3, <2>1, <3>1, <4>1
    <3>2. CASE i # n + 1
      <4>1. i \in DOMAIN main /\ mp[i] = main[i]
        BY <1>3, <3>2
      <4>2. \A j \in DOMAIN main : j < i => main[j] \notin Change
        BY <1>3, <2>1
      <4>3. QED BY <1>1, <2>1, <4>1, <4>2 DEF FreshTokens
    <3>3. QED BY <3>1, <3>2
  <2>2. \A v \in refreshing' : v.counter = counter /\ ~In(mp, Change) => Announces(v.user)
    BY <1>1, <1>8 DEF FreshTokens
  <2>3. QED BY <1>7, <2>1, <2>2 DEF FreshTokens, mp
<1>11. WorkerTokens'
  BY <1>1 DEF WorkerTokens
<1>12. ChangesCounted'
  BY <1>1, <1>5 DEF ChangesCounted, mp
<1>13. QED BY <1>4, <1>9, <1>10, <1>11, <1>12 DEF mp

LEMMA TokenAskedTokens ==
    ASSUME TokensInv, TokenAsked
    PROVE  TokensInv'
<1> DEFINE a == Head(auth)
<1>1. PICK t : /\ t = [kind |-> "token", user |-> authUser, close |-> a.close, counter |-> a.counter]
               /\ \/ main' = Append(main, t) /\ refreshing' = refreshing
                  \/ refreshing' = refreshing \cup {t} /\ main' = main
  BY DEF TokenAsked
<1>2. /\ auth # <<>> /\ auth' = Tail(auth)
      /\ UNCHANGED <<authUser, counter, worker, user, stream, closes, switches>>
  BY DEF TokenAsked, bounds
<1>3. /\ auth \in Seq(Ask) /\ refreshing \subseteq Token /\ main \in Seq(Change \cup Token)
      /\ worker \in Seq(Change \cup Token) /\ authUser \in User /\ closes \in Nat /\ counter \in Nat
  BY TokensTypes
<1>4. /\ TokensTyped /\ NoneFromLater /\ ChangesCounted /\ OneRequest /\ AuthAhead
      /\ FreshTokens /\ WorkerTokens
  BY DEF TokensInv
<1>5. a \in AskedSoFar /\ Tail(auth) \in Seq(AskedSoFar)
  BY <1>2, <1>4, TailAt DEF NoneFromLater
<1>6. t \in TokensSoFar /\ t \in Token /\ t.close = a.close /\ t.user = authUser
  <2>1. t \in TokensSoFar /\ t.close = a.close /\ t.user = authUser
    BY <1>1, <1>3, <1>5 DEF TokensSoFar, AskedSoFar
  <2>2. QED BY <1>3, <2>1 DEF TokensSoFar, Token
<1>7. ~In(main, Change) => Announces(t.user)
  <2>1. SUFFICES ASSUME ~In(main, Change)
                 PROVE  Announces(authUser)
    BY <1>6
  <2>2. PICK u \in User : Announces(u) /\ Leaves(main, Len(main) + 1, u, authUser)
    BY <1>4 DEF AuthAhead
  <2>3. u = authUser
    BY <2>1, <2>2 DEF Leaves, In
  <2>4. QED BY <2>2, <2>3
<1>8. /\ Alone(Tail(auth), refreshing, Append(main, t), worker, closes)
      /\ Alone(Tail(auth), refreshing \cup {t}, main, worker, closes)
      /\ \/ Waiting(Tail(auth), refreshing, Append(main, t), worker, closes)
         \/ Waiting(Tail(auth), refreshing \cup {t}, main, worker, closes)
         => Waiting(auth, refreshing, main, worker, closes)
  BY <1>2, <1>3, <1>4, <1>6, AloneMoves DEF OneRequest
<1>9. stream # "off"
  BY <1>2, <1>4 DEF OneRequest
<1>10. OneRequest'
  BY <1>1, <1>2, <1>4, <1>8, <1>9 DEF OneRequest
<1>11. TokensTyped'
  BY <1>2, <1>4 DEF TokensTyped
<1> HIDE DEF a
<1>12. CASE main' = Append(main, t) /\ refreshing' = refreshing
  <2>1. /\ AuthAhead' /\ FreshTokens' /\ WorkerTokens' /\ ChangesCounted'
        /\ main' \in Seq(Change \cup TokensSoFar)
    BY <1>2, <1>6, <1>7, <1>12, TokenAppended
  <2>2. NoneFromLater'
    BY <1>2, <1>4, <1>5, <1>12, <2>1 DEF NoneFromLater, AskedSoFar, TokensSoFar
  <2>3. QED BY <1>10, <1>11, <2>1, <2>2 DEF TokensInv
<1>13. CASE refreshing' = refreshing \cup {t} /\ main' = main
  <2>1. NoneFromLater'
    BY <1>2, <1>4, <1>5, <1>6, <1>13 DEF NoneFromLater, AskedSoFar, TokensSoFar
  <2>2. ChangesCounted' /\ WorkerTokens'
    BY <1>2, <1>4, <1>13 DEF ChangesCounted, Changes, WorkerTokens
  <2>3. \A u : Announces(u) <=> Announces(u)'
    BY <1>2 DEF Announces
  <2>4. AuthAhead'
    BY <1>2, <1>4, <1>13, <2>3 DEF AuthAhead
  <2>5. FreshTokens'
    BY <1>2, <1>4, <1>7, <1>13, <2>3 DEF FreshTokens
  <2>6. QED BY <1>10, <1>11, <2>1, <2>2, <2>4, <2>5 DEF TokensInv
<1>14. QED BY <1>1, <1>12, <1>13

LEMMA TokenRefreshedTokens ==
    ASSUME TokensInv, TokenRefreshed
    PROVE  TokensInv'
<1>1. PICK t \in refreshing : refreshing' = refreshing \ {t} /\ main' = Append(main, t)
  BY DEF TokenRefreshed
<1>2. UNCHANGED <<auth, authUser, counter, worker, user, stream, closes, switches>>
  BY DEF TokenRefreshed, bounds
<1>3. /\ auth \in Seq(Ask) /\ refreshing \subseteq Token /\ main \in Seq(Change \cup Token)
      /\ worker \in Seq(Change \cup Token)
  BY TokensTypes
<1>4. /\ TokensTyped /\ NoneFromLater /\ OneRequest /\ FreshTokens
  BY DEF TokensInv
<1>5. t \in TokensSoFar /\ (t.counter = counter /\ ~In(main, Change) => Announces(t.user))
  BY <1>4 DEF NoneFromLater, FreshTokens
<1>6. /\ AuthAhead' /\ FreshTokens' /\ WorkerTokens' /\ ChangesCounted'
      /\ main' \in Seq(Change \cup TokensSoFar)
  BY <1>1, <1>2, <1>5, TokenAppended
<1>7. /\ Alone(auth, refreshing \ {t}, Append(main, t), worker, closes)
      /\ Waiting(auth, refreshing \ {t}, Append(main, t), worker, closes)
            => Waiting(auth, refreshing, main, worker, closes)
  BY <1>3, <1>4, AloneMoves DEF OneRequest
<1>8. OneRequest'
  BY <1>1, <1>2, <1>4, <1>7 DEF OneRequest
<1>9. TokensTyped'
  BY <1>2, <1>4 DEF TokensTyped
<1>10. NoneFromLater'
  BY <1>1, <1>2, <1>4, <1>6 DEF NoneFromLater, AskedSoFar, TokensSoFar
<1>11. QED BY <1>6, <1>8, <1>9, <1>10 DEF TokensInv

\* A change of user comes to the client: tokens asked for before it are stale.
LEMMA ChangeAnnounced ==
    ASSUME TokensInv, main # <<>>, main' = Tail(main), Head(main).kind = "user",
           counter' = counter + 1, worker' = Append(worker, Head(main)),
           UNCHANGED <<auth, authUser, refreshing, user, stream, closes, switches>>
    PROVE  TokensInv'
<1> DEFINE m == Head(main)
           n == Len(main)
           k == Len(worker)
<1>1. /\ auth \in Seq(Ask) /\ refreshing \subseteq Token /\ main \in Seq(Change \cup Token)
      /\ worker \in Seq(Change \cup Token) /\ counter \in Nat /\ closes \in Nat
  BY TokensTypes
<1>2. /\ TokensTyped /\ NoneFromLater /\ ChangesCounted /\ OneRequest /\ AuthAhead
      /\ FreshTokens /\ WorkerTokens
  BY DEF TokensInv
<1>3. m \in Change /\ m.user \in User /\ m \notin Token
  <2>1. m \in Change \cup Token /\ m.kind = "user"
    BY <1>1, TailAt
  <2>2. m \in Change /\ m \notin Token
    BY <2>1 DEF Token
  <2>3. QED BY <2>2 DEF Change
<1>4. /\ n \in Nat /\ n - 1 \in Nat /\ Len(Tail(main)) = n - 1 /\ n \in 1..n
      /\ Tail(main) \in Seq(Change \cup TokensSoFar)
  <2>1. n \in Nat /\ n - 1 \in Nat /\ Len(Tail(main)) = n - 1
    BY <1>1, SeqAt, TailAt
  <2>2. Tail(main) \in Seq(Change \cup TokensSoFar)
    BY <1>2, TailAt DEF NoneFromLater
  <2> HIDE DEF n
  <2>3. QED BY <2>1, <2>2
<1>5. /\ k \in Nat /\ DOMAIN worker = 1..k /\ Len(Append(worker, m)) = k + 1
      /\ DOMAIN Append(worker, m) = 1..(k + 1)
      /\ Append(worker, m)[k + 1] = m /\ \A i \in 1..k : Append(worker, m)[i] = worker[i]
  BY <1>1, <1>3, SeqAt, AppendAt
<1> HIDE DEF n, k, m
<1>6. TokensTyped' /\ 0..counter \subseteq 0..counter' /\ counter' \notin 0..counter
  <2>1. counter' \in Nat /\ 0..counter \subseteq 0..counter' /\ counter' \notin 0..counter
    BY <1>1
  <2>2. QED BY <1>2, <2>1 DEF TokensTyped
<1>7. NoneFromLater'
  <2> DEFINE A == AskedSoFar'
             T == TokensSoFar'
  <2>1. AskedSoFar \subseteq A /\ TokensSoFar \subseteq T
    BY <1>6 DEF AskedSoFar, TokensSoFar
  <2> HIDE DEF A, T
  <2>2. auth \in Seq(A)
    BY <1>2, <2>1, SeqMore DEF NoneFromLater
  <2>3. Change \cup TokensSoFar \subseteq Change \cup T
    BY <2>1
  <2>4. Tail(main) \in Seq(Change \cup T)
    BY <1>4, <2>3, SeqMore
  <2>5. worker \in Seq(Change \cup T)
    BY <1>2, <2>3, SeqMore DEF NoneFromLater
  <2>6. Append(worker, m) \in Seq(Change \cup T)
    BY <1>3, <2>5, AppendAt
  <2>7. QED BY <1>2, <2>1, <2>2, <2>4, <2>6 DEF NoneFromLater, A, T, m
<1>8. ChangesCounted'
  <2>1. /\ Cardinality(Changes(main)) \in Nat /\ Cardinality(Changes(Tail(main))) \in Nat
        /\ Cardinality(Changes(main)) = Cardinality(Changes(Tail(main))) + 1
    BY <1>1, <1>3, ChangesTail DEF m
  <2>2. counter + Cardinality(Changes(main)) <= switches
    BY <1>2 DEF ChangesCounted
  <2>3. (counter + 1) + Cardinality(Changes(Tail(main))) <= switches
    BY <1>1, <2>1, <2>2
  <2>4. QED BY <2>3 DEF ChangesCounted
<1>9. OneRequest'
  <2>1. /\ Alone(auth, refreshing, Tail(main), Append(worker, m), closes)
        /\ Waiting(auth, refreshing, Tail(main), Append(worker, m), closes)
              => Waiting(auth, refreshing, main, worker, closes)
    BY <1>1, <1>2, AloneMoves DEF OneRequest, m
  <2>2. In(Tail(main), Token) => In(main, Token)
    BY <1>1, InTail
  <2>3. In(Append(worker, m), Token) => In(worker, Token)
    BY <1>1, <1>3, InAppend
  <2>4. QED BY <1>2, <2>1, <2>2, <2>3 DEF OneRequest, m
<1>10. AuthAhead'
  <2>1. PICK u \in User : Leaves(main, n + 1, u, authUser)
    BY <1>2 DEF AuthAhead, n
  <2>2. Leaves(Tail(main), n, m.user, authUser)
    <3>1. \A i \in 1..Len(main) : Leaves(main, i + 1, u, authUser) => Leaves(Tail(main), i, m.user, authUser)
      BY <1>1, <1>3, LeavesTail DEF m
    <3>2. QED BY <1>4, <2>1, <3>1 DEF n
  <2>3. Len(Tail(main)) + 1 = n
    BY <1>4
  <2>4. \A v : Leaves(Append(worker, m), k + 2, v, m.user)
    BY <1>1, <1>3, LeavesAppend DEF k
  <2>5. Len(Append(worker, m)) + 1 = k + 2
    BY <1>5
  <2>6. PICK w \in User : w = m.user
    BY <1>3
  <2>7. Announces(w)'
    <3>1. \A v : Leaves(worker', Len(worker') + 1, v, w)
      BY <2>4, <2>5, <2>6 DEF m
    <3>2. QED BY <3>1 DEF Announces
  <2>8. Leaves(main', Len(main') + 1, w, authUser')
    BY <2>2, <2>3, <2>6
  <2>9. QED BY <2>7, <2>8 DEF AuthAhead
<1>11. FreshTokens'
  <2>1. \A t \in TokensSoFar : t.counter # counter'
    BY <1>6 DEF TokensSoFar
  <2>2. refreshing \subseteq TokensSoFar
    BY <1>2 DEF NoneFromLater
  <2>3. \A i \in DOMAIN Tail(main) : Tail(main)[i] \in Token => Tail(main)[i] \in TokensSoFar
    <3>1. \A i \in DOMAIN Tail(main) : Tail(main)[i] \in Change \cup TokensSoFar
      BY <1>4, SeqAt
    <3>2. QED BY <3>1, ApartAreChanges
  <2>4. \A t \in refreshing' : t.counter # counter'
    BY <2>1, <2>2
  <2>5. \A i \in DOMAIN main' : main'[i] \in Token => main'[i].counter # counter'
    BY <2>1, <2>3
  <2>6. QED BY <2>4, <2>5 DEF FreshTokens
<1>12. WorkerTokens'
  <2>1. \A i \in 1..(k + 1) : \A u :
           Leaves(Append(worker, m), i, user, u) <=> Leaves(worker, i, user, u)
    <3>1. m \in Change \cup Token
      BY <1>3
    <3>2. SUFFICES ASSUME NEW u
                   PROVE  \A i \in 1..(Len(worker) + 1) :
                             Leaves(Append(worker, m), i, user, u) <=> Leaves(worker, i, user, u)
      BY DEF k
    <3>3. QED BY <1>1, <3>1, LeavesAppend
  <2>2. \A i \in 1..(k + 1) : Append(worker, m)[i] \in Token => i \in 1..k
    BY <1>3, <1>5
  <2>3. ASSUME NEW i \in DOMAIN Append(worker, m), Append(worker, m)[i] \in Token
        PROVE  Leaves(Append(worker, m), i, user, Append(worker, m)[i].user)
    BY <1>2, <1>5, <2>1, <2>2, <2>3 DEF WorkerTokens
  <2>4. QED BY <2>3 DEF WorkerTokens, m
<1>13. QED BY <1>6, <1>7, <1>8, <1>9, <1>10, <1>11, <1>12 DEF TokensInv

\* A token that leaves the main queue uncovers the rest of it.
LEMMA TokenLeavesMain ==
    ASSUME TokensInv, main # <<>>, Head(main) \notin Change, main' = Tail(main),
           \A u : Announces(u) => Announces(u)',
           UNCHANGED <<authUser, refreshing, counter, switches>>
    PROVE  AuthAhead' /\ FreshTokens' /\ ChangesCounted'
<1> DEFINE n == Len(main)
           r == Tail(main)
<1>1. /\ main \in Seq(Change \cup Token) /\ counter \in Nat
      /\ ChangesCounted /\ AuthAhead /\ FreshTokens
  BY TokensTypes DEF TokensInv
<1>2. /\ n \in Nat /\ Len(r) = n - 1 /\ n \in 1..n /\ (n - 1) + 1 = n
  <2>1. n \in Nat /\ Len(r) = n - 1 /\ n - 1 \in Nat
    BY <1>1, SeqAt, TailAt
  <2> HIDE DEF n, r
  <2>2. QED BY <2>1
<1>3. AuthAhead'
  <2>1. PICK u \in User : Announces(u) /\ Leaves(main, n + 1, u, authUser)
    BY <1>1 DEF AuthAhead
  <2>2. \A i \in 1..Len(main) : Leaves(main, i + 1, u, authUser) => Leaves(Tail(main), i, u, authUser)
    BY <1>1, LeavesTail
  <2>3. Leaves(r, Len(r) + 1, u, authUser)
    BY <1>2, <2>1, <2>2
  <2>4. QED BY <2>1, <2>3 DEF AuthAhead
<1>4. /\ ~In(r, Change) => ~In(main, Change)
      /\ \A i \in DOMAIN r :
            /\ i + 1 \in DOMAIN main /\ main[i + 1] = r[i]
            /\ (\A j \in DOMAIN r : j < i => r[j] \notin Change) =>
                  \A j \in DOMAIN main : j < i + 1 => main[j] \notin Change
  BY <1>1, FirstIsNoChange
<1> HIDE DEF r
<1>5. \A t \in refreshing : t.counter = counter /\ ~In(r, Change) => Announces(t.user)
  BY <1>1, <1>4 DEF FreshTokens
<1>6. ASSUME NEW i \in DOMAIN r, r[i] \in Token, r[i].counter = counter,
             \A j \in DOMAIN r : j < i => r[j] \notin Change
      PROVE  Announces(r[i].user)
  <2>1. /\ i + 1 \in DOMAIN main /\ main[i + 1] = r[i]
        /\ \A j \in DOMAIN main : j < i + 1 => main[j] \notin Change
    BY <1>4, <1>6
  <2>2. QED BY <1>1, <1>6, <2>1 DEF FreshTokens
<1>7. FreshTokens'
  BY <1>5, <1>6 DEF FreshTokens, r
<1>8. ChangesCounted'
  <2>1. /\ Cardinality(Changes(main)) \in Nat /\ Cardinality(Changes(Tail(main))) \in Nat
        /\ Cardinality(Changes(main)) = Cardinality(Changes(Tail(main))) + 0
    BY <1>1, ChangesTail
  <2>2. QED BY <1>1, <2>1 DEF ChangesCounted
<1>9. QED BY <1>3, <1>7, <1>8

LEMMA AnnouncedTokens ==
    ASSUME TokensInv, Announced
    PROVE  TokensInv'
<1> DEFINE m == Head(main)
           x == [close |-> m.close, counter |-> counter]
           k == Len(worker)
<1>1. /\ main # <<>> /\ main' = Tail(main)
      /\ UNCHANGED <<authUser, refreshing, user, stream, closes, switches>>
  BY DEF Announced, bounds
<1>2. /\ auth \in Seq(Ask) /\ refreshing \subseteq Token /\ main \in Seq(Change \cup Token)
      /\ worker \in Seq(Change \cup Token) /\ counter \in Nat /\ closes \in Nat
  BY TokensTypes
<1>3. /\ TokensTyped /\ NoneFromLater /\ OneRequest /\ FreshTokens /\ WorkerTokens
  BY DEF TokensInv
<1>4. CASE m.kind = "user" /\ counter' = counter + 1 /\ worker' = Append(worker, m) /\ auth' = auth
  BY <1>1, <1>4, ChangeAnnounced
<1>5. ASSUME m.kind = "token"
      PROVE  /\ m \in TokensSoFar /\ m \in Token /\ m \notin Change /\ stream # "off"
             /\ m = main[1] /\ 1 \in DOMAIN main
             /\ Tail(main) \in Seq(Change \cup TokensSoFar)
  <2>1. /\ m \in Change \cup TokensSoFar /\ m = main[1] /\ 1 \in DOMAIN main
        /\ Tail(main) \in Seq(Change \cup TokensSoFar) /\ m \in Change \cup Token
    BY <1>1, <1>2, <1>3, TailAt DEF NoneFromLater
  <2>2. m \notin Change
    BY <1>5 DEF Change
  <2>3. In(main, Token)
    BY <2>1, <2>2 DEF In
  <2>4. QED BY <1>3, <2>1, <2>2, <2>3 DEF OneRequest
<1>6. CASE /\ m.kind = "token" /\ SameCounter(m)
           /\ worker' = Append(worker, m) /\ auth' = auth /\ counter' = counter
  <2>1. /\ m \in TokensSoFar /\ m \in Token /\ m \notin Change /\ stream # "off"
        /\ m = main[1] /\ 1 \in DOMAIN main
        /\ Tail(main) \in Seq(Change \cup TokensSoFar)
    BY <1>5, <1>6
  <2>2. /\ k \in Nat /\ DOMAIN worker = 1..k /\ Len(Append(worker, m)) = k + 1
        /\ DOMAIN Append(worker, m) = 1..(k + 1)
        /\ Append(worker, m)[k + 1] = m /\ \A i \in 1..k : Append(worker, m)[i] = worker[i]
    BY <1>2, <2>1, SeqAt, AppendAt
  <2>3. /\ \A v, u : \A i \in 1..(Len(worker) + 1) :
              Leaves(Append(worker, m), i, v, u) <=> Leaves(worker, i, v, u)
        /\ \A v, u : Leaves(Append(worker, m), Len(worker) + 2, v, u) = Leaves(worker, Len(worker) + 1, v, u)
    <3>1. m \in Change \cup Token
      BY <2>1
    <3>2. SUFFICES ASSUME NEW v, NEW u
                   PROVE  /\ \A i \in 1..(Len(worker) + 1) :
                                Leaves(Append(worker, m), i, v, u) <=> Leaves(worker, i, v, u)
                          /\ Leaves(Append(worker, m), Len(worker) + 2, v, u)
                                = Leaves(worker, Len(worker) + 1, v, u)
      OBVIOUS
    <3>3. QED BY <1>2, <2>1, <3>1, LeavesAppend
  <2> HIDE DEF m, k
  <2>4. Announces(m.user)
    <3>1. m.counter = counter
      BY <1>6 DEF SameCounter
    <3>2. \A j \in DOMAIN main : j < 1 => main[j] \notin Change
      <4>1. \A j \in DOMAIN main : ~(j < 1)
        BY <1>2, SeqAt
      <4>2. QED BY <4>1
    <3>3. QED BY <1>3, <2>1, <3>1, <3>2 DEF FreshTokens
  <2>5. \A u : Announces(u) => Announces(u)'
    <3>1. SUFFICES ASSUME NEW u, Leaves(worker, k + 1, user, u)
                   PROVE  Leaves(Append(worker, m), Len(Append(worker, m)) + 1, user, u)
      BY <1>1, <1>6, <2>1 DEF Announces, k
    <3>2. Len(Append(worker, m)) + 1 = k + 2
      BY <2>2
    <3>3. QED BY <2>3, <3>1, <3>2 DEF k
  <2>6. AuthAhead' /\ FreshTokens' /\ ChangesCounted'
    BY <1>1, <1>6, <2>1, <2>5, TokenLeavesMain DEF m
  <2>7. WorkerTokens'
    <3>1. Leaves(worker, k + 1, user, m.user)
      BY <2>1, <2>4 DEF Announces, k
    <3>2. \A i \in 1..k : i \in 1..(k + 1)
      BY <2>2
    <3>3. \A i \in 1..k : Append(worker, m)[i] \in Token =>
             Leaves(Append(worker, m), i, user, Append(worker, m)[i].user)
      BY <1>3, <2>2, <2>3, <3>2 DEF WorkerTokens, k
    <3>4. Leaves(Append(worker, m), k + 1, user, m.user)
      <4>1. k + 1 \in 1..(k + 1)
        BY <2>2
      <4>2. QED BY <2>3, <3>1, <4>1 DEF k
    <3>5. \A i \in 1..(k + 1) : i \in 1..k \/ i = k + 1
      BY <2>2
    <3>6. \A i \in DOMAIN Append(worker, m) : Append(worker, m)[i] \in Token =>
             Leaves(Append(worker, m), i, user, Append(worker, m)[i].user)
      BY <2>2, <3>3, <3>4, <3>5
    <3>7. QED BY <1>1, <1>6, <3>6 DEF WorkerTokens
  <2>8. OneRequest'
    <3>1. /\ Alone(auth, refreshing, Tail(main), Append(worker, m), closes)
          /\ Waiting(auth, refreshing, Tail(main), Append(worker, m), closes)
                => Waiting(auth, refreshing, main, worker, closes)
      BY <1>1, <1>2, <1>3, AloneMoves DEF OneRequest, m
    <3>2. QED BY <1>1, <1>3, <1>6, <2>1, <3>1 DEF OneRequest
  <2>9. NoneFromLater'
    <3>1. Append(worker, m) \in Seq(Change \cup TokensSoFar)
      BY <1>3, <2>1, AppendAt DEF NoneFromLater
    <3>2. QED BY <1>1, <1>3, <1>6, <2>1, <3>1 DEF NoneFromLater, AskedSoFar, TokensSoFar
  <2>10. TokensTyped'
    BY <1>1, <1>3, <1>6 DEF TokensTyped
  <2>11. QED BY <2>6, <2>7, <2>8, <2>9, <2>10 DEF TokensInv
<1>7. CASE /\ m.kind = "token" /\ ~SameCounter(m)
           /\ auth' = Append(auth, x) /\ worker' = worker /\ counter' = counter
  <2>1. /\ m \in TokensSoFar /\ m \in Token /\ m \notin Change /\ stream # "off"
        /\ Tail(main) \in Seq(Change \cup TokensSoFar)
    BY <1>5, <1>7
  <2>2. x \in AskedSoFar /\ x \in Ask
    BY <1>2, <2>1 DEF TokensSoFar, AskedSoFar, Ask
  <2>3. \A u : Announces(u) => Announces(u)'
    BY <1>1, <1>7 DEF Announces
  <2>4. AuthAhead' /\ FreshTokens' /\ ChangesCounted'
    BY <1>1, <1>7, <2>1, <2>3, TokenLeavesMain
  <2>5. WorkerTokens'
    BY <1>1, <1>3, <1>7 DEF WorkerTokens
  <2>6. OneRequest'
    <3>1. x.close = m.close
      OBVIOUS
    <3>2. /\ Alone(Append(auth, x), refreshing, Tail(main), worker, closes)
          /\ Waiting(Append(auth, x), refreshing, Tail(main), worker, closes)
                => Waiting(auth, refreshing, main, worker, closes)
      BY <1>1, <1>2, <1>3, <2>1, <2>2, <3>1, AloneMoves DEF OneRequest
    <3>3. QED BY <1>1, <1>3, <1>7, <2>1, <3>2 DEF OneRequest
  <2>7. NoneFromLater'
    <3>1. Append(auth, x) \in Seq(AskedSoFar)
      BY <1>3, <2>2, AppendAt DEF NoneFromLater
    <3>2. QED BY <1>1, <1>3, <1>7, <2>1, <3>1 DEF NoneFromLater, AskedSoFar, TokensSoFar
  <2>8. TokensTyped'
    BY <1>1, <1>3, <1>7 DEF TokensTyped
  <2>9. QED BY <2>4, <2>5, <2>6, <2>7, <2>8 DEF TokensInv
<1>8. QED BY <1>4, <1>6, <1>7 DEF Announced

\* A client that is made has FIRAuth's user, and no token is under way.
LEMMA StartedTokens ==
    ASSUME TokensInv, stream = "off", user' = authUser, AskedFrom("initial"),
           UNCHANGED <<authUser, refreshing, main, counter, worker, closes, switches>>
    PROVE  TokensInv'
<1>1. OneRequest /\ AuthAhead
  BY DEF TokensInv
<1>2. AskDone /\ stream' # "off"
  BY DEF AskedFrom, AskDone, Streams
<1>3. TokensTyped' /\ NoneFromLater' /\ ChangesCounted' /\ OneRequest'
  BY <1>2, ClientRest
<1>4. \A u : Announces(u) <=> Announces(u)'
  BY <1>2 DEF Announces
<1>5. AuthAhead'
  BY <1>1, <1>4 DEF AuthAhead
<1>6. refreshing = {} /\ ~In(main, Token) /\ ~In(worker, Token)
  BY <1>1 DEF OneRequest
<1>7. FreshTokens' /\ WorkerTokens'
  BY <1>6 DEF FreshTokens, WorkerTokens, In
<1>8. QED BY <1>3, <1>5, <1>7 DEF TokensInv

LEMMA NoChanges ==
    Cardinality(Changes(<<>>)) = 0 /\ DOMAIN <<>> = {} /\ \A S : <<>> \in Seq(S)
<1>1. Changes(<<>>) = {}
  BY DEF Changes
<1>2. QED BY <1>1, FS_EmptySet

LEMMA KilledTokens ==
    ASSUME TokensInv, Killed
    PROVE  TokensInv'
<1>1. /\ stream' = "off" /\ closes' = 0 /\ counter' = 0
      /\ main' = <<>> /\ worker' = <<>> /\ auth' = <<>> /\ refreshing' = {}
      /\ UNCHANGED <<authUser, switches>>
  BY DEF Killed
<1>2. TokensTyped'
  BY <1>1 DEF TokensInv, TokensTyped
<1>3. NoneFromLater'
  BY <1>1, NoChanges DEF NoneFromLater
<1>4. ChangesCounted'
  <2>1. switches \in Nat /\ 0 + 0 <= switches
    BY PipelineAssumption DEF TokensInv, TokensTyped
  <2>2. Cardinality(Changes(main')) = 0
    BY <1>1, NoChanges
  <2>3. QED BY <1>1, <2>1, <2>2 DEF ChangesCounted
<1>5. OneRequest'
  BY <1>1, NoChanges DEF OneRequest, Alone, Waiting, In, Once
<1>6. AuthAhead'
  <2>1. PICK u \in User : u = authUser
    BY DEF TokensInv, TokensTyped
  <2>2. \A i : Leaves(<<>>, i, u, u)
    BY NoChanges DEF Leaves
  <2>3. Announces(u)' /\ Leaves(main', Len(main') + 1, u, authUser')
    BY <1>1, <2>1, <2>2 DEF Announces
  <2>4. QED BY <2>3 DEF AuthAhead
<1>7. FreshTokens' /\ WorkerTokens'
  BY <1>1, NoChanges DEF FreshTokens, WorkerTokens
<1>8. QED BY <1>2, <1>3, <1>4, <1>5, <1>6, <1>7 DEF TokensInv

-----------------------------------------------------------------------------
(* The invariant *)

LEMMA InitHolds ==
    ASSUME Init
    PROVE  PipelineInv
<1>1. /\ authUser \in User /\ user = authUser /\ token = authUser
      /\ auth = <<>> /\ refreshing = {} /\ main = <<>> /\ worker = <<>> /\ counter = 0
      /\ queue = [u \in User |-> <<>>] /\ pipeline = <<>>
      /\ stream = "off" /\ closes = 0 /\ idle = FALSE
      /\ requests = <<>> /\ responses = <<>>
      /\ made = [u \in User |-> 0]
      /\ taken = [u \in User |-> {}] /\ refused = [u \in User |-> {}]
      /\ switches = 0 /\ breaks = 0 /\ restarts = 0
  BY DEF Init
<1>2. /\ 0 \in 0..MaxWrites /\ 0 \in 0..MaxSwitches /\ 0 \in 0..MaxBreaks /\ 0 \in 0..MaxRestarts
      /\ 0 <= MaxPending /\ Len(<<>>) = 0 /\ 0 <= 0 /\ 0 + 0 <= 0
  BY PipelineAssumption
<1>3. WritesTyped
  BY <1>1, <1>2, NoChanges DEF WritesTyped
<1>4. QueueShape /\ PipelineShape
  BY <1>1, <1>2, NoChanges DEF QueueShape, PipelineShape
<1>5. WireShape /\ StreamShape /\ TokenRight /\ Answered
  BY <1>1, NoChanges DEF WireShape, OnTheWire, StreamShape, Needed, TokenRight, Answered
<1>6. TokensTyped /\ NoneFromLater
  BY <1>1, <1>2, NoChanges DEF TokensTyped, NoneFromLater
<1>7. ChangesCounted
  BY <1>1, <1>2, NoChanges DEF ChangesCounted
<1>8. OneRequest
  BY <1>1, NoChanges DEF OneRequest, Alone, Waiting, In, Once
<1>9. AuthAhead
  <2>1. \A i : Leaves(<<>>, i, authUser, authUser)
    BY NoChanges DEF Leaves
  <2>2. Announces(authUser) /\ Leaves(main, Len(main) + 1, authUser, authUser)
    BY <1>1, <2>1 DEF Announces
  <2>3. QED BY <1>1, <2>2 DEF AuthAhead
<1>10. FreshTokens /\ WorkerTokens
  BY <1>1, NoChanges DEF FreshTokens, WorkerTokens
<1>11. WritesInv
  BY <1>3, <1>4, <1>5 DEF WritesInv
<1>12. TokensInv
  BY <1>6, <1>7, <1>8, <1>9, <1>10 DEF TokensInv
<1>13. QED BY <1>11, <1>12 DEF PipelineInv

\* A client's step that asks for a token like a stream in state s does.
LEMMA AskedTokens ==
    ASSUME TokensInv, TaskDone, UNCHANGED <<authUser, refreshing, main, counter, switches>>,
           stream # "off", NEW s \in Streams, AskedFrom(s),
           closes' = closes + 1 \/ (closes' = closes /\ (s = stream \/ stream # "starting"))
    PROVE  TokensInv'
<1>1. AskDone /\ stream' # "off"
  BY DEF AskedFrom, AskDone, Streams
<1>2. QED BY <1>1, ClientTokens

LEMMA StillTasks ==
    ASSUME UNCHANGED <<worker, user>>
    PROVE  TaskDone
BY DEF TaskDone

LEMMA RestartNetworkStep ==
    ASSUME PipelineInv, RestartNetwork, TaskDone, user' \in User, breaks' \in 0..MaxBreaks,
           UNCHANGED <<authUser, refreshing, main, counter, switches>>,
           UNCHANGED <<queue, made, token, taken, refused, restarts>>
    PROVE  PipelineInv'
<1>1. /\ stream # "off" /\ responses' = <<>> /\ Fill("initial", <<>>, <<>>, FALSE)
      /\ closes' = IF stream = "initial" THEN closes ELSE closes + 1
  BY DEF RestartNetwork
<1>2. WritesInv' /\ AskedFrom("initial")
  BY <1>1, FromNothingStep DEF PipelineInv
<1>3. /\ "initial" \in Streams
      /\ closes' = closes + 1 \/ (closes' = closes /\ ("initial" = stream \/ stream # "starting"))
  BY <1>1 DEF Streams
<1>4. TokensInv'
  BY <1>1, <1>2, <1>3, AskedTokens DEF PipelineInv
<1>5. QED BY <1>2, <1>4 DEF PipelineInv

\* Every step keeps the invariant.
LEMMA ClientStepHolds ==
    ASSUME PipelineInv, ClientStep
    PROVE  PipelineInv'
<1>1. WritesInv /\ TokensInv
  BY DEF PipelineInv
<1>2. stream \in Streams \cup {"off"}
  BY <1>1 DEF WritesInv, WritesTyped
<1>3. CASE MutationResult
  <2>1. WritesInv' /\ AskedFrom("ready") /\ stream = "ready" /\ "ready" \in Streams
    BY <1>1, <1>3, MutationResultStep DEF MutationResult, Streams
  <2>2. UNCHANGED <<authUser, refreshing, main, counter, switches, worker, user, closes>>
    BY <1>3 DEF MutationResult, firebase, bounds
  <2>3. TokensInv'
    BY <1>1, <2>1, <2>2, StillTasks, AskedTokens
  <2>4. QED BY <2>1, <2>3 DEF PipelineInv
<1>4. CASE Refused
  <2>1. /\ StreamCloses(Head(responses)) /\ stream = "ready"
        /\ UNCHANGED <<authUser, refreshing, main, counter, switches, worker, user, breaks>>
        /\ closes' = closes + 1
    BY <1>4 DEF Refused, StreamCloses, firebase
  <2>2. breaks' \in 0..MaxBreaks
    BY <1>1, <2>1 DEF WritesInv, WritesTyped
  <2>3. WritesInv' /\ (AskedFrom("initial") \/ AskedFrom("error"))
    BY <1>1, <2>1, <2>2, StreamClosesStep
  <2>4. "initial" \in Streams /\ "error" \in Streams /\ TaskDone
    BY <2>1 DEF Streams, TaskDone
  <2>5. TokensInv'
    BY <1>1, <2>1, <2>3, <2>4, AskedTokens
  <2>6. QED BY <2>3, <2>5 DEF PipelineInv
<1>5. CASE BackoffElapses
  <2>1. WritesInv' /\ AskedFrom("backoff") /\ stream = "backoff" /\ "backoff" \in Streams
    BY <1>1, <1>5, BackoffElapsesStep DEF BackoffElapses, Streams
  <2>2. UNCHANGED <<authUser, refreshing, main, counter, switches, worker, user, closes>>
    BY <1>5 DEF BackoffElapses, firebase, bounds
  <2>3. TokensInv'
    BY <1>1, <2>1, <2>2, StillTasks, AskedTokens
  <2>4. QED BY <2>1, <2>3 DEF PipelineInv
<1>6. CASE StreamOpens
  <2>1. WritesInv' /\ stream = "connecting" /\ stream' = "open"
    BY <1>1, <1>6, StreamOpensStep DEF StreamOpens
  <2>2. UNCHANGED <<auth, authUser, refreshing, main, counter, switches, worker, user, closes>>
    BY <1>6 DEF StreamOpens, credentials, firebase, bounds
  <2>3. TaskDone /\ AskDone
    BY <2>1, <2>2 DEF TaskDone, AskDone
  <2>4. TokensInv'
    BY <1>1, <2>1, <2>2, <2>3, ClientTokens
  <2>5. QED BY <2>1, <2>4 DEF PipelineInv
<1>7. CASE HandshakeComplete
  <2>1. WritesInv' /\ stream = "open" /\ stream' = "ready"
    BY <1>1, <1>7, HandshakeCompleteStep DEF HandshakeComplete
  <2>2. UNCHANGED <<auth, authUser, refreshing, main, counter, switches, worker, user, closes>>
    BY <1>7 DEF HandshakeComplete, credentials, firebase, bounds
  <2>3. TaskDone /\ AskDone
    BY <2>1, <2>2 DEF TaskDone, AskDone
  <2>4. TokensInv'
    BY <1>1, <2>1, <2>2, <2>3, ClientTokens
  <2>5. QED BY <2>1, <2>4 DEF PipelineInv
<1>8. CASE CredentialChange
  <2>1. /\ worker # <<>> /\ Head(worker).kind = "user" /\ worker' = Tail(worker)
        /\ user' = Head(worker).user /\ RestartNetwork
        /\ UNCHANGED <<authUser, refreshing, main, counter, switches>>
        /\ UNCHANGED <<queue, made, token, taken, refused, restarts, breaks>>
    BY <1>8 DEF CredentialChange, firebase, backend, bounds
  <2>2. worker \in Seq(Change \cup Token)
    BY <1>1, TokensTypes
  <2>3. Head(worker) \in Change
    <3>1. Head(worker) \in Change \cup Token
      BY <2>1, <2>2, TailAt
    <3>2. QED BY <2>1, <3>1 DEF Token
  <2>4. user' \in User /\ TaskDone /\ breaks' \in 0..MaxBreaks
    BY <1>1, <2>1, <2>3 DEF Change, TaskDone, WritesInv, WritesTyped
  <2>5. QED BY <2>1, <2>4, RestartNetworkStep
<1>9. CASE TokenArrives
  <2>1. WritesInv'
    BY <1>9, TokenArrivesStep
  <2>2. /\ worker # <<>> /\ Head(worker).kind = "token" /\ worker' = Tail(worker)
        /\ UNCHANGED <<auth, authUser, refreshing, main, counter, switches, user, closes>>
    BY <1>9 DEF TokenArrives, firebase, bounds
  <2>3. worker \in Seq(Change \cup Token) /\ OneRequest
    BY <1>1, TokensTypes DEF TokensInv
  <2>4. Head(worker) \in Token /\ Head(worker) \notin Change /\ stream # "off"
    <3>1. Head(worker) \in Change \cup Token /\ Head(worker) = worker[1] /\ 1 \in DOMAIN worker
      BY <2>2, <2>3, TailAt
    <3>2. Head(worker) \notin Change
      BY <2>2 DEF Change
    <3>3. In(worker, Token)
      BY <3>1, <3>2 DEF In
    <3>4. QED BY <2>3, <3>1, <3>2, <3>3 DEF OneRequest
  <2>5. TaskDone
    BY <2>2, <2>4 DEF TaskDone
  <2>6. AskDone /\ stream' # "off"
    <3>1. CASE SameStream(Head(worker)) /\ stream' = "connecting"
      BY <2>2, <2>4, <3>1 DEF AskDone, TokensOf, SameStream
    <3>2. CASE stream' = stream
      BY <2>2, <2>4, <3>2 DEF AskDone
    <3>3. QED BY <1>9, <3>1, <3>2 DEF TokenArrives
  <2>7. TokensInv'
    BY <1>1, <2>2, <2>4, <2>5, <2>6, ClientTokens
  <2>8. QED BY <2>1, <2>7 DEF PipelineInv
<1>10. CASE Started
  <2>1. /\ stream = "off" /\ user' = authUser /\ Fill("initial", <<>>, <<>>, FALSE)
        /\ UNCHANGED <<authUser, refreshing, main, counter, worker, closes, switches>>
        /\ UNCHANGED <<queue, made, token, taken, refused, restarts, breaks, responses>>
    BY <1>10 DEF Started, firebase, backend, bounds
  <2>2. responses' = <<>> /\ breaks' \in 0..MaxBreaks /\ user' \in User
    BY <1>1, <2>1 DEF WritesInv, WritesTyped, WireShape, OnTheWire, TokensInv, TokensTyped
  <2>3. WritesInv' /\ AskedFrom("initial")
    BY <1>1, <2>1, <2>2, FromNothingStep
  <2>4. TokensInv'
    BY <1>1, <2>1, <2>3, StartedTokens
  <2>5. QED BY <2>3, <2>4 DEF PipelineInv
<1>11. QED
  BY <1>3, <1>4, <1>5, <1>6, <1>7, <1>8, <1>9, <1>10 DEF ClientStep

LEMMA StepHolds ==
    ASSUME PipelineInv, Next
    PROVE  PipelineInv'
<1>1. WritesInv /\ TokensInv
  BY DEF PipelineInv
<1>2. breaks \in 0..MaxBreaks /\ (breaks < MaxBreaks => breaks + 1 \in 0..MaxBreaks)
  <2>1. breaks \in 0..MaxBreaks
    BY <1>1 DEF WritesInv, WritesTyped
  <2>2. QED BY <2>1, PipelineAssumption
<1>3. CASE TokenAsked
  <2>1. WritesInv'
    BY <1>1, <1>3, WritesUntouched DEF TokenAsked, wire, backend, bounds
  <2>2. QED BY <1>1, <1>3, <2>1, TokenAskedTokens DEF PipelineInv
<1>4. CASE TokenRefreshed
  <2>1. WritesInv'
    BY <1>1, <1>4, WritesUntouched DEF TokenRefreshed, wire, backend, bounds
  <2>2. QED BY <1>1, <1>4, <2>1, TokenRefreshedTokens DEF PipelineInv
<1>5. CASE Announced
  <2>1. WritesInv'
    BY <1>1, <1>5, WritesUntouched DEF Announced, wire, backend, bounds
  <2>2. QED BY <1>1, <1>5, <2>1, AnnouncedTokens DEF PipelineInv
<1>6. CASE \E u \in User : AuthChanges(u)
  <2>1. PICK u \in User : AuthChanges(u)
    BY <1>6
  <2>2. WritesInv'
    BY <1>1, <2>1, WritesUntouched DEF AuthChanges, wire, backend
  <2>3. QED BY <1>1, <2>1, <2>2, AuthChangesTokens DEF PipelineInv
<1>7. CASE Judge
  <2>1. WritesInv'
    BY <1>1, <1>7, JudgeStep
  <2>2. UNCHANGED <<auth, authUser, refreshing, main, counter, switches, worker, user, closes, stream>>
    BY <1>7 DEF Judge, credentials, firebase, bounds
  <2>3. stream # "off"
    <3>1. requests # <<>>
      BY <1>7 DEF Judge
    <3>2. QED BY <1>1, <3>1, NextOnWire
  <2>4. TaskDone /\ AskDone
    BY <2>2 DEF TaskDone, AskDone
  <2>5. TokensInv'
    BY <1>1, <2>2, <2>3, <2>4, ClientTokens
  <2>6. QED BY <2>1, <2>5 DEF PipelineInv
<1>8. CASE Write
  <2>1. WritesInv' /\ AskedFrom(stream) /\ stream # "off"
    BY <1>1, <1>8, WriteStep DEF Write
  <2>2. /\ UNCHANGED <<authUser, refreshing, main, counter, switches, worker, user, closes>>
        /\ stream \in Streams
    BY <1>1, <1>8, <2>1 DEF Write, firebase, bounds, WritesInv, WritesTyped
  <2>3. TokensInv'
    BY <1>1, <2>1, <2>2, StillTasks, AskedTokens
  <2>4. QED BY <2>1, <2>3 DEF PipelineInv
<1>9. ASSUME NEW r, StreamCloses(r), breaks < MaxBreaks, breaks' = breaks + 1, TaskDone, stream # "off"
      PROVE  PipelineInv'
  <2>1. /\ UNCHANGED <<authUser, refreshing, main, counter, switches>>
        /\ closes' = closes + 1
    BY <1>9 DEF StreamCloses, firebase
  <2>2. WritesInv' /\ (AskedFrom("initial") \/ AskedFrom("error"))
    BY <1>1, <1>2, <1>9, StreamClosesStep
  <2>3. "initial" \in Streams /\ "error" \in Streams
    BY DEF Streams
  <2>4. TokensInv'
    BY <1>1, <1>9, <2>1, <2>2, <2>3, AskedTokens
  <2>5. QED BY <2>2, <2>4 DEF PipelineInv
<1>10. CASE StreamBreaks
  <2>1. /\ StreamCloses(Broken) /\ breaks < MaxBreaks /\ breaks' = breaks + 1
        /\ stream # "off" /\ UNCHANGED <<worker, user>>
    BY <1>10 DEF StreamBreaks, StreamCloses
  <2>2. QED BY <1>9, <2>1, StillTasks
<1>11. CASE TokenFails
  <2>1. /\ StreamCloses(Broken) /\ breaks < MaxBreaks /\ breaks' = breaks + 1
        /\ worker # <<>> /\ worker' = Tail(worker) /\ Head(worker).kind = "token" /\ user' = user
    BY <1>11 DEF TokenFails, StreamCloses
  <2>2. worker \in Seq(Change \cup Token) /\ OneRequest
    BY <1>1, TokensTypes DEF TokensInv
  <2>3. Head(worker) \notin Change /\ stream # "off"
    <3>1. Head(worker) \in Change \cup Token /\ Head(worker) = worker[1] /\ 1 \in DOMAIN worker
      BY <2>1, <2>2, TailAt
    <3>2. Head(worker) \notin Change
      BY <2>1 DEF Change
    <3>3. In(worker, Token)
      BY <3>1, <3>2 DEF In
    <3>4. QED BY <2>2, <3>2, <3>3 DEF OneRequest
  <2>4. TaskDone
    BY <2>1, <2>3 DEF TaskDone
  <2>5. QED BY <1>9, <2>1, <2>3, <2>4
<1>12. CASE ConnectivityChange
  <2>1. /\ RestartNetwork /\ breaks' \in 0..MaxBreaks /\ UNCHANGED <<worker, user>>
        /\ UNCHANGED <<authUser, refreshing, main, counter, switches>>
        /\ UNCHANGED <<queue, made, token, taken, refused, restarts>>
    BY <1>2, <1>12 DEF ConnectivityChange, firebase, backend
  <2>2. user' \in User
    BY <1>1, <2>1 DEF WritesInv, WritesTyped
  <2>3. QED BY <2>1, <2>2, StillTasks, RestartNetworkStep
<1>13. CASE IdleStop
  <2>1. WritesInv' /\ stream = "ready" /\ stream' = "initial" /\ closes' = closes + 1
    BY <1>1, <1>13, IdleStopStep DEF IdleStop
  <2>2. UNCHANGED <<auth, authUser, refreshing, main, counter, switches, worker, user>>
    BY <1>13 DEF IdleStop, credentials, firebase, bounds
  <2>3. TaskDone /\ AskDone
    BY <2>1, <2>2 DEF TaskDone, AskDone
  <2>4. TokensInv'
    BY <1>1, <2>1, <2>2, <2>3, ClientTokens
  <2>5. QED BY <2>1, <2>4 DEF PipelineInv
<1>14. CASE Killed
  BY <1>1, <1>14, KilledStep, KilledTokens DEF PipelineInv
<1>15. QED
  BY <1>3, <1>4, <1>5, <1>6, <1>7, <1>8, <1>10, <1>11, <1>12, <1>13, <1>14, ClientStepHolds DEF Next

LEMMA StutterHolds ==
    ASSUME PipelineInv, UNCHANGED vars
    PROVE  PipelineInv'
<1>1. /\ UNCHANGED <<authUser, auth, refreshing, main, counter, worker, user, queue, pipeline>>
      /\ UNCHANGED <<stream, closes, token, idle, requests, responses, made, taken, refused>>
      /\ UNCHANGED <<switches, breaks, restarts>>
  BY DEF vars, credentials, firebase, wire, backend, bounds
<1>2. WritesInv'
  BY <1>1, WritesUntouched DEF PipelineInv
<1>3. TokensTyped' /\ NoneFromLater' /\ ChangesCounted' /\ WorkerTokens'
  BY <1>1 DEF PipelineInv, TokensInv, TokensTyped, NoneFromLater, AskedSoFar, TokensSoFar,
              ChangesCounted, Changes, WorkerTokens
<1>4. OneRequest'
  BY <1>1 DEF PipelineInv, TokensInv, OneRequest
<1>5. \A u : Announces(u) <=> Announces(u)'
  BY <1>1 DEF Announces
<1>6. AuthAhead' /\ FreshTokens'
  BY <1>1, <1>5 DEF PipelineInv, TokensInv, AuthAhead, FreshTokens
<1>7. QED BY <1>2, <1>3, <1>4, <1>6 DEF PipelineInv, TokensInv

\* The queue is cut at the front, the pipeline is its head, the wire carries the
\* pipeline, and tokens go to the stream and the user they were asked for:
\* whatever breaks, restarts and changes of user overlap.
THEOREM PipelineKept ==
    Spec => []PipelineInv
<1>1. Init => PipelineInv
  BY InitHolds
<1>2. PipelineInv /\ [Next]_vars => PipelineInv'
  BY StepHolds, StutterHolds
<1>3. QED BY <1>1, <1>2, PTL DEF Spec

\* Every variable keeps its type: no write is numbered past those made, the
\* pipeline keeps to its limit, and the counters to what was counted.
THEOREM PipelineTyped ==
    Spec => []TypeOK
<1>1. PipelineInv => TypeOK
  <2>1. SUFFICES ASSUME WritesInv, TokensInv
                 PROVE  TypeOK
    BY DEF PipelineInv
  <2>2. /\ auth \in Seq(Ask) /\ refreshing \subseteq Token
        /\ main \in Seq(Change \cup Token) /\ worker \in Seq(Change \cup Token)
        /\ counter \in Nat /\ closes \in Nat /\ authUser \in User
    BY <2>1, TokensTypes DEF TokensInv
  <2>3. counter \in 0..MaxSwitches /\ switches \in 0..MaxSwitches
    <3>1. Cardinality(Changes(main)) \in Nat
      <4>1. IsFiniteSet(1..Len(main)) /\ Changes(main) \subseteq 1..Len(main)
        <5>1. Len(main) \in Nat /\ DOMAIN main = 1..Len(main)
          BY <2>2, SeqAt
        <5>2. IsFiniteSet(1..Len(main))
          BY <5>1, FS_Interval
        <5>3. QED BY <5>1, <5>2 DEF Changes
      <4>2. QED BY <4>1, FS_Subset, FS_CardinalityType
    <3>2. counter + Cardinality(Changes(main)) <= switches /\ switches \in 0..MaxSwitches
      BY <2>1 DEF TokensInv, ChangesCounted, TokensTyped
    <3>3. QED BY <2>2, <3>1, <3>2, PipelineAssumption
  <2>4. /\ {authUser, user, token} \subseteq User
        /\ queue \in [User -> Seq(Numbers)] /\ made \in [User -> 0..MaxWrites]
        /\ pipeline \in Seq(Numbers) /\ Len(pipeline) <= MaxPending
        /\ idle \in BOOLEAN
        /\ requests \in Seq(Numbers) /\ responses \in Seq([write : Numbers, ok : BOOLEAN])
        /\ {taken, refused} \subseteq [User -> SUBSET Numbers]
        /\ breaks \in 0..MaxBreaks /\ restarts \in 0..MaxRestarts
    BY <2>1, <2>2 DEF WritesInv, WritesTyped, Answer
  <2>5. stream \in {"off", "initial", "starting", "connecting", "open", "ready", "error", "backoff"}
    BY <2>1 DEF WritesInv, WritesTyped, Streams
  <2>6. QED BY <2>2, <2>3, <2>4, <2>5 DEF TypeOK
<1>2. QED BY <1>1, PipelineKept, PTL

\* "Should be correlated to the first write in our write pipeline": what is
\* sent and answered on a stream is the pipeline, in order, and the pipeline is
\* the head of the current user's queue.
THEOREM AnswersMatch ==
    Spec => []AnswersMatchPipeline
<1>1. WritesInv => AnswersMatchPipeline
  <2>1. SUFFICES ASSUME WritesInv
                 PROVE  AnswersMatchPipeline
    OBVIOUS
  <2> DEFINE l == Len(pipeline)
             q == queue[user]
             n == Len(q)
             h == Len(responses)
             m == Len(requests)
             ws == [i \in DOMAIN responses |-> responses[i].write]
             s == ws \o requests
  <2>2. /\ pipeline \in Seq(Numbers) /\ q \in Seq(Numbers) /\ responses \in Seq(Answer)
        /\ requests \in Seq(Numbers)
    BY <2>1 DEF WritesInv, WritesTyped
  <2>3. /\ l \in Nat /\ n \in Nat /\ h \in Nat /\ m \in Nat
        /\ DOMAIN pipeline = 1..l /\ DOMAIN q = 1..n /\ DOMAIN responses = 1..h /\ DOMAIN requests = 1..m
    BY <2>2, SeqAt
  <2>4. l <= n /\ \A i \in 1..l : pipeline[i] = q[i]
    BY <2>1, <2>3 DEF WritesInv, PipelineShape
  <2>5. IsPrefix(pipeline, q)
    <3> HIDE DEF l, n, q
    <3>1. 1 \in Int /\ l \in Int /\ 0 + 1 = 1 /\ 0 + l = l /\ 0 \in Nat
          /\ 0 + l <= Len(q) /\ 0 + l <= Len(pipeline) /\ \A i \in 1..l : 0 + i = i
      BY <2>3, <2>4 DEF l, n
    <3>2. /\ SubSeq(pipeline, 0 + 1, 0 + l) \in Seq(Numbers) /\ Len(SubSeq(pipeline, 0 + 1, 0 + l)) = l
          /\ \A i \in 1..l : SubSeq(pipeline, 0 + 1, 0 + l)[i] = pipeline[0 + i]
      BY <2>2, <2>3, <3>1, SubSeqAt
    <3>3. /\ SubSeq(q, 0 + 1, 0 + l) \in Seq(Numbers) /\ Len(SubSeq(q, 0 + 1, 0 + l)) = l
          /\ \A i \in 1..l : SubSeq(q, 0 + 1, 0 + l)[i] = q[0 + i]
      BY <2>2, <2>3, <3>1, SubSeqAt
    <3>4. SubSeq(pipeline, 1, l) = SubSeq(q, 1, l)
      <4> DEFINE a == SubSeq(pipeline, 1, l)
                 b == SubSeq(q, 1, l)
      <4>1. a \in Seq(Numbers) /\ b \in Seq(Numbers) /\ Len(a) = Len(b)
        BY <3>1, <3>2, <3>3
      <4>2. \A i \in 1..Len(a) : a[i] = b[i]
        BY <2>4, <3>1, <3>2, <3>3
      <4> HIDE DEF a, b
      <4>3. QED BY <4>1, <4>2, SeqEqual DEF a, b
    <3>5. QED BY <2>4, <3>4 DEF IsPrefix, l, n
  <2>6. ASSUME stream = "ready"
        PROVE  s = pipeline
    <3>1. /\ l = h + m
          /\ \A i \in 1..h : responses[i].write = pipeline[i]
          /\ \A i \in 1..m : requests[i] = pipeline[h + i]
      BY <2>1, <2>3, <2>6 DEF WritesInv, WireShape, OnTheWire
    <3>2. ws \in Seq(Numbers) /\ Len(ws) = h /\ \A i \in 1..h : ws[i] = responses[i].write
      <4>1. \A i \in 1..h : responses[i].write \in Numbers
        <5> HIDE DEF l, q, n, h, m, ws, s
        <5>1. \A i \in DOMAIN responses : responses[i] \in Answer
          BY <2>2, SeqAt
        <5>2. QED BY <2>3, <5>1 DEF Answer
      <4>2. ws = [i \in 1..h |-> responses[i].write]
        BY <2>3
      <4>3. ws \in [1..h -> Numbers]
        BY <4>1, <4>2
      <4>4. QED BY <2>3, <4>2, <4>3
    <3> HIDE DEF ws
    <3>3. /\ s \in Seq(Numbers) /\ Len(s) = h + m
          /\ \A i \in 1..h : s[i] = ws[i]
          /\ \A i \in 1..m : s[h + i] = requests[i]
      <4> HIDE DEF l, q, n
      <4>1. /\ ws \o requests \in Seq(Numbers) /\ Len(ws \o requests) = Len(ws) + Len(requests)
            /\ \A i \in 1..Len(ws) : (ws \o requests)[i] = ws[i]
            /\ \A i \in 1..Len(requests) : (ws \o requests)[Len(ws) + i] = requests[i]
        BY <2>2, <3>2, ConcatAt
      <4>2. Len(ws) = h /\ Len(requests) = m
        BY <3>2
      <4> HIDE DEF h, m
      <4>3. QED BY <4>1, <4>2
    <3> HIDE DEF s, h, m, l
    <3>4. \A i \in 1..(h + m) : s[i] = pipeline[i]
      <4>1. SUFFICES ASSUME NEW i \in 1..(h + m)
                     PROVE  s[i] = pipeline[i]
        OBVIOUS
      <4>2. CASE i \in 1..h
        BY <3>1, <3>2, <3>3, <4>2
      <4>3. CASE i \notin 1..h
        <5>1. PICK j : j \in 1..m /\ i = h + j
          <6>1. i - h \in 1..m /\ i = h + (i - h)
            BY <2>3, <4>3
          <6>2. QED BY <6>1
        <5>2. QED BY <3>1, <3>3, <5>1
      <4>4. QED BY <4>2, <4>3
    <3>5. QED BY <2>2, <3>1, <3>3, <3>4, SeqEqual DEF l
  <2>7. QED BY <2>5, <2>6 DEF AnswersMatchPipeline
<1>2. QED BY <1>1, PipelineKept, PTL DEF PipelineInv

\* The client's own assertions hold: the idle timer never stops a stream that
\* is needed, and a token that is used finds its stream still starting.
THEOREM ClientAssertions ==
    Spec => []AssertionsHold
<1>1. PipelineInv => AssertionsHold
  <2>1. SUFFICES ASSUME WritesInv, TokensInv
                 PROVE  AssertionsHold
    BY DEF PipelineInv
  <2>2. idle => pipeline = <<>> /\ IsOpen(stream)
    BY <2>1 DEF WritesInv, StreamShape, Needed, IsOpen
  <2>3. ASSUME NEW i \in DOMAIN worker, worker[i].kind = "token", worker[i].close = closes
        PROVE  stream = "starting"
    <3>1. worker \in Seq(Change \cup Token) /\ OneRequest
      BY <2>1, TokensTypes DEF TokensInv
    <3>2. worker[i] \in Token
      <4>1. worker[i] \in Change \cup Token
        BY <3>1, SeqAt
      <4>2. QED BY <2>3, <4>1 DEF Change
    <3>3. In(worker, TokensOf(closes))
      BY <2>3, <3>2 DEF In, TokensOf
    <3>4. QED BY <3>1, <3>3 DEF OneRequest, Waiting
  <2>4. QED BY <2>2, <2>3 DEF AssertionsHold
<1>2. QED BY <1>1, PipelineKept, PTL

-----------------------------------------------------------------------------
(* The write queue the rest of the app relies on *)

\* How many of a user's writes are off the queue.
SettledNow == [u \in User |-> made[u] - Len(queue[u])]

\* They are counted in Nat, and only a queue's length and a user's writes count.
LEMMA SettledAt ==
    ASSUME WritesInv, NEW u \in User
    PROVE  /\ SettledNow[u] = made[u] - Len(queue[u]) /\ SettledNow[u] \in Nat
           /\ made[u] \in Nat /\ Len(queue[u]) \in Nat /\ Len(queue[u]) <= made[u]
           /\ made[u] <= MaxWrites
<1>1. queue[u] \in Seq(Numbers) /\ made[u] \in 0..MaxWrites /\ Len(queue[u]) <= made[u]
  BY DEF WritesInv, WritesTyped, QueueShape
<1>2. Len(queue[u]) \in Nat
  BY <1>1, SeqAt
<1>3. made[u] \in Nat /\ made[u] <= MaxWrites
  BY <1>1, PipelineAssumption
<1>4. SettledNow[u] = made[u] - Len(queue[u])
  BY DEF SettledNow
<1> DEFINE n == Len(queue[u])
<1> HIDE DEF n
<1>5. n \in Nat /\ n <= made[u]
  BY <1>1, <1>2 DEF n
<1>6. made[u] - n \in Nat
  BY <1>3, <1>5
<1>7. QED BY <1>1, <1>2, <1>3, <1>4, <1>6 DEF n

\* A step that leaves writes and queues alone is one that the abstract queue
\* does not see.
LEMMA QueueStill ==
    ASSUME UNCHANGED <<made, taken, refused, queue>>
    PROVE  UNCHANGED Queue!vars
BY DEF Queue!vars

LEMMA QueueStarts ==
    ASSUME Init
    PROVE  Queue!Init
<1>1. /\ made = [u \in User |-> 0] /\ queue = [u \in User |-> <<>>]
      /\ taken = [u \in User |-> {}] /\ refused = [u \in User |-> {}]
  BY DEF Init
<1>2. [u \in User |-> made[u] - Len(queue[u])] = [u \in User |-> 0]
  BY <1>1
<1>3. QED BY <1>1, <1>2 DEF Queue!Init

\* A write that is made is at the end of its user's queue.
LEMMA WriteMakes ==
    ASSUME WritesInv, Write
    PROVE  Queue!Make(user)
<1>1. /\ user \in User /\ queue \in [User -> Seq(Numbers)] /\ made \in [User -> 0..MaxWrites]
      /\ made[user] < MaxWrites
  BY DEF WritesInv, WritesTyped, Write
<1>2. /\ made' = [made EXCEPT ![user] = @ + 1] /\ UNCHANGED <<taken, refused>>
      /\ queue' = [queue EXCEPT ![user] = Append(@, made'[user])]
  BY DEF Write, backend
<1>3. /\ made'[user] = made[user] + 1 /\ queue'[user] = Append(queue[user], made[user] + 1)
      /\ \A u \in User : u # user => made'[u] = made[u] /\ queue'[u] = queue[u]
  BY <1>1, <1>2
<1>4. made[user] + 1 \in Numbers /\ queue[user] \in Seq(Numbers)
  <2>1. made[user] \in Nat
    BY <1>1, SettledAt
  <2>2. QED BY <1>1, <2>1, PipelineAssumption DEF Numbers
<1>5. Len(queue'[user]) = Len(queue[user]) + 1
  BY <1>3, <1>4, AppendAt
<1>6. \A u \in User : made'[u] - Len(queue'[u]) = made[u] - Len(queue[u])
  <2>1. SUFFICES ASSUME NEW u \in User
                 PROVE  made'[u] - Len(queue'[u]) = made[u] - Len(queue[u])
    OBVIOUS
  <2>2. CASE u = user
    <3> DEFINE n == Len(queue[user])
               n2 == Len(queue'[user])
    <3>1. n \in Nat /\ made[user] \in Nat
      BY <1>1, SettledAt
    <3>2. n2 = n + 1 /\ made'[user] = made[user] + 1
      BY <1>3, <1>5
    <3> HIDE DEF n, n2
    <3>3. made'[user] - n2 = made[user] - n
      BY <3>1, <3>2
    <3>4. QED BY <2>2, <3>3 DEF n, n2
  <2>3. CASE u # user
    BY <1>3, <2>3
  <2>4. QED BY <2>2, <2>3
<1>7. [u \in User |-> made[u] - Len(queue[u])]' = [u \in User |-> made[u] - Len(queue[u])]
  BY <1>6
<1>8. QED BY <1>2, <1>7 DEF Queue!Make

\* The write that leaves a queue is its user's first, and the backend's answer
\* to it has come.
LEMMA AnswerSettles ==
    ASSUME WritesInv, stream = "ready", responses # <<>>, PopFirst,
           UNCHANGED <<user, made, taken, refused>>
    PROVE  Queue!Settle(user)
<1>1. /\ user \in User /\ token = user /\ pipeline # <<>>
      /\ Head(responses) = responses[1] /\ 1 \in DOMAIN responses
      /\ Head(responses).write = (made[user] - Len(queue[user])) + 1
  BY FirstAnswered DEF WritesInv, WritesTyped, TokenRight
<1>2. /\ Len(queue[user]) \in Nat /\ Len(queue[user]) # 0
      /\ Len(queue'[user]) = Len(queue[user]) - 1
      /\ \A u \in User : u # user => queue'[u] = queue[u]
  BY <1>1, PopKeeps DEF WritesInv
<1>3. /\ SettledNow[user] = made[user] - Len(queue[user]) /\ SettledNow[user] \in Nat
      /\ made[user] \in Nat /\ Len(queue[user]) <= made[user]
  BY <1>1, SettledAt
<1>4. SettledNow[user] < made[user] /\ made[user] - Len(queue'[user]) = SettledNow[user] + 1
  <2> DEFINE n == Len(queue[user])
             n2 == Len(queue'[user])
             s == SettledNow[user]
  <2>1. /\ n \in Nat /\ n # 0 /\ n2 = n - 1 /\ s = made[user] - n /\ made[user] \in Nat
    BY <1>2, <1>3
  <2> HIDE DEF n, n2, s
  <2>2. s < made[user] /\ made[user] - n2 = s + 1
    BY <2>1
  <2>3. QED BY <2>2 DEF n, n2, s
<1>5. SettledNow[user] + 1 \in taken[user] \cup refused[user]
  <2>1. responses[1].write \in taken[token] \cup refused[token]
    BY <1>1 DEF WritesInv, Answered
  <2>2. responses[1].write = SettledNow[user] + 1
    BY <1>1, <1>3
  <2>3. QED BY <1>1, <2>1, <2>2
<1>6. SettledNow' = [SettledNow EXCEPT ![user] = @ + 1]
  <2>1. \A u \in User : SettledNow'[u] = IF u = user THEN SettledNow[user] + 1 ELSE SettledNow[u]
    <3>1. \A u \in User : SettledNow'[u] = made'[u] - Len(queue'[u])
      BY DEF SettledNow
    <3>2. SettledNow'[user] = SettledNow[user] + 1
      BY <1>1, <1>4, <3>1
    <3>3. \A u \in User : u # user => SettledNow'[u] = SettledNow[u]
      BY <1>2, <3>1 DEF SettledNow
    <3>4. QED BY <3>2, <3>3
  <2>2. SettledNow' = [u \in User |-> SettledNow'[u]] /\ SettledNow = [u \in User |-> SettledNow[u]]
    BY DEF SettledNow
  <2> HIDE DEF SettledNow
  <2>3. [SettledNow EXCEPT ![user] = @ + 1]
           = [u \in User |-> IF u = user THEN SettledNow[user] + 1 ELSE SettledNow[u]]
    BY <2>2
  <2>4. QED BY <2>1, <2>2, <2>3
<1>7. QED
  BY <1>4, <1>5, <1>6 DEF Queue!Settle, Queue!Judged, SettledNow

\* The backend judges a write after all those before it, which are off the queue
\* or were answered on the same stream.
LEMMA BackendJudges ==
    ASSUME WritesInv, Judge
    PROVE  /\ user \in User /\ Head(requests) \in 1..made[user]
           /\ Queue!Judge(user, Head(requests))
<1> DEFINE w == Head(requests)
           h == Len(responses)
           s == SettledNow[user]
<1>1. /\ requests # <<>> /\ \A i \in DOMAIN responses : responses[i].ok
      /\ UNCHANGED <<made, queue>> /\ user \in User
  BY DEF Judge, WritesInv, WritesTyped
<1>2. /\ token = user /\ h \in Nat /\ h < Len(queue[user])
      /\ w = (made[user] - Len(queue[user])) + (h + 1)
      /\ \A i \in DOMAIN responses : responses[i].write = (made[user] - Len(queue[user])) + i
      /\ DOMAIN responses = 1..h
  BY <1>1, NextOnWire, SeqAt DEF WritesInv, WritesTyped
<1>3. /\ s = made[user] - Len(queue[user]) /\ s \in Nat
      /\ made[user] \in Nat /\ Len(queue[user]) \in Nat
  BY <1>1, SettledAt
<1>4. w = s + (h + 1) /\ \A i \in 1..h : responses[i].write = s + i
  BY <1>2, <1>3
<1>5. w \in (s + 1)..made[user] /\ w \in 1..made[user]
  <2> DEFINE n == Len(queue[user])
  <2>1. n \in Nat /\ h < n /\ s = made[user] - n
    BY <1>2, <1>3
  <2> HIDE DEF n, h, s, w
  <2>2. QED BY <1>2, <1>3, <1>4, <2>1, SMTT(30)
<1>6. \A i \in 1..h : s + i \in taken[user]
  BY <1>1, <1>2, <1>4 DEF WritesInv, Answered
<1>7. \A k \in 1..(w - 1) : k <= s \/ k \in taken[user] \cup refused[user]
  <2> HIDE DEF h, s, w
  <2>1. SUFFICES ASSUME NEW k \in 1..(w - 1), ~(k <= s)
                 PROVE  k \in taken[user]
    OBVIOUS
  <2>2. s \in Nat /\ h \in Nat /\ w = s + (h + 1)
    BY <1>2, <1>3, <1>4
  <2>3. k - s \in 1..h /\ s + (k - s) = k
    BY <2>1, <2>2
  <2>4. QED BY <1>6, <2>3
<1>8. \/ taken' = [taken EXCEPT ![user] = @ \cup {w}] /\ UNCHANGED refused
      \/ refused' = [refused EXCEPT ![user] = @ \cup {w}] /\ UNCHANGED taken
  BY <1>2 DEF Judge
<1>9. [u \in User |-> made[u] - Len(queue[u])]' = [u \in User |-> made[u] - Len(queue[u])]
  BY <1>1
<1>10. s = [u \in User |-> made[u] - Len(queue[u])][user]
  BY DEF SettledNow
<1> HIDE DEF w, s
<1>11. Queue!Judge(user, w)
  BY <1>1, <1>5, <1>7, <1>8, <1>9, <1>10 DEF Queue!Judge, Queue!Judged
<1>12. QED BY <1>1, <1>5, <1>11 DEF w

LEMMA StepIsQueueStep ==
    ASSUME PipelineInv, [Next]_vars
    PROVE  [Queue!Next]_(Queue!vars)
<1>1. WritesInv /\ user \in User
  BY DEF PipelineInv, WritesInv, WritesTyped
<1>2. CASE UNCHANGED vars
  BY <1>2, QueueStill DEF vars, backend
<1>3. CASE Write
  BY <1>1, <1>3, WriteMakes DEF Queue!Next
<1>4. CASE Judge
  BY <1>1, <1>4, BackendJudges DEF Queue!Next
<1>5. CASE MutationResult
  <2>1. /\ stream = "ready" /\ responses # <<>> /\ PopFirst
        /\ UNCHANGED <<user, made, taken, refused>>
    BY <1>5 DEF MutationResult, backend
  <2>2. Queue!Settle(user)
    BY <1>1, <2>1, AnswerSettles
  <2>3. Queue!Next
    BY <1>1, <2>2 DEF Queue!Next, Queue!Settle, Queue!Judged
  <2>4. QED BY <2>3
<1>6. CASE Refused
  <2>1. /\ stream = "ready" /\ responses # <<>> /\ ~Head(responses).ok
        /\ StreamCloses(Head(responses))
    BY <1>6 DEF Refused
  <2>2. pipeline # <<>>
    BY <1>1, <2>1, FirstAnswered
  <2>3. PopFirst /\ UNCHANGED <<user, made, taken, refused>>
    BY <2>1, <2>2 DEF StreamCloses, Permanent, backend
  <2>4. Queue!Settle(user)
    BY <1>1, <2>1, <2>3, AnswerSettles
  <2>5. Queue!Next
    BY <1>1, <2>4 DEF Queue!Next, Queue!Settle, Queue!Judged
  <2>6. QED BY <2>5
<1>7. ASSUME StreamCloses(Broken)
      PROVE  UNCHANGED Queue!vars
  <2>1. UNCHANGED <<made, taken, refused, queue>>
    BY <1>7 DEF StreamCloses, Permanent, Broken, backend
  <2>2. QED BY <2>1, QueueStill
<1>8. CASE StreamBreaks \/ TokenFails
  BY <1>7, <1>8 DEF StreamBreaks, TokenFails
<1>9. CASE \/ BackoffElapses \/ StreamOpens \/ HandshakeComplete
           \/ CredentialChange \/ TokenArrives \/ Started
  <2>1. UNCHANGED <<made, taken, refused, queue>>
    BY <1>9 DEF BackoffElapses, StreamOpens, HandshakeComplete, CredentialChange, TokenArrives,
                Started, backend
  <2>2. QED BY <2>1, QueueStill
<1>10. CASE \/ TokenAsked \/ TokenRefreshed \/ Announced \/ ConnectivityChange \/ IdleStop
            \/ Killed \/ \E u \in User : AuthChanges(u)
  <2>1. UNCHANGED <<made, taken, refused, queue>>
    BY <1>10 DEF TokenAsked, TokenRefreshed, Announced, ConnectivityChange, IdleStop, Killed,
                 AuthChanges, backend
  <2>2. QED BY <2>1, QueueStill
<1>11. QED
  BY <1>2, <1>3, <1>4, <1>5, <1>6, <1>8, <1>9, <1>10 DEF Next, ClientStep

\* Whatever breaks, restarts and changes of user overlap, each user's writes
\* reach the backend in order and as that user's, and each leaves the queue once,
\* in order, after the backend took or refused it.
THEOREM WriteQueueImplemented ==
    Spec => ImplementsWriteQueue
<1>1. Init => Queue!Init
  BY QueueStarts
<1>2. PipelineInv /\ [Next]_vars => [Queue!Next]_(Queue!vars)
  BY StepIsQueueStep
<1>3. QED
  BY <1>1, <1>2, PipelineKept, PTL DEF Spec, ImplementsWriteQueue, Queue!Spec
=============================================================================
