---------------------------- MODULE SequenceFacts ----------------------------
(***************************************************************************)
(* What the operators on sequences return, element by element: the facts   *)
(* that the proofs about queues, lists and logs keep needing.              *)
(***************************************************************************)
EXTENDS Integers, SequencesExt, FiniteSetTheorems, SequenceTheorems, TLAPS

LEMMA SeqAt ==
    ASSUME NEW S, NEW s \in Seq(S)
    PROVE  /\ Len(s) \in Nat /\ DOMAIN s = 1..Len(s)
           /\ \A i \in DOMAIN s : s[i] \in S /\ i \in Nat
           /\ s = <<>> <=> Len(s) = 0
<1>1. Len(s) \in Nat /\ DOMAIN s = 1..Len(s)
  BY LenProperties
<1>2. \A i \in 1..Len(s) : s[i] \in S
  BY ElementOfSeq
<1>3. s = <<>> <=> Len(s) = 0
  BY EmptySeq
<1>4. QED BY <1>1, <1>2, <1>3

LEMMA AppendAt ==
    ASSUME NEW S, NEW s \in Seq(S), NEW x \in S
    PROVE  /\ Append(s, x) \in Seq(S) /\ Append(s, x) # <<>>
           /\ Len(Append(s, x)) = Len(s) + 1
           /\ DOMAIN Append(s, x) = 1..(Len(s) + 1)
           /\ \A i \in 1..Len(s) : Append(s, x)[i] = s[i]
           /\ Append(s, x)[Len(s) + 1] = x
<1>1. /\ Append(s, x) \in Seq(S) /\ Len(Append(s, x)) = Len(s) + 1
      /\ \A i \in 1..Len(s) : Append(s, x)[i] = s[i]
      /\ Append(s, x)[Len(s) + 1] = x
  BY AppendProperties
<1>2. Len(s) + 1 # 0
  BY SeqAt
<1>3. DOMAIN Append(s, x) = 1..(Len(s) + 1) /\ Append(s, x) # <<>>
  BY <1>1, <1>2, SeqAt
<1>4. QED BY <1>1, <1>3

LEMMA TailAt ==
    ASSUME NEW S, NEW s \in Seq(S), s # <<>>
    PROVE  /\ Head(s) = s[1] /\ Head(s) \in S /\ 1 \in DOMAIN s
           /\ Tail(s) \in Seq(S)
           /\ Len(Tail(s)) = Len(s) - 1 /\ Len(s) - 1 \in Nat
           /\ DOMAIN Tail(s) = 1..(Len(s) - 1)
           /\ \A i \in 1..(Len(s) - 1) : Tail(s)[i] = s[i + 1] /\ i + 1 \in DOMAIN s
<1>1. Len(s) \in Nat /\ DOMAIN s = 1..Len(s) /\ Len(s) # 0
  BY SeqAt
<1>2. /\ Head(s) = s[1] /\ Head(s) \in S
      /\ Tail(s) \in Seq(S) /\ Len(Tail(s)) = Len(s) - 1
      /\ \A i \in 1..Len(Tail(s)) : Tail(s)[i] = s[i + 1]
  BY HeadTailProperties
<1>3. DOMAIN Tail(s) = 1..(Len(s) - 1)
  BY <1>2, SeqAt
<1>4. 1 \in DOMAIN s /\ Len(s) - 1 \in Nat /\ \A i \in 1..(Len(s) - 1) : i + 1 \in DOMAIN s
  BY <1>1
<1>5. QED BY <1>1, <1>2, <1>3, <1>4

LEMMA ConcatAt ==
    ASSUME NEW S, NEW s \in Seq(S), NEW t \in Seq(S)
    PROVE  /\ s \o t \in Seq(S)
           /\ Len(s \o t) = Len(s) + Len(t)
           /\ DOMAIN (s \o t) = 1..(Len(s) + Len(t))
           /\ \A i \in 1..Len(s) : (s \o t)[i] = s[i]
           /\ \A i \in 1..Len(t) : (s \o t)[Len(s) + i] = t[i]
<1>1. s \o t \in Seq(S) /\ Len(s \o t) = Len(s) + Len(t)
  BY ConcatProperties
<1>2. \A i \in 1..(Len(s) + Len(t)) :
         (s \o t)[i] = IF i <= Len(s) THEN s[i] ELSE t[i - Len(s)]
  BY ConcatProperties
<1>3. Len(s) \in Nat /\ Len(t) \in Nat /\ DOMAIN (s \o t) = 1..(Len(s) + Len(t))
  BY <1>1, SeqAt
<1>4. \A i \in 1..Len(s) : i \in 1..(Len(s) + Len(t)) /\ i <= Len(s)
  BY <1>3
<1>5. \A i \in 1..Len(t) : /\ Len(s) + i \in 1..(Len(s) + Len(t))
                           /\ ~(Len(s) + i <= Len(s)) /\ (Len(s) + i) - Len(s) = i
  BY <1>3
<1>6. \A i \in 1..Len(s) : (s \o t)[i] = s[i]
  BY <1>2, <1>4
<1>7. \A i \in 1..Len(t) : (s \o t)[Len(s) + i] = t[i]
  BY <1>2, <1>5
<1>8. QED BY <1>1, <1>3, <1>6, <1>7

LEMMA SubSeqAt ==
    ASSUME NEW S, NEW s \in Seq(S), NEW m \in Nat, NEW n \in Nat,
           m + n <= Len(s)
    PROVE  /\ SubSeq(s, m + 1, m + n) \in Seq(S)
           /\ Len(SubSeq(s, m + 1, m + n)) = n
           /\ \A i \in 1..n : SubSeq(s, m + 1, m + n)[i] = s[m + i]
<1>1. Len(s) \in Nat /\ \A i \in 1..Len(s) : s[i] \in S
  BY SeqAt
<1>2. SubSeq(s, m + 1, m + n) = [i \in 1..n |-> s[m + i]]
  BY <1>1
<1>3. [i \in 1..n |-> s[m + i]] \in [1..n -> S]
  BY <1>1
<1>4. [i \in 1..n |-> s[m + i]] \in Seq(S)
  BY <1>3
<1>5. Len([i \in 1..n |-> s[m + i]]) = n
  OBVIOUS
<1>6. QED BY <1>2, <1>4, <1>5

LEMMA SeqMore ==
    ASSUME NEW S, NEW T, S \subseteq T, NEW s \in Seq(S)
    PROVE  s \in Seq(T)
<1>1. Len(s) \in Nat /\ DOMAIN s = 1..Len(s) /\ \A i \in DOMAIN s : s[i] \in T
  BY SeqAt
<1>2. s = [i \in 1..Len(s) |-> s[i]]
  BY LenProperties
<1>3. QED BY <1>1, <1>2

LEMMA DropAt ==
    ASSUME NEW S, NEW s \in Seq(S), NEW l \in Nat, l <= Len(s)
    PROVE  /\ SubSeq(s, 1 + l, Len(s)) \in Seq(S)
           /\ Len(SubSeq(s, 1 + l, Len(s))) = Len(s) - l
           /\ \A i \in 1..(Len(s) - l) : SubSeq(s, 1 + l, Len(s))[i] = s[l + i]
<1> DEFINE n == Len(s)
<1>1. n \in Nat /\ n - l \in Nat /\ l + (n - l) = n /\ 1 + l = l + 1
  <2>1. n \in Nat
    BY SeqAt
  <2>2. QED BY <2>1
<1> DEFINE m == n - l
<1>2. m \in Nat /\ l + m = n /\ l + m <= Len(s)
  BY <1>1
<1> HIDE DEF m
<1>3. /\ SubSeq(s, l + 1, l + m) \in Seq(S) /\ Len(SubSeq(s, l + 1, l + m)) = m
      /\ \A i \in 1..m : SubSeq(s, l + 1, l + m)[i] = s[l + i]
  BY <1>2, SubSeqAt
<1>4. SubSeq(s, 1 + l, Len(s)) = SubSeq(s, l + 1, l + m)
  BY <1>1, <1>2
<1>5. QED BY <1>3, <1>4 DEF m

LEMMA TakeAt ==
    ASSUME NEW S, NEW s \in Seq(S), NEW m \in Nat, Len(s) > m
    PROVE  /\ SubSeq(s, 1, m) \in Seq(S) /\ Len(SubSeq(s, 1, m)) = m
           /\ \A i \in 1..m : SubSeq(s, 1, m)[i] = s[i]
<1>1. Len(s) \in Nat /\ 0 + m <= Len(s) /\ 0 \in Nat /\ 0 + 1 = 1 /\ 0 + m = m
  BY SeqAt
<1>2. /\ SubSeq(s, 0 + 1, 0 + m) \in Seq(S) /\ Len(SubSeq(s, 0 + 1, 0 + m)) = m
      /\ \A i \in 1..m : SubSeq(s, 0 + 1, 0 + m)[i] = s[0 + i]
  BY <1>1, SubSeqAt
<1>3. \A i \in 1..m : 0 + i = i
  OBVIOUS
<1>4. QED BY <1>1, <1>2, <1>3

LEMMA FirstRemoved ==
    ASSUME NEW S, NEW s \in Seq(S), s # <<>>
    PROVE  RemoveAt(s, 1) = Tail(s)
<1>1. Tail(s) = SubSeq(s, 2, Len(s)) /\ Tail(s) \in Seq(S)
  BY TailIsSubSeq, TailAt
<1>2. 1 - 1 = 0 /\ 1 + 1 = 2 /\ 0 \in Int /\ 1 \in Int /\ 0 < 1
  OBVIOUS
<1>3. SubSeq(s, 1, 0) = <<>>
  BY <1>2, SubSeqEmpty
<1>4. <<>> \o Tail(s) = Tail(s)
  BY <1>1, ConcatEmptySeq
<1>5. QED BY <1>1, <1>2, <1>3, <1>4 DEF RemoveAt

LEMMA ExceptAt ==
    ASSUME NEW S, NEW s \in Seq(S), NEW i \in DOMAIN s, NEW x \in S
    PROVE  /\ [s EXCEPT ![i] = x] \in Seq(S)
           /\ Len([s EXCEPT ![i] = x]) = Len(s)
           /\ DOMAIN [s EXCEPT ![i] = x] = DOMAIN s
           /\ [s EXCEPT ![i] = x][i] = x
           /\ \A j \in DOMAIN s : j # i => [s EXCEPT ![i] = x][j] = s[j]
<1>1. /\ [s EXCEPT ![i] = x] \in Seq(S) /\ Len([s EXCEPT ![i] = x]) = Len(s)
      /\ \A j \in 1..Len(s) : [s EXCEPT ![i] = x][j] = IF j = i THEN x ELSE s[j]
  BY ExceptSeq, SeqAt
<1>2. DOMAIN [s EXCEPT ![i] = x] = DOMAIN s /\ DOMAIN s = 1..Len(s)
  BY SeqAt
<1>3. QED BY <1>1, <1>2

\* Taking one element out leaves the others in their order.
LEMMA RemovedAt ==
    ASSUME NEW S, NEW r \in Seq(S), NEW i \in DOMAIN r
    PROVE  /\ RemoveAt(r, i) \in Seq(S) /\ Len(r) - 1 \in Nat
           /\ Len(RemoveAt(r, i)) = Len(r) - 1 /\ DOMAIN RemoveAt(r, i) = 1..(Len(r) - 1)
           /\ \A k \in 1..(Len(r) - 1) : RemoveAt(r, i)[k] = r[IF k < i THEN k ELSE k + 1]
<1> DEFINE n == Len(r)
           s == SubSeq(r, 1, i - 1)
           t == SubSeq(r, i + 1, n)
<1>1. DOMAIN r = 1..n /\ n \in Nat /\ i \in 1..n /\ \A j \in 1..n : r[j] \in S
  BY SeqAt
<1>2. /\ s \in Seq(S) /\ Len(s) = i - 1 /\ \A k \in 1..(i - 1) : s[k] = r[k]
      /\ t \in Seq(S) /\ Len(t) = n - i /\ \A k \in 1..(n - i) : t[k] = r[i + k]
  BY <1>1
<1> HIDE DEF s, t
<1>3. RemoveAt(r, i) = s \o t
  BY DEF RemoveAt, s, t
<1> HIDE DEF n
<1>4. /\ s \o t \in Seq(S) /\ Len(s \o t) = Len(s) + Len(t)
      /\ DOMAIN (s \o t) = 1..(Len(s) + Len(t))
  <2>1. s \in Seq(S) /\ t \in Seq(S)
    BY <1>2
  <2>2. QED BY <2>1, ConcatAt
<1>5. \A k \in 1..(Len(s) + Len(t)) : (s \o t)[k] = IF k <= Len(s) THEN s[k] ELSE t[k - Len(s)]
  <2>1. s \in Seq(S) /\ t \in Seq(S)
    BY <1>2
  <2>2. QED BY <2>1, ConcatProperties
<1>6. Len(s) + Len(t) = n - 1 /\ n - 1 \in Nat
  <2>1. n \in Nat /\ i \in 1..n
    BY <1>1
  <2>2. Len(s) = i - 1 /\ Len(t) = n - i
    BY <1>2
  <2>3. (i - 1) + (n - i) = n - 1 /\ n - 1 \in Nat
    BY <2>1
  <2>4. QED BY <2>2, <2>3
<1>7. ASSUME NEW k \in 1..(n - 1)
      PROVE  (s \o t)[k] = r[IF k < i THEN k ELSE k + 1]
  <2>1. CASE k < i
    <3>1. k \in 1..(i - 1) /\ k <= Len(s) /\ k \in 1..(Len(s) + Len(t))
      BY <1>1, <1>2, <1>6, <2>1
    <3>2. QED BY <1>2, <1>5, <2>1, <3>1
  <2>2. CASE ~(k < i)
    <3>1. /\ k - Len(s) \in 1..(n - i) /\ ~(k <= Len(s)) /\ k \in 1..(Len(s) + Len(t))
          /\ i + (k - Len(s)) = k + 1
      BY <1>1, <1>2, <1>6, <2>2
    <3>2. QED BY <1>2, <1>5, <2>2, <3>1
  <2>3. QED BY <2>1, <2>2
<1>8. QED BY <1>3, <1>4, <1>6, <1>7 DEF n
=============================================================================
