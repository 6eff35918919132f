--------------------------- MODULE SequenceLemmas ---------------------------
(***************************************************************************)
(* What the proofs about queues need of sequences: how elements move from  *)
(* one queue to the next, and that a prefix stays one.                     *)
(***************************************************************************)
EXTENDS Streams, SequenceTheorems, TLAPS

(* Moving the head of one queue to the end of the other keeps the whole.   *)
LEMMA MoveHead ==
  ASSUME NEW S, NEW s \in Seq(S), NEW t \in Seq(S), t # << >>
  PROVE  Append(s, Head(t)) \o Tail(t) = s \o t
<1>1. /\ Head(t) \in S /\ Tail(t) \in Seq(S) /\ Len(Tail(t)) = Len(t) - 1
      /\ Append(s, Head(t)) \in Seq(S) /\ Len(Append(s, Head(t))) = Len(s) + 1
      /\ Len(t) \in Nat \ {0} /\ Len(s) \in Nat
  OBVIOUS
<1>2. /\ Append(s, Head(t)) \o Tail(t) \in Seq(S) /\ s \o t \in Seq(S)
      /\ Len(Append(s, Head(t)) \o Tail(t)) = Len(s \o t)
      /\ Len(s \o t) = Len(s) + Len(t)
  BY <1>1, ConcatProperties
<1>3. ASSUME NEW i \in 1..Len(s \o t)
      PROVE  (Append(s, Head(t)) \o Tail(t))[i] = (s \o t)[i]
  BY <1>1, <1>2
<1> QED
  BY <1>2, <1>3, SeqEqual

LEMMA AppendToConcat ==
  ASSUME NEW S, NEW s \in Seq(S), NEW t \in Seq(S), NEW m \in S
  PROVE  s \o Append(t, m) = Append(s \o t, m)
<1>1. <<m>> \in Seq(S) /\ s \o t \in Seq(S)
  BY ConcatProperties
<1>2. Append(t, m) = t \o <<m>> /\ Append(s \o t, m) = (s \o t) \o <<m>>
  BY <1>1, AppendIsConcat
<1> QED
  BY <1>1, <1>2, ConcatAssociative

LEMMA StartOfConcat ==
  ASSUME NEW S, NEW s \in Seq(S), NEW t \in Seq(S)
  PROVE  IsStartOf(s, s \o t)
<1>1. /\ Len(s \o t) = Len(s) + Len(t) /\ Len(s) \in Nat /\ Len(t) \in Nat
      /\ \A i \in 1..Len(s) : (s \o t)[i] = s[i]
  BY ConcatProperties
<1> QED
  BY <1>1 DEF IsStartOf

LEMMA EmptyLog == << >> \o << >> = << >> /\ IsStartOf(<< >>, << >>)
<1>1. << >> \in Seq({})
  OBVIOUS
<1>2. << >> \o << >> = << >>
  BY <1>1, ConcatEmptySeq
<1> QED
  BY <1>1, <1>2, StartOfConcat, Zenon

LEMMA StartOfAppend ==
  ASSUME NEW S, NEW s \in Seq(S), NEW t \in Seq(S), NEW m \in S,
         IsStartOf(s, t)
  PROVE  IsStartOf(s, Append(t, m))
<1>1. /\ Len(Append(t, m)) = Len(t) + 1 /\ Len(s) \in Nat /\ Len(t) \in Nat
      /\ \A i \in 1..Len(t) : Append(t, m)[i] = t[i]
  OBVIOUS
<1> QED
  BY <1>1 DEF IsStartOf

LEMMA StartWithoutLast ==
  ASSUME NEW S, NEW s \in Seq(S), NEW t \in Seq(S), NEW m \in S,
         IsStartOf(Append(s, m), t)
  PROVE  IsStartOf(s, t)
<1>1. /\ Len(Append(s, m)) = Len(s) + 1 /\ Len(s) \in Nat /\ Len(t) \in Nat
      /\ \A i \in 1..Len(s) : Append(s, m)[i] = s[i]
  OBVIOUS
<1> QED
  BY <1>1 DEF IsStartOf

-----------------------------------------------------------------------------
(* Blocks on a queue: those of the kinds K, at most one of them, and what  *)
(* they would add to the sequence t for it to be s.                        *)
Has(q, K)          == \E i \in DOMAIN q : q[i].do \in K
Once(q, K)         == \A i, j \in DOMAIN q : q[i].do \in K /\ q[j].do \in K => i = j
Completes(q, K, t, s) == \A i \in DOMAIN q : q[i].do \in K => s = Append(t, q[i].arg)

LEMMA OnEmpty ==
  ASSUME NEW K
  PROVE  ~Has(<< >>, K) /\ Once(<< >>, K)
BY DEF Has, Once

LEMMA OnAppend ==
  ASSUME NEW S, NEW q \in Seq(S), NEW b \in S, NEW K
  PROVE  /\ Has(Append(q, b), K) <=> Has(q, K) \/ b.do \in K
         /\ Once(q, K) /\ (b.do \in K => ~Has(q, K)) => Once(Append(q, b), K)
<1>1. /\ Append(q, b) \in Seq(S) /\ Len(Append(q, b)) = Len(q) + 1 /\ Len(q) \in Nat
      /\ DOMAIN q = 1..Len(q) /\ DOMAIN Append(q, b) = 1..(Len(q) + 1)
  OBVIOUS
<1>2. /\ \A i \in 1..Len(q) : Append(q, b)[i] = q[i]
      /\ Append(q, b)[Len(q) + 1] = b
  OBVIOUS
<1> DEFINE p == Append(q, b)
           n == Len(q)
<1> HIDE DEF p, n
<1>3. \A i \in 1..(n + 1) : i \in 1..n \/ i = n + 1
  BY <1>1 DEF n
<1>4. 1..n \subseteq 1..(n + 1) /\ n + 1 \in 1..(n + 1)
  BY <1>1 DEF n
<1>5. /\ DOMAIN q = 1..n /\ DOMAIN p = 1..(n + 1)
      /\ \A i \in 1..n : p[i] = q[i]
      /\ p[n + 1] = b
  BY <1>1, <1>2, Zenon DEF p, n
<1>6. Has(p, K) <=> Has(q, K) \/ b.do \in K
  BY <1>3, <1>4, <1>5, Zenon DEF Has
<1>7. Once(q, K) /\ (b.do \in K => ~Has(q, K)) => Once(p, K)
  BY <1>3, <1>5, Zenon DEF Has, Once
<1> QED
  BY <1>6, <1>7, Zenon DEF p

LEMMA OnTail ==
  ASSUME NEW S, NEW q \in Seq(S), q # << >>, NEW K
  PROVE  /\ Has(q, K) <=> Head(q).do \in K \/ Has(Tail(q), K)
         /\ Once(q, K) => Once(Tail(q), K)
         /\ Once(q, K) /\ Head(q).do \in K => ~Has(Tail(q), K)
<1>1. /\ Len(q) \in Nat /\ Len(q) # 0 /\ DOMAIN q = 1..Len(q)
      /\ Tail(q) \in Seq(S) /\ Len(Tail(q)) = Len(q) - 1
      /\ DOMAIN Tail(q) = 1..(Len(q) - 1)
  OBVIOUS
<1>2. \A i \in 1..(Len(q) - 1) : Tail(q)[i] = q[i + 1]
  OBVIOUS
<1>3. Head(q) = q[1]
  OBVIOUS
<1> DEFINE p == Tail(q)
           n == Len(q)
<1> HIDE DEF p, n
<1>4. /\ \A i \in 1..n : i = 1 \/ (i - 1 \in 1..(n - 1) /\ (i - 1) + 1 = i)
      /\ \A i \in 1..(n - 1) : i + 1 \in 1..n /\ i + 1 # 1
      /\ \A i, j \in 1..(n - 1) : i + 1 = j + 1 => i = j
      /\ 1 \in 1..n
  BY <1>1 DEF n
<1>5. /\ DOMAIN q = 1..n /\ DOMAIN p = 1..(n - 1)
      /\ \A i \in 1..(n - 1) : p[i] = q[i + 1]
      /\ Head(q) = q[1]
  BY <1>1, <1>2, <1>3, Zenon DEF p, n
<1>6. Has(q, K) <=> Head(q).do \in K \/ Has(p, K)
  <2>1. ASSUME Has(q, K), Head(q).do \notin K PROVE Has(p, K)
    <3>1. PICK i \in 1..n : q[i].do \in K
      BY <1>5, <2>1, Zenon DEF Has
    <3>2. i - 1 \in 1..(n - 1) /\ (i - 1) + 1 = i
      BY <1>4, <1>5, <2>1, <3>1, Zenon
    <3>3. p[i - 1] = q[i]
      BY <1>5, <3>2, Zenon
    <3> QED
      BY <1>5, <3>1, <3>2, <3>3, Zenon DEF Has
  <2>2. Head(q).do \in K => Has(q, K)
    BY <1>4, <1>5, Zenon DEF Has
  <2>3. Has(p, K) => Has(q, K)
    BY <1>4, <1>5, Zenon DEF Has
  <2> QED
    BY <2>1, <2>2, <2>3
<1>7. Once(q, K) => Once(p, K)
  <2> SUFFICES ASSUME Once(q, K), NEW i \in 1..(n - 1), NEW j \in 1..(n - 1),
                      p[i].do \in K, p[j].do \in K
               PROVE  i = j
    BY <1>5, Zenon DEF Once
  <2>1. q[i + 1].do \in K /\ q[j + 1].do \in K
    BY <1>5, Zenon
  <2>2. i + 1 = j + 1
    BY <1>4, <1>5, <2>1, Zenon DEF Once
  <2> QED
    BY <1>4, <2>2, Zenon
<1>8. Once(q, K) /\ Head(q).do \in K => ~Has(p, K)
  BY <1>4, <1>5, Zenon DEF Has, Once
<1> QED
  BY <1>6, <1>7, <1>8, Zenon DEF p

(* What the blocks of the kinds K complete, as the queue changes.          *)
LEMMA CompletesNone ==
  ASSUME NEW q, NEW K, NEW t, NEW s, ~Has(q, K)
  PROVE  Completes(q, K, t, s)
BY DEF Has, Completes

LEMMA CompletesAppend ==
  ASSUME NEW S, NEW q \in Seq(S), NEW b \in S, NEW K, NEW t, NEW s,
         Completes(q, K, t, s), b.do \in K => s = Append(t, b.arg)
  PROVE  Completes(Append(q, b), K, t, s)
<1>1. /\ Len(q) \in Nat /\ DOMAIN q = 1..Len(q) /\ DOMAIN Append(q, b) = 1..(Len(q) + 1)
      /\ \A i \in 1..Len(q) : Append(q, b)[i] = q[i]
      /\ Append(q, b)[Len(q) + 1] = b
  OBVIOUS
<1>2. \A i \in 1..(Len(q) + 1) : i \in 1..Len(q) \/ i = Len(q) + 1
  BY <1>1
<1> QED
  BY <1>1, <1>2, Zenon DEF Completes

LEMMA CompletesTail ==
  ASSUME NEW S, NEW q \in Seq(S), q # << >>, NEW K, NEW t, NEW s,
         Completes(q, K, t, s)
  PROVE  /\ Completes(Tail(q), K, t, s)
         /\ Head(q).do \in K => s = Append(t, Head(q).arg)
<1>1. /\ Len(q) \in Nat /\ Len(q) # 0 /\ DOMAIN q = 1..Len(q)
      /\ DOMAIN Tail(q) = 1..(Len(q) - 1)
      /\ \A i \in 1..(Len(q) - 1) : Tail(q)[i] = q[i + 1]
      /\ Head(q) = q[1]
  OBVIOUS
<1>2. /\ \A i \in 1..(Len(q) - 1) : i + 1 \in 1..Len(q)
      /\ 1 \in 1..Len(q)
  BY <1>1
<1> QED
  BY <1>1, <1>2, Zenon DEF Completes

-----------------------------------------------------------------------------
(* The blocks of the kinds J are in front of those of the kinds K, and the *)
(* blocks of the kinds K are in S.                                         *)
Before(q, J, K) == \A i, j \in DOMAIN q : q[i].do \in J /\ q[j].do \in K => i < j
Each(q, K, S)   == \A i \in DOMAIN q : q[i].do \in K => q[i] \in S

LEMMA OrderOnEmpty ==
  ASSUME NEW J, NEW K, NEW S
  PROVE  Before(<< >>, J, K) /\ Each(<< >>, K, S)
BY DEF Before, Each

LEMMA OrderOnAppend ==
  ASSUME NEW T, NEW q \in Seq(T), NEW b \in T, NEW J, NEW K, NEW S
  PROVE  /\ Before(q, J, K) /\ (b.do \in J => ~Has(q, K) /\ b.do \notin K)
              => Before(Append(q, b), J, K)
         /\ Each(q, K, S) /\ (b.do \in K => b \in S) => Each(Append(q, b), K, S)
<1>1. /\ Len(q) \in Nat /\ DOMAIN q = 1..Len(q) /\ DOMAIN Append(q, b) = 1..(Len(q) + 1)
      /\ \A i \in 1..Len(q) : Append(q, b)[i] = q[i]
      /\ Append(q, b)[Len(q) + 1] = b
  OBVIOUS
<1> DEFINE p == Append(q, b)
           n == Len(q)
<1> HIDE DEF p, n
<1>2. /\ \A i \in 1..(n + 1) : i \in 1..n \/ i = n + 1
      /\ \A i \in 1..n : i < n + 1
  BY <1>1 DEF n
<1>3. /\ DOMAIN q = 1..n /\ DOMAIN p = 1..(n + 1)
      /\ \A i \in 1..n : p[i] = q[i]
      /\ p[n + 1] = b
  BY <1>1, Zenon DEF p, n
<1>4. ASSUME Before(q, J, K), b.do \in J => ~Has(q, K) /\ b.do \notin K
      PROVE  Before(p, J, K)
  <2> SUFFICES ASSUME NEW i \in 1..(n + 1), NEW j \in 1..(n + 1), p[i].do \in J, p[j].do \in K
               PROVE  i < j
    BY <1>3, Zenon DEF Before
  <2>1. CASE i = n + 1
    <3>1. b.do \in J /\ ~Has(q, K) /\ b.do \notin K
      BY <1>3, <1>4, <2>1, Zenon
    <3>2. CASE j = n + 1
      BY <1>3, <3>1, <3>2, Zenon
    <3>3. CASE j \in 1..n
      BY <1>3, <3>1, <3>3, Zenon DEF Has
    <3> QED
      BY <1>2, <3>2, <3>3, Zenon
  <2>2. CASE i \in 1..n /\ j = n + 1
    BY <1>2, <2>2, Zenon
  <2>3. CASE i \in 1..n /\ j \in 1..n
    BY <1>3, <1>4, <2>3, Zenon DEF Before
  <2> QED
    BY <1>2, <2>1, <2>2, <2>3, Zenon
<1>5. Each(q, K, S) /\ (b.do \in K => b \in S) => Each(p, K, S)
  BY <1>2, <1>3, Zenon DEF Each
<1> QED
  BY <1>4, <1>5, Zenon DEF p

LEMMA OrderOnTail ==
  ASSUME NEW T, NEW q \in Seq(T), q # << >>, NEW J, NEW K, NEW S
  PROVE  /\ Before(q, J, K) => Before(Tail(q), J, K)
         /\ Before(q, J, K) /\ Head(q).do \in K => ~Has(q, J)
         /\ Each(q, K, S) => Each(Tail(q), K, S)
         /\ Each(q, K, S) /\ Head(q).do \in K => Head(q) \in S
<1>1. /\ Len(q) \in Nat /\ Len(q) # 0 /\ DOMAIN q = 1..Len(q)
      /\ DOMAIN Tail(q) = 1..(Len(q) - 1)
      /\ \A i \in 1..(Len(q) - 1) : Tail(q)[i] = q[i + 1]
      /\ Head(q) = q[1]
  OBVIOUS
<1> DEFINE p == Tail(q)
           n == Len(q)
<1> HIDE DEF p, n
<1>2. /\ \A i \in 1..(n - 1) : i + 1 \in 1..n
      /\ \A i, j \in 1..(n - 1) : i + 1 < j + 1 => i < j
      /\ 1 \in 1..n /\ \A i \in 1..n : ~(i < 1)
  BY <1>1 DEF n
<1>3. /\ DOMAIN q = 1..n /\ DOMAIN p = 1..(n - 1)
      /\ \A i \in 1..(n - 1) : p[i] = q[i + 1]
      /\ Head(q) = q[1]
  BY <1>1, Zenon DEF p, n
<1>4. ASSUME Before(q, J, K) PROVE Before(p, J, K)
  <2> SUFFICES ASSUME NEW i \in 1..(n - 1), NEW j \in 1..(n - 1), p[i].do \in J, p[j].do \in K
               PROVE  i < j
    BY <1>3, Zenon DEF Before
  <2>1. q[i + 1].do \in J /\ q[j + 1].do \in K
    BY <1>3, Zenon
  <2>2. i + 1 < j + 1
    BY <1>2, <1>3, <1>4, <2>1, Zenon DEF Before
  <2> QED
    BY <1>2, <2>2, Zenon
<1>5. Before(q, J, K) /\ Head(q).do \in K => ~Has(q, J)
  BY <1>2, <1>3, Zenon DEF Before, Has
<1>6. Each(q, K, S) => Each(p, K, S)
  BY <1>2, <1>3, Zenon DEF Each
<1>7. Each(q, K, S) /\ Head(q).do \in K => Head(q) \in S
  BY <1>2, <1>3, Zenon DEF Each
<1> QED
  BY <1>4, <1>5, <1>6, <1>7, Zenon DEF p

LEMMA EachOfNone ==
  ASSUME NEW q, NEW K, NEW S, ~Has(q, K)
  PROVE  Each(q, K, S)
BY DEF Has, Each

(* For the kinds M, the queue p is as q was.                               *)
Alike(M, q, p) ==
  /\ \A k \in M : (Has(p, {k}) <=> Has(q, {k})) /\ (Once(q, {k}) => Once(p, {k}))
  /\ \A j, k \in M : Before(q, {j}, {k}) => Before(p, {j}, {k})
  /\ \A K \in SUBSET M : \A S : Each(q, K, S) => Each(p, K, S)

LEMMA AlikeAppend ==
  ASSUME NEW T, NEW q \in Seq(T), NEW b \in T, NEW M, b.do \notin M
  PROVE  Alike(M, q, Append(q, b))
<1>1. ASSUME NEW k \in M
      PROVE  (Has(Append(q, b), {k}) <=> Has(q, {k})) /\ (Once(q, {k}) => Once(Append(q, b), {k}))
  <2>1. b.do \notin {k}
    OBVIOUS
  <2> QED
    BY <2>1, OnAppend, Zenon
<1>2. ASSUME NEW j \in M, NEW k \in M, Before(q, {j}, {k})
      PROVE  Before(Append(q, b), {j}, {k})
  <2>1. b.do \notin {j}
    OBVIOUS
  <2> QED
    BY <1>2, <2>1, OrderOnAppend, Zenon
<1>3. ASSUME NEW K \in SUBSET M, NEW S, Each(q, K, S)
      PROVE  Each(Append(q, b), K, S)
  <2>1. b.do \notin K
    OBVIOUS
  <2> QED
    BY <1>3, <2>1, OrderOnAppend, Zenon
<1> QED
  BY <1>1, <1>2, <1>3, Zenon DEF Alike

LEMMA AlikeTail ==
  ASSUME NEW T, NEW q \in Seq(T), q # << >>, NEW M, Head(q).do \notin M
  PROVE  Alike(M, q, Tail(q))
<1>1. ASSUME NEW k \in M
      PROVE  (Has(Tail(q), {k}) <=> Has(q, {k})) /\ (Once(q, {k}) => Once(Tail(q), {k}))
  <2>1. Head(q).do \notin {k}
    OBVIOUS
  <2> QED
    BY <2>1, OnTail, Zenon
<1>2. ASSUME NEW j \in M, NEW k \in M, Before(q, {j}, {k})
      PROVE  Before(Tail(q), {j}, {k})
  BY <1>2, OrderOnTail, Zenon
<1>3. ASSUME NEW K \in SUBSET M, NEW S, Each(q, K, S)
      PROVE  Each(Tail(q), K, S)
  BY <1>3, OrderOnTail, Zenon
<1> QED
  BY <1>1, <1>2, <1>3, Zenon DEF Alike

LEMMA AlikeSelf ==
  ASSUME NEW M, NEW q
  PROVE  Alike(M, q, q)
BY Zenon DEF Alike

=============================================================================
