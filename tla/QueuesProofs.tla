---------------------------- MODULE QueuesProofs ----------------------------
(***************************************************************************)
(* The operations on queues keep a queue without duplicates, and add and   *)
(* remove the one entry they are meant to.                                 *)
(***************************************************************************)
EXTENDS Queues, SequenceTheorems, FiniteSetTheorems, WellFoundedInduction, TLAPS

----------------------------------------------------------------------------
\* Sequences as queues

\* A set of numbers that is not empty has a smallest element.
LEMMA Minimum ==
    ASSUME NEW S \in SUBSET Nat, S # {}
    PROVE  \E m \in S : \A n \in S : m <= n
<1> DEFINE R == OpToRel(<, Nat)
<1>1. \A x, y \in Nat : <<x, y>> \in R <=> x < y
  BY DEF OpToRel
<1>2. IsWellFoundedOn(R, Nat)
  BY NatLessThanWellFounded
<1> HIDE DEF R
<1>3. PICK m \in S : \A n \in S : ~(<<n, m>> \in R)
  BY <1>2, WFMin
<1>4. \A n \in S : ~(n < m)
  BY <1>1, <1>3, Zenon
<1> QED
  BY <1>4

\* In d the entry i of q has been taken out.
Removed(q, i, d) ==
    /\ Len(d) = Len(q) - 1
    /\ \A j \in 1 .. Len(q) - 1 : d[j] = IF j < i THEN q[j] ELSE q[j + 1]

LEMMA RemoveAtPositions ==
    ASSUME NEW S, NEW q \in Seq(S), NEW i \in 1 .. Len(q)
    PROVE  RemoveAt(q, i) \in Seq(S) /\ Removed(q, i, RemoveAt(q, i))
<1> DEFINE l == SubSeq(q, 1, i - 1)
           r == SubSeq(q, i + 1, Len(q))
           d == RemoveAt(q, i)
<1>2. Len(q) \in Nat /\ DOMAIN q = 1 .. Len(q) /\ \A j \in 1 .. Len(q) : q[j] \in S
  BY LenProperties
<1>3. d = l \o r
  BY DEF RemoveAt
<1> HIDE DEF d
<1>4. /\ l \in Seq(S) /\ Len(l) = i - 1
      /\ \A j \in 1 .. i - 1 : l[j] = q[j]
  BY <1>2, SubSeqProperties, SMT
<1>5. /\ r \in Seq(S) /\ Len(r) = Len(q) - i
      /\ \A j \in 1 .. Len(q) - i : r[j] = q[i + j]
  <2>1. i + 1 \in Int /\ Len(q) \in Int /\ \A j \in i + 1 .. Len(q) : q[j] \in S
    BY <1>2
  <2> HIDE DEF l
  <2>2. /\ r \in Seq(S)
        /\ Len(r) = IF i + 1 <= Len(q) THEN Len(q) - (i + 1) + 1 ELSE 0
        /\ \A j \in 1 .. Len(q) - (i + 1) + 1 : r[j] = q[(i + 1) + j - 1]
    BY <2>1, SubSeqProperties
  <2> HIDE DEF r
  <2>3. Len(r) = Len(q) - i
    <3>1. i \in Int /\ Len(q) \in Int /\ i <= Len(q)
      BY <1>2
    <3>2. Len(r) = IF i + 1 <= Len(q) THEN Len(q) - (i + 1) + 1 ELSE 0
      BY <2>2
    <3> QED
      BY <3>1, <3>2
  <2>4. ASSUME NEW j \in 1 .. Len(q) - i PROVE r[j] = q[i + j]
    <3>1. j \in 1 .. Len(q) - (i + 1) + 1 /\ (i + 1) + j - 1 = i + j
      BY <1>2, <2>4
    <3> QED
      BY <2>2, <3>1
  <2> QED
    BY <2>2, <2>3, <2>4
<1> HIDE DEF l, r
<1>6. /\ d \in Seq(S) /\ Len(d) = Len(q) - 1
      /\ \A j \in 1 .. Len(q) - 1 : d[j] = IF j < i THEN q[j] ELSE q[j + 1]
  <2>1. /\ d \in Seq(S) /\ Len(d) = Len(l) + Len(r)
        /\ \A j \in 1 .. Len(l) + Len(r) :
               d[j] = IF j <= Len(l) THEN l[j] ELSE r[j - Len(l)]
    BY <1>3, <1>4, <1>5, ConcatProperties
  <2>2. Len(d) = Len(q) - 1
    BY <1>2, <1>4, <1>5, <2>1
  <2>3. ASSUME NEW j \in 1 .. Len(q) - 1
        PROVE  d[j] = IF j < i THEN q[j] ELSE q[j + 1]
    <3>1. j \in 1 .. Len(l) + Len(r)
      BY <1>2, <1>4, <1>5, <2>3
    <3>2. CASE j < i
      BY <1>2, <1>4, <2>1, <2>3, <3>1, <3>2
    <3>3. CASE ~(j < i)
      <4>1. j - Len(l) \in 1 .. Len(q) - i /\ i + (j - Len(l)) = j + 1
        BY <1>2, <1>4, <2>3, <3>3
      <4>2. d[j] = r[j - Len(l)]
        BY <1>4, <2>1, <2>3, <3>1, <3>3
      <4> QED
        BY <1>5, <3>3, <4>1, <4>2
    <3> QED
      BY <3>2, <3>3
  <2> QED
    BY <2>1, <2>2, <2>3
<1> HIDE DEF d
<1> QED
  BY <1>6 DEF d, Removed

\* Where queue_delete finds an entry, and how the others move up.
LEMMA DeletePositions ==
    ASSUME NEW S, NEW q \in Seq(S), NEW t \in ToSet(q)
    PROVE  \E i \in 1 .. Len(q) :
              /\ q[i] = t
              /\ QueueDelete(q, t) \in Seq(S) /\ Len(QueueDelete(q, t)) = Len(q) - 1
              /\ \A j \in 1 .. Len(q) - 1 :
                    QueueDelete(q, t)[j] = IF j < i THEN q[j] ELSE q[j + 1]
<1> DEFINE i == CHOOSE j \in DOMAIN q : q[j] = t
<1>1. i \in 1 .. Len(q) /\ q[i] = t
  <2>1. \E j \in DOMAIN q : q[j] = t
    BY DEF ToSet
  <2> QED
    BY <2>1
<1>2. QueueDelete(q, t) = RemoveAt(q, i)
  BY DEF QueueDelete
<1> HIDE DEF i
<1> QED
  BY <1>1, <1>2, RemoveAtPositions DEF Removed

\* What queue_delete leaves.
LEMMA DeleteFacts ==
    ASSUME NEW S, NEW q \in Seq(S), IsInjective(q), NEW t \in ToSet(q)
    PROVE  /\ QueueDelete(q, t) \in Seq(S)
           /\ IsInjective(QueueDelete(q, t))
           /\ ToSet(QueueDelete(q, t)) = ToSet(q) \ {t}
           /\ QueueDelete(q, t) = << >> <=> ToSet(q) = {t}
           /\ Head(q) # t => QueueDelete(q, t) # << >>
                             /\ Head(QueueDelete(q, t)) = Head(q)
<1> DEFINE d == QueueDelete(q, t)
<1> HIDE DEF d
<1>1. PICK i \in 1 .. Len(q) :
         /\ q[i] = t
         /\ d \in Seq(S) /\ Len(d) = Len(q) - 1
         /\ \A j \in 1 .. Len(q) - 1 : d[j] = IF j < i THEN q[j] ELSE q[j + 1]
  BY DeletePositions DEF d
<1>2. Len(q) \in Nat /\ DOMAIN q = 1 .. Len(q) /\ \A j \in 1 .. Len(q) : q[j] \in S
  BY LenProperties
<1>3. /\ d \in Seq(S) /\ Len(d) = Len(q) - 1
      /\ \A j \in 1 .. Len(q) - 1 : d[j] = IF j < i THEN q[j] ELSE q[j + 1]
  BY <1>1
<1>4. DOMAIN d = 1 .. Len(q) - 1
  BY <1>3, LenProperties
<1>5. \A a, b \in 1 .. Len(q) : q[a] = q[b] => a = b
  BY <1>2 DEF IsInjective
<1>6. IsInjective(d)
  BY <1>1, <1>2, <1>3, <1>4, <1>5 DEF IsInjective
<1>7. ToSet(d) = ToSet(q) \ {t}
  <2>1. \A x \in ToSet(d) : x \in ToSet(q) /\ x # t
    BY <1>1, <1>2, <1>3, <1>4, <1>5 DEF ToSet
  <2>2. ASSUME NEW x \in ToSet(q), x # t PROVE x \in ToSet(d)
    <3>1. PICK a \in 1 .. Len(q) : q[a] = x
      BY <1>2 DEF ToSet
    <3>2. CASE a < i
      <4>1. a \in 1 .. Len(q) - 1 /\ d[a] = x
        BY <1>1, <1>2, <1>3, <3>1, <3>2
      <4> QED
        BY <1>4, <4>1 DEF ToSet
    <3>3. CASE a > i
      <4>1. a - 1 \in 1 .. Len(q) - 1 /\ d[a - 1] = x
        BY <1>1, <1>2, <1>3, <3>1, <3>3
      <4> QED
        BY <1>4, <4>1 DEF ToSet
    <3> QED
      BY <1>1, <1>2, <2>2, <3>1, <3>2, <3>3
  <2> QED
    BY <2>1, <2>2
<1>8. d = << >> <=> ToSet(q) = {t}
  <2>1. d = << >> <=> Len(d) = 0
    BY <1>3, EmptySeq, LenProperties
  <2>2. Len(d) = 0 => ToSet(d) = {}
    BY <1>2, <1>3, <1>4 DEF ToSet
  <2>3. Len(d) # 0 => 1 \in DOMAIN d
    BY <1>1, <1>2, <1>3, <1>4
  <2>4. Len(d) # 0 => ToSet(d) # {}
    BY <2>3 DEF ToSet
  <2> QED
    BY <1>7, <2>1, <2>2, <2>4
<1>9. Head(q) # t => d # << >> /\ Head(d) = Head(q)
  <2> SUFFICES ASSUME Head(q) # t PROVE d # << >> /\ Head(d) = Head(q)
    OBVIOUS
  <2>1. q[1] # t
    BY <1>1, <1>2
  <2>2. 1 < i
    BY <1>1, <1>2, <2>1
  <2> QED
    BY <1>1, <1>2, <1>3, <2>2
<1> QED
  BY <1>3, <1>6, <1>7, <1>8, <1>9 DEF d

\* In d the entries of q from position i on have moved behind t.
Inserted(q, i, t, d) ==
    /\ Len(d) = Len(q) + 1
    /\ \A j \in 1 .. Len(q) + 1 :
          d[j] = IF j < i THEN q[j] ELSE IF j = i THEN t ELSE q[j - 1]

LEMMA InsertPositions ==
    ASSUME NEW S, NEW q \in Seq(S), NEW t \in S, NEW i \in 1 .. Len(q) + 1
    PROVE  InsertAt(q, i, t) \in Seq(S) /\ Inserted(q, i, t, InsertAt(q, i, t))
<1> DEFINE l == SubSeq(q, 1, i - 1)
           r == SubSeq(q, i, Len(q))
           d == InsertAt(q, i, t)
<1>1. Len(q) \in Nat /\ DOMAIN q = 1 .. Len(q) /\ \A j \in 1 .. Len(q) : q[j] \in S
  BY LenProperties
<1>2. d = (l \o <<t>>) \o r
  BY DEF InsertAt
<1> HIDE DEF d
<1>3. /\ l \in Seq(S) /\ Len(l) = i - 1
      /\ \A j \in 1 .. i - 1 : l[j] = q[j]
  BY <1>1, SubSeqProperties, SMT
<1>4. /\ r \in Seq(S) /\ Len(r) = Len(q) - i + 1
      /\ \A j \in 1 .. Len(q) - i + 1 : r[j] = q[i + j - 1]
  BY <1>1, SubSeqProperties, SMT
<1> HIDE DEF l, r
<1>5. /\ l \o <<t>> \in Seq(S) /\ Len(l \o <<t>>) = i
      /\ \A j \in 1 .. i : (l \o <<t>>)[j] = IF j < i THEN q[j] ELSE t
  <2>1. Append(l, t) = l \o <<t>>
    BY <1>3, AppendIsConcat
  <2> QED
    BY <1>3, <2>1, AppendProperties
<1>6. /\ d \in Seq(S) /\ Len(d) = Len(q) + 1
      /\ \A j \in 1 .. Len(q) + 1 :
             d[j] = IF j < i THEN q[j] ELSE IF j = i THEN t ELSE q[j - 1]
  <2>1. /\ d \in Seq(S) /\ Len(d) = i + Len(r)
        /\ \A j \in 1 .. i + Len(r) :
               d[j] = IF j <= i THEN (l \o <<t>>)[j] ELSE r[j - i]
    <3> DEFINE m == l \o <<t>>
    <3>1. m \in Seq(S) /\ Len(m) = i /\ d = m \o r
      BY <1>2, <1>5
    <3> HIDE DEF m
    <3>2. /\ d \in Seq(S) /\ Len(d) = Len(m) + Len(r)
          /\ \A j \in 1 .. Len(m) + Len(r) :
                 d[j] = IF j <= Len(m) THEN m[j] ELSE r[j - Len(m)]
      BY <1>4, <3>1, ConcatProperties
    <3> QED
      BY <3>1, <3>2 DEF m
  <2>2. Len(d) = Len(q) + 1
    BY <1>1, <1>4, <2>1
  <2>3. ASSUME NEW j \in 1 .. Len(q) + 1, j <= i
        PROVE  d[j] = IF j < i THEN q[j] ELSE t
    <3>1. j \in 1 .. i + Len(r) /\ j \in 1 .. i
      BY <1>1, <1>4, <2>3
    <3>2. d[j] = (l \o <<t>>)[j]
      BY <2>1, <2>3, <3>1
    <3> QED
      BY <1>5, <3>1, <3>2
  <2>4. ASSUME NEW j \in 1 .. Len(q) + 1, j > i
        PROVE  d[j] = q[j - 1]
    <3>1. j - i \in 1 .. Len(q) - i + 1 /\ i + (j - i) - 1 = j - 1
      BY <1>1, <2>4
    <3>2. d[j] = r[j - i]
      BY <1>1, <1>4, <2>1, <2>4
    <3> QED
      BY <1>4, <3>1, <3>2
  <2> QED
    BY <2>1, <2>2, <2>3, <2>4
<1> QED
  BY <1>6 DEF d, Inserted

\* An entry that is inserted at a position of the queue or at its end.
LEMMA InsertFacts ==
    ASSUME NEW S, NEW q \in Seq(S), IsInjective(q), NEW t \in S, t \notin ToSet(q),
           NEW i \in 1 .. Len(q) + 1
    PROVE  /\ InsertAt(q, i, t) \in Seq(S)
           /\ IsInjective(InsertAt(q, i, t))
           /\ ToSet(InsertAt(q, i, t)) = ToSet(q) \cup {t}
           /\ InsertAt(q, i, t) # << >>
<1> DEFINE d == InsertAt(q, i, t)
<1>1. Len(q) \in Nat /\ DOMAIN q = 1 .. Len(q) /\ \A j \in 1 .. Len(q) : q[j] \in S
  BY LenProperties
<1>2. /\ d \in Seq(S) /\ Len(d) = Len(q) + 1
      /\ \A j \in 1 .. Len(q) + 1 :
             d[j] = IF j < i THEN q[j] ELSE IF j = i THEN t ELSE q[j - 1]
  BY InsertPositions DEF Inserted
<1> HIDE DEF d
<1>3. DOMAIN d = 1 .. Len(q) + 1
  BY <1>2, LenProperties
<1>4. /\ \A a, b \in 1 .. Len(q) : q[a] = q[b] => a = b
      /\ \A a \in 1 .. Len(q) : q[a] # t
  BY <1>1 DEF IsInjective, ToSet
<1>5. IsInjective(d)
  <2> SUFFICES ASSUME NEW a \in 1 .. Len(q) + 1, NEW b \in 1 .. Len(q) + 1, d[a] = d[b]
               PROVE  a = b
    BY <1>3 DEF IsInjective
  <2> DEFINE h(c) == IF c < i THEN c ELSE c - 1
  <2>1. ASSUME NEW c \in 1 .. Len(q) + 1, c # i
        PROVE  h(c) \in 1 .. Len(q) /\ d[c] = q[h(c)]
    <3>1. CASE c < i
      BY <1>1, <1>2, <2>1, <3>1
    <3>2. CASE c > i
      BY <1>1, <1>2, <2>1, <3>2
    <3> QED
      BY <1>1, <2>1, <3>1, <3>2
  <2>2. d[i] = t
    BY <1>1, <1>2
  <2>3. CASE a = i \/ b = i
    BY <1>4, <2>1, <2>2, <2>3
  <2>4. CASE a # i /\ b # i
    <3>1. /\ h(a) \in 1 .. Len(q) /\ d[a] = q[h(a)]
          /\ h(b) \in 1 .. Len(q) /\ d[b] = q[h(b)]
      BY <2>1, <2>4
    <3>2. h(a) = h(b)
      <4> HIDE DEF h
      <4> QED
        BY <1>4, <3>1
    <3>3. a \in Int /\ b \in Int /\ i \in Int
      BY <1>1
    <3> QED
      BY <2>4, <3>2, <3>3
  <2> QED
    BY <2>3, <2>4
<1>6. ToSet(d) = ToSet(q) \cup {t}
  <2>1. \A x \in ToSet(d) : x \in ToSet(q) \cup {t}
    BY SMTT(20), <1>1, <1>2, <1>3 DEF ToSet
  <2>2. t \in ToSet(d)
    BY <1>1, <1>2, <1>3 DEF ToSet
  <2>3. ASSUME NEW x \in ToSet(q) PROVE x \in ToSet(d)
    <3>1. PICK a \in 1 .. Len(q) : q[a] = x
      BY <1>1 DEF ToSet
    <3>2. CASE a < i
      <4>1. a \in 1 .. Len(q) + 1 /\ d[a] = x
        BY <1>1, <1>2, <3>1, <3>2
      <4> QED
        BY <1>3, <4>1 DEF ToSet
    <3>3. CASE a >= i
      <4>1. a + 1 \in 1 .. Len(q) + 1 /\ d[a + 1] = x
        BY <1>1, <1>2, <3>1, <3>3
      <4> QED
        BY <1>3, <4>1 DEF ToSet
    <3> QED
      BY <1>1, <3>1, <3>2, <3>3
  <2> QED
    BY <2>1, <2>2, <2>3
<1>7. d # << >>
  BY <1>6, <1>3, <1>1
<1> QED
  BY <1>2, <1>5, <1>6, <1>7 DEF d

\* The first of a set of positions, or the place behind the last.
LEMMA FirstOrEndLeast ==
    ASSUME NEW S, NEW q \in Seq(S), NEW I \in SUBSET DOMAIN q
    PROVE  FirstOrEnd(q, I) \in I \cup {Len(q) + 1} /\ \A j \in I : FirstOrEnd(q, I) <= j
<1>1. Len(q) \in Nat /\ DOMAIN q = 1 .. Len(q)
  BY LenProperties
<1>2. \E i \in I \cup {Len(q) + 1} : \A j \in I : i <= j
  <2>1. CASE I = {}
    BY <2>1
  <2>2. CASE I # {}
    BY <1>1, <2>2, Minimum
  <2> QED
    BY <2>1, <2>2
<1> QED
  BY <1>2 DEF FirstOrEnd

\* It is a position at which an entry may be inserted.
LEMMA FirstOrEndFacts ==
    ASSUME NEW S, NEW q \in Seq(S), NEW I \in SUBSET DOMAIN q
    PROVE  FirstOrEnd(q, I) \in 1 .. Len(q) + 1
<1>1. Len(q) \in Nat /\ DOMAIN q = 1 .. Len(q)
  BY LenProperties
<1> QED
  BY <1>1, FirstOrEndLeast

\* queue_insert_prev and queue_insert_next.
LEMMA AppendFacts ==
    ASSUME NEW S, NEW q \in Seq(S), IsInjective(q), NEW t \in S, t \notin ToSet(q)
    PROVE  /\ QueueInsertPrev(q, t) \in Seq(S)
           /\ IsInjective(QueueInsertPrev(q, t))
           /\ ToSet(QueueInsertPrev(q, t)) = ToSet(q) \cup {t}
           /\ QueueInsertPrev(q, t) # << >>
<1> DEFINE d == QueueInsertPrev(q, t)
<1>1. Len(q) \in Nat /\ DOMAIN q = 1 .. Len(q) /\ \A j \in 1 .. Len(q) : q[j] \in S
  BY LenProperties
<1>2. /\ d \in Seq(S) /\ d # << >> /\ Len(d) = Len(q) + 1
      /\ \A j \in 1 .. Len(q) : d[j] = q[j]
      /\ d[Len(q) + 1] = t
  BY AppendProperties DEF QueueInsertPrev
<1> HIDE DEF d
<1>3. DOMAIN d = 1 .. Len(q) + 1
  BY <1>2, LenProperties
<1>4. IsInjective(d)
  <2>1. \A a \in 1 .. Len(q) : q[a] # t
    BY <1>1 DEF ToSet
  <2> QED
    BY <1>1, <1>2, <1>3, <2>1 DEF IsInjective
<1>5. ToSet(d) = ToSet(q) \cup {t}
  <2>1. ToSet(d) \subseteq ToSet(q) \cup {t}
    BY <1>1, <1>2, <1>3 DEF ToSet
  <2>2. t \in ToSet(d)
    BY <1>1, <1>2, <1>3 DEF ToSet
  <2>3. ToSet(q) \subseteq ToSet(d)
    BY <1>1, <1>2, <1>3 DEF ToSet
  <2> QED
    BY <2>1, <2>2, <2>3
<1> QED
  BY <1>2, <1>4, <1>5 DEF d

LEMMA PrependFacts ==
    ASSUME NEW S, NEW q \in Seq(S), IsInjective(q), NEW t \in S, t \notin ToSet(q)
    PROVE  /\ QueueInsertNext(q, t) \in Seq(S)
           /\ IsInjective(QueueInsertNext(q, t))
           /\ ToSet(QueueInsertNext(q, t)) = ToSet(q) \cup {t}
           /\ QueueInsertNext(q, t) # << >>
<1>1. Len(q) \in Nat
  BY LenProperties
<1>2. SubSeq(q, 1, 0) = << >> /\ SubSeq(q, 1, Len(q)) = q
  BY SubSeqEmpty, SubSeqFull
<1>3. << >> \o <<t>> = <<t>>
  BY ConcatEmptySeq
<1>4. InsertAt(q, 1, t) = QueueInsertNext(q, t)
  BY <1>2, <1>3 DEF InsertAt, QueueInsertNext
<1>5. 1 \in 1 .. Len(q) + 1
  BY <1>1
<1> QED
  BY <1>4, <1>5, InsertFacts

\* The first entry of a queue is one of its entries.
LEMMA HeadFacts ==
    ASSUME NEW S, NEW q \in Seq(S), q # << >>
    PROVE  Head(q) \in ToSet(q) /\ Head(q) \in S
<1>1. Len(q) \in Nat \ {0} /\ DOMAIN q = 1 .. Len(q)
  BY EmptySeq, LenProperties
<1>2. Head(q) = q[1] /\ 1 \in DOMAIN q
  BY <1>1
<1> QED
  BY <1>1, <1>2, LenProperties DEF ToSet

\* A queue is empty if it has no entries.
LEMMA EmptyQueue ==
    ASSUME NEW S, NEW q \in Seq(S)
    PROVE  q = << >> <=> ToSet(q) = {}
<1>1. q # << >> => Head(q) \in ToSet(q)
  BY HeadFacts
<1>2. q = << >> => ToSet(q) = {}
  BY DEF ToSet
<1> QED
  BY <1>1, <1>2

\* An arrangement of a finite set is a queue.
LEMMA ArrangementSeq ==
    ASSUME NEW T, NEW S \in SUBSET T, IsFiniteSet(S), NEW q \in Arrangements(S)
    PROVE  q \in Seq(T) /\ IsInjective(q)
<1>1. Cardinality(S) \in Nat
  BY FS_CardinalityType
<1>2. PICK n \in 0 .. Cardinality(S) : q \in [1 .. n -> S]
  BY DEF Arrangements
<1>3. n \in Nat /\ q \in [1 .. n -> T]
  BY <1>1, <1>2
<1>4. q \in Seq(T)
  BY <1>3, SeqDef
<1> QED
  BY <1>4 DEF Arrangements

----------------------------------------------------------------------------
\* The free lists of the control blocks

\* The first of a queue without duplicates, and the rest.
LEMMA TailFacts ==
    ASSUME NEW S, NEW q \in Seq(S), IsInjective(q), q # << >>
    PROVE  /\ Head(q) \in Range(q) /\ Head(q) \in S
           /\ Tail(q) \in Seq(S) /\ IsInjective(Tail(q))
           /\ Range(Tail(q)) = Range(q) \ {Head(q)}
<1>1. /\ Len(q) \in Nat \ {0} /\ DOMAIN q = 1 .. Len(q) /\ Head(q) = q[1]
      /\ \A i \in 1 .. Len(q) : q[i] \in S
  BY EmptySeq, LenProperties
<1>. DEFINE d == Tail(q)
<1>2. /\ d \in Seq(S) /\ Len(d) = Len(q) - 1
      /\ \A i \in 1 .. Len(q) - 1 : d[i] = q[i + 1]
  BY <1>1, HeadTailProperties
<1>. HIDE DEF d
<1>3. DOMAIN d = 1 .. Len(q) - 1
  BY <1>2, LenProperties
<1>4. \A i, j \in 1 .. Len(q) : q[i] = q[j] => i = j
  BY <1>1 DEF IsInjective
<1>5. IsInjective(d)
  BY <1>1, <1>2, <1>3, <1>4 DEF IsInjective
<1>6. \A x \in Range(d) : x \in Range(q) /\ x # Head(q)
  BY <1>1, <1>2, <1>3, <1>4, SMTT(30) DEF Range
<1>7. ASSUME NEW x \in Range(q), x # Head(q)
      PROVE  x \in Range(d)
  <2>1. PICK i \in 1 .. Len(q) : q[i] = x
    BY <1>1 DEF Range
  <2>2. i - 1 \in 1 .. Len(q) - 1 /\ d[i - 1] = x
    BY <1>1, <1>2, <1>7, <2>1
  <2>3. QED
    BY <2>2, <1>3 DEF Range
<1>8. Head(q) \in Range(q) /\ Head(q) \in S
  BY <1>1 DEF Range
<1>9. QED
  BY <1>2, <1>5, <1>6, <1>7, <1>8 DEF d

\* One more entry at the end.
LEMMA LastFacts ==
    ASSUME NEW S, NEW q \in Seq(S), IsInjective(q), NEW t \in S, t \notin Range(q)
    PROVE  /\ Append(q, t) \in Seq(S) /\ IsInjective(Append(q, t))
           /\ Range(Append(q, t)) = Range(q) \cup {t}
<1>1. \A s : ToSet(s) = Range(s)
  BY DEF ToSet, Range
<1>2. QED
  BY <1>1, AppendFacts DEF QueueInsertPrev

\* The list that the initialisation makes.
LEMMA SetToSeqFacts ==
    ASSUME NEW T, NEW S \in SUBSET T, IsFiniteSet(S)
    PROVE  /\ SetToSeq(S) \in Seq(T) /\ IsInjective(SetToSeq(S))
           /\ Range(SetToSeq(S)) = S
<1>. DEFINE n == Cardinality(S)
            f == SetToSeq(S)
<1>1. n \in Nat /\ ExistsBijection(1 .. n, S)
  BY FS_CardinalityType
<1>2. \E g \in [1 .. n -> S] : IsInjective(g)
  BY <1>1 DEF ExistsBijection, Bijection, Injection, IsInjective
<1>3. f \in [1 .. n -> S] /\ IsInjective(f)
  BY <1>2 DEF SetToSeq
<1>. HIDE DEF f
<1>4. f \in Injection(1 .. n, S)
  BY <1>3 DEF Injection, IsInjective
<1>5. IsFiniteSet(1 .. n) /\ Cardinality(1 .. n) = n
  BY <1>1, FS_Interval
<1>6. f \in Surjection(1 .. n, S)
  BY <1>4, <1>5, FS_Injection
<1>7. Range(f) = S
  BY <1>3, <1>6 DEF Surjection, Range
<1>8. f \in Seq(T)
  <2>1. f \in [1 .. n -> T]
    BY <1>3
  <2>2. QED
    BY <1>1, <2>1, SeqDef
<1>9. QED
  BY <1>3, <1>7, <1>8 DEF f

----------------------------------------------------------------------------
\* Queues in the order of f

Sorted(q, f) == \A i, j \in 1 .. Len(q) : i < j => f[q[i]] <= f[q[j]]

LEMMA RemoveFacts ==
    ASSUME NEW S, NEW q \in Seq(S), IsInjective(q), NEW i \in 1 .. Len(q),
           NEW d \in Seq(S), Removed(q, i, d), NEW f
    PROVE  /\ IsInjective(d) /\ Range(d) = Range(q) \ {q[i]}
           /\ Sorted(q, f) => Sorted(d, f)
<1>1. /\ Len(q) \in Nat /\ DOMAIN q = 1 .. Len(q)
      /\ DOMAIN d = 1 .. Len(q) - 1 /\ Len(d) = Len(q) - 1
  BY LenProperties DEF Removed
<1>2. \A j, k \in 1 .. Len(q) : q[j] = q[k] => j = k
  BY <1>1 DEF IsInjective
<1>3. \A j \in 1 .. Len(q) - 1 : d[j] = IF j < i THEN q[j] ELSE q[j + 1]
  BY DEF Removed
<1>4. IsInjective(d)
  BY <1>1, <1>2, <1>3 DEF IsInjective
<1>5. \A x \in Range(d) : x \in Range(q) /\ x # q[i]
  BY <1>1, <1>2, <1>3 DEF Range
<1>6. ASSUME NEW x \in Range(q), x # q[i]
      PROVE  x \in Range(d)
  <2>1. PICK j \in 1 .. Len(q) : q[j] = x
    BY <1>1 DEF Range
  <2>2. CASE j < i
    <3>1. j \in 1 .. Len(q) - 1 /\ d[j] = x
      BY <2>1, <2>2, <1>1, <1>3
    <3>2. QED
      BY <3>1, <1>1 DEF Range
  <2>3. CASE j > i
    <3>1. j - 1 \in 1 .. Len(q) - 1 /\ d[j - 1] = x
      BY <2>1, <2>3, <1>1, <1>3
    <3>2. QED
      BY <3>1, <1>1 DEF Range
  <2>4. QED
    BY <2>1, <2>2, <2>3, <1>6
<1>7. Sorted(q, f) => Sorted(d, f)
  BY <1>1, <1>3 DEF Sorted
<1>8. QED
  BY <1>4, <1>5, <1>6, <1>7

\* queue_delete, and the deletion of the first entry.
LEMMA DeleteRemoves ==
    ASSUME NEW S, NEW q \in Seq(S), NEW t \in Range(q)
    PROVE  \E i \in 1 .. Len(q) :
              q[i] = t /\ QueueDelete(q, t) \in Seq(S) /\ Removed(q, i, QueueDelete(q, t))
<1>1. t \in ToSet(q)
  BY DEF ToSet, Range
<1>2. QED
  BY <1>1, DeletePositions DEF Removed

LEMMA TailRemoves ==
    ASSUME NEW S, NEW q \in Seq(S), q # << >>
    PROVE  /\ 1 \in 1 .. Len(q) /\ q[1] = Head(q) /\ Head(q) \in S
           /\ Tail(q) \in Seq(S) /\ Removed(q, 1, Tail(q))
<1>1. Len(q) \in Nat \ {0} /\ \A i \in 1 .. Len(q) : q[i] \in S
  BY EmptySeq, LenProperties
<1>2. /\ Head(q) = q[1] /\ Tail(q) \in Seq(S) /\ Len(Tail(q)) = Len(q) - 1
      /\ \A i \in 1 .. Len(q) - 1 : Tail(q)[i] = q[i + 1]
  BY <1>1, HeadTailProperties
<1>3. QED
  BY <1>1, <1>2 DEF Removed

\* queue_insert_tpri: behind the entries of the same priority.
LEMMA InsertSorted ==
    ASSUME NEW S, NEW q \in Seq(S), NEW t \in S, NEW f \in [S -> Nat], Sorted(q, f),
           NEW i, i = FirstOrEnd(q, {j \in DOMAIN q : f[t] < f[q[j]]})
    PROVE  i \in 1 .. Len(q) + 1 /\ Sorted(InsertAt(q, i, t), f)
<1>. DEFINE I == {j \in DOMAIN q : f[t] < f[q[j]]}
<1>1. /\ Len(q) \in Nat /\ DOMAIN q = 1 .. Len(q) /\ \A j \in 1 .. Len(q) : q[j] \in S
  BY LenProperties
<1>2. I \in SUBSET DOMAIN q
  OBVIOUS
<1>3. i \in I \cup {Len(q) + 1} /\ \A j \in I : i <= j
  BY <1>2, FirstOrEndLeast
<1>11. /\ \A j : j \in I <=> j \in 1 .. Len(q) /\ f[t] < f[q[j]]
       /\ I \in SUBSET Nat
  BY <1>1
<1>. HIDE DEF I
<1>4. i \in 1 .. Len(q) + 1
  BY <1>1, <1>3, <1>11
<1>. DEFINE d == InsertAt(q, i, t)
<1>5. d \in Seq(S) /\ Inserted(q, i, t, d)
  BY <1>4, InsertPositions
<1>. HIDE DEF d
<1>6. \A j \in 1 .. Len(q) : f[q[j]] \in Nat /\ f[t] \in Nat
  BY <1>1
<1>7. ASSUME NEW j \in 1 .. Len(q), j < i
      PROVE  f[q[j]] <= f[t]
  <2>1. j \notin I
    BY <1>3, <1>4, <1>7, <1>1
  <2>2. ~(f[t] < f[q[j]])
    BY <2>1, <1>11
  <2>3. f[t] \in Nat /\ f[q[j]] \in Nat
    BY <1>6
  <2>4. QED
    BY <2>2, <2>3
<1>8. \A j \in 1 .. Len(q) : j >= i => f[t] <= f[q[j]]
  <2>. SUFFICES ASSUME NEW j \in 1 .. Len(q), j >= i
                PROVE  f[t] <= f[q[j]]
    OBVIOUS
  <2>1. i \in I
    BY <1>1, <1>3
  <2>2. f[t] < f[q[i]] /\ i \in 1 .. Len(q)
    BY <2>1, <1>11
  <2>3. f[q[i]] <= f[q[j]]
    BY <2>2, <1>1, <1>6 DEF Sorted
  <2>4. QED
    BY <2>2, <2>3, <1>6
<1>9. ASSUME NEW j \in 1 .. Len(d), NEW k \in 1 .. Len(d), j < k
      PROVE  f[d[j]] <= f[d[k]]
  <2>1. Len(d) = Len(q) + 1
    BY <1>5 DEF Inserted
  <2>2. /\ d[j] = IF j < i THEN q[j] ELSE IF j = i THEN t ELSE q[j - 1]
        /\ d[k] = IF k < i THEN q[k] ELSE IF k = i THEN t ELSE q[k - 1]
    BY <2>1, <1>5 DEF Inserted
  <2>3. CASE k < i
    BY <2>1, <2>2, <2>3, <1>1, <1>4, <1>9 DEF Sorted
  <2>4. CASE k = i
    <3>1. j \in 1 .. Len(q) /\ j < i /\ d[k] = t /\ d[j] = q[j]
      BY <2>1, <2>2, <2>4, <1>1, <1>4, <1>9
    <3>2. QED
      BY <3>1, <1>7
  <2>5. CASE k > i /\ j = i
    <3>1. k - 1 \in 1 .. Len(q) /\ k - 1 >= i /\ d[j] = t /\ d[k] = q[k - 1]
      BY <2>1, <2>2, <2>5, <1>1, <1>4
    <3>2. QED
      BY <3>1, <1>8
  <2>6. CASE k > i /\ j # i
    <3>1. PICK l \in {j, j - 1} : l \in 1 .. Len(q) /\ l < k - 1 /\ d[j] = q[l]
      BY <2>1, <2>2, <2>6, <1>1, <1>4, <1>9
    <3>2. k - 1 \in 1 .. Len(q) /\ d[k] = q[k - 1]
      BY <2>1, <2>2, <2>6, <1>1, <1>4
    <3>3. QED
      BY <3>1, <3>2 DEF Sorted
  <2>7. QED
    BY <2>1, <2>3, <2>4, <2>5, <2>6, <1>1, <1>4
<1>10. QED
  BY <1>4, <1>9 DEF d, Sorted

LEMMA SortedKept ==
    ASSUME NEW S, NEW q \in Seq(S), NEW f, NEW g, \A u \in Range(q) : f[u] = g[u], Sorted(q, f)
    PROVE  Sorted(q, g)
<1>1. DOMAIN q = 1 .. Len(q)
  BY LenProperties
<1>2. \A i \in 1 .. Len(q) : q[i] \in Range(q)
  BY <1>1 DEF Range
<1>3. QED
  BY <1>2 DEF Sorted

----------------------------------------------------------------------------
\* Without takes out entries wherever they are; the others keep their order.
LEMMA WithoutFacts ==
    ASSUME NEW S, NEW q \in Seq(S), NEW R, NEW d, d = Without(q, R)
    PROVE  /\ d \in Seq(S) /\ Range(d) = Range(q) \ R
           /\ IsInjective(q) => IsInjective(d)
           /\ \A f : Sorted(q, f) => Sorted(d, f)
<1>. DEFINE kept    == {i \in 1 .. Len(q) : q[i] \notin R}
            Upto(i) == {j \in kept : j <= i}
            n       == Cardinality(kept)
            rank    == [i \in kept |-> Cardinality(Upto(i))]
            At(m)   == CHOOSE i \in kept : Cardinality(Upto(i)) = m
<1>1. Len(q) \in Nat /\ DOMAIN q = 1 .. Len(q) /\ \A i \in 1 .. Len(q) : q[i] \in S
  BY LenProperties
<1>2. IsFiniteSet(kept) /\ n \in Nat
  <2>1. IsFiniteSet(1 .. Len(q)) /\ kept \in SUBSET (1 .. Len(q))
    BY <1>1, FS_Interval
  <2>2. IsFiniteSet(kept)
    BY <2>1, FS_Subset
  <2>3. QED
    BY <2>2, FS_CardinalityType
<1>3. d = [m \in 1 .. n |-> q[At(m)]]
  BY <1>1 DEF Without
<1>4. \A i \in kept : i \in Nat /\ i \in Upto(i) /\ Upto(i) \in SUBSET kept
  BY <1>1
<1>5. \A i, j \in kept : i < j => Upto(i) \in SUBSET Upto(j) /\ j \notin Upto(i)
  BY <1>4
<1>6. \A i \in kept : rank[i] = Cardinality(Upto(i))
  OBVIOUS
<1>7. \A m : At(m) = CHOOSE i \in kept : Cardinality(Upto(i)) = m
  OBVIOUS
<1>8. \A i \in kept : q[i] \notin R /\ i \in 1 .. Len(q)
  OBVIOUS
<1>9. \A i \in 1 .. Len(q) : q[i] \notin R => i \in kept
  OBVIOUS
<1>. HIDE DEF kept, Upto
<1>10. \A i \in kept : IsFiniteSet(Upto(i)) /\ rank[i] \in 1 .. n
  <2>. SUFFICES ASSUME NEW i \in kept
                PROVE  IsFiniteSet(Upto(i)) /\ rank[i] \in 1 .. n
    OBVIOUS
  <2>1. IsFiniteSet(Upto(i)) /\ Cardinality(Upto(i)) <= n
    BY <1>2, <1>4, FS_Subset
  <2>2. Cardinality(Upto(i)) \in Nat /\ Cardinality(Upto(i)) # 0
    BY <2>1, <1>4, FS_CardinalityType, FS_EmptySet
  <2>3. QED
    BY <2>1, <2>2, <1>6, <1>2
<1>11. \A i, j \in kept : i < j => rank[i] < rank[j]
  <2>. SUFFICES ASSUME NEW i \in kept, NEW j \in kept, i < j
                PROVE  rank[i] < rank[j]
    OBVIOUS
  <2>1. Cardinality(Upto(i)) <= Cardinality(Upto(j)) /\ Cardinality(Upto(i)) # Cardinality(Upto(j))
    <3>1. IsFiniteSet(Upto(j)) /\ Upto(i) \in SUBSET Upto(j) /\ Upto(i) # Upto(j)
      BY <1>4, <1>5, <1>10
    <3>2. QED
      BY <3>1, FS_Subset
  <2>2. rank[i] \in 1 .. n /\ rank[j] \in 1 .. n
    BY <1>10
  <2>3. QED
    BY <2>1, <2>2, <1>6, <1>2
<1>. HIDE DEF rank, n, At
<1>12. rank \in Injection(kept, 1 .. n)
  <2>1. \A i, j \in kept : rank[i] = rank[j] => i = j
    BY <1>2, <1>4, <1>10, <1>11
  <2>2. rank \in [kept -> 1 .. n]
    BY <1>10 DEF rank
  <2>3. QED
    BY <2>1, <2>2 DEF Injection, IsInjective
<1>13. rank \in Surjection(kept, 1 .. n)
  <2>1. IsFiniteSet(1 .. n) /\ Cardinality(1 .. n) = n
    BY <1>2, FS_Interval
  <2>2. Cardinality(kept) = n
    BY DEF n
  <2>3. QED
    BY <2>1, <2>2, <1>12, FS_Injection
<1>14. \A m \in 1 .. n : At(m) \in kept /\ rank[At(m)] = m
  <2>. SUFFICES ASSUME NEW m \in 1 .. n
                PROVE  At(m) \in kept /\ rank[At(m)] = m
    OBVIOUS
  <2>1. \E i \in kept : rank[i] = m
    BY <1>13 DEF Surjection
  <2>2. \E i \in kept : Cardinality(Upto(i)) = m
    BY <2>1, <1>6
  <2>3. At(m) \in kept /\ Cardinality(Upto(At(m))) = m
    BY <2>2, <1>7
  <2>4. QED
    BY <2>3, <1>6
<1>15. \A m, l \in 1 .. n : m < l => At(m) < At(l)
  <2>. SUFFICES ASSUME NEW m \in 1 .. n, NEW l \in 1 .. n, m < l
                PROVE  At(m) < At(l)
    OBVIOUS
  <2>1. /\ At(m) \in kept /\ rank[At(m)] = m /\ At(l) \in kept /\ rank[At(l)] = l
        /\ At(m) \in Nat /\ At(l) \in Nat
    BY <1>4, <1>14
  <2>2. At(l) < At(m) => rank[At(l)] < rank[At(m)]
    BY <2>1, <1>11
  <2>3. At(l) # At(m)
    BY <2>1, <1>2
  <2>4. QED
    BY <2>1, <2>2, <2>3, <1>2
<1>16. \A i \in kept : \E m \in 1 .. n : At(m) = i
  <2>. SUFFICES ASSUME NEW i \in kept
                PROVE  \E m \in 1 .. n : At(m) = i
    OBVIOUS
  <2>1. rank[i] \in 1 .. n
    BY <1>10
  <2>2. At(rank[i]) \in kept /\ rank[At(rank[i])] = rank[i]
    BY <2>1, <1>14
  <2>3. At(rank[i]) = i
    BY <2>2, <1>2, <1>4, <1>10, <1>11
  <2>4. QED
    BY <2>1, <2>3
<1>17. /\ DOMAIN d = 1 .. n /\ \A m \in 1 .. n : d[m] = q[At(m)] /\ At(m) \in 1 .. Len(q)
       /\ \A m \in 1 .. n : d[m] \in S /\ d[m] \notin R
  BY <1>1, <1>3, <1>8, <1>14
<1>18. d \in Seq(S) /\ Len(d) = n
  <2>1. d \in [1 .. n -> S]
    BY <1>3, <1>17
  <2>2. QED
    BY <2>1, <1>2, LenProperties
<1>19. Range(d) = Range(q) \ R
  <2>1. \A x \in Range(d) : x \in Range(q) /\ x \notin R
    BY <1>1, <1>17 DEF Range
  <2>2. \A i \in 1 .. Len(q) : q[i] \notin R => q[i] \in Range(d)
    <3>. SUFFICES ASSUME NEW i \in 1 .. Len(q), q[i] \notin R
                  PROVE  q[i] \in Range(d)
      OBVIOUS
    <3>1. PICK m \in 1 .. n : At(m) = i
      BY <1>9, <1>16
    <3>2. QED
      BY <3>1, <1>17 DEF Range
  <2>3. QED
    BY <2>1, <2>2, <1>1 DEF Range
<1>20. ASSUME IsInjective(q)
       PROVE  IsInjective(d)
  <2>1. \A m, l \in 1 .. n : d[m] = d[l] => At(m) = At(l)
    BY <1>20, <1>1, <1>17 DEF IsInjective
  <2>2. \A m, l \in 1 .. n : At(m) = At(l) => m = l
    BY <1>14
  <2>3. QED
    BY <2>1, <2>2, <1>17 DEF IsInjective
<1>21. ASSUME NEW f, Sorted(q, f)
       PROVE  Sorted(d, f)
  BY <1>21, <1>15, <1>17, <1>18 DEF Sorted
<1>22. QED
  BY <1>18, <1>19, <1>20, <1>21
=============================================================================
