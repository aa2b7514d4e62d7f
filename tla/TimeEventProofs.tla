--------------------------- MODULE TimeEventProofs ---------------------------
(***************************************************************************)
(* Time events, for every number of events, processors and event times.    *)
(*                                                                         *)
(* The first part is about the operations of the heap (module Heap), whose *)
(* correctness is an argument about the paths of a tree, and about the     *)
(* heap on its own (module TimeHeap), which implements the queue of        *)
(* events.  The second part is about the time (module TimeEvent): what the *)
(* times modulo 2^32 say about the real ones (Consistent), and with it     *)
(* that the heaps are in the order of real time, that no event happens     *)
(* early, that the timers are set in time and that the system time goes    *)
(* on.  These theorems are about the behaviours in which interrupts are    *)
(* taken in time (OnTime).                                                 *)
(***************************************************************************)
EXTENDS TimeEvent, TimeHeap, QueuesProofs

----------------------------------------------------------------------------
\* Numbers and nodes

LEMMA MaxFacts ==
    ASSUME NEW n \in Nat, NEW S \in SUBSET (0 .. n), S # {}
    PROVE  Max(S) \in S /\ \A k \in S : k <= Max(S)
<1> DEFINE T == {n - k : k \in S}
<1>1. T \in SUBSET Nat /\ T # {}
  <2>1. \A k \in S : n - k \in Nat
    OBVIOUS
  <2> QED
    BY <2>1
<1>2. PICK d \in T : \A x \in T : d <= x
  BY <1>1, Minimum
<1>3. PICK m \in S : d = n - m
  BY <1>2
<1>4. \A k \in S : n - k \in T
  OBVIOUS
<1> HIDE DEF T
<1>5. \A k \in S : n - m <= n - k
  BY <1>2, <1>3, <1>4
<1>6. \A k \in S : m >= k
  BY <1>5
<1>7. \A k \in S : Max(S) \in S /\ Max(S) >= k
  BY <1>6 DEF Max
<1> QED
  BY <1>7

LEMMA MinFacts ==
    ASSUME NEW S \in SUBSET Nat, S # {}
    PROVE  Min(S) \in S /\ \A k \in S : Min(S) <= k
BY Minimum DEF Min

LEMMA ParentFacts ==
    ASSUME NEW k \in Nat, k > 1
    PROVE  PARENT(k) \in 1 .. k - 1 /\ (k = 2 * PARENT(k) \/ k = 2 * PARENT(k) + 1)
BY DEF PARENT

LEMMA ChildFacts ==
    ASSUME NEW k \in Nat \ {0}
    PROVE  PARENT(2 * k) = k /\ PARENT(2 * k + 1) = k
BY DEF PARENT

\* What has n, and the parents of its nodes, has all that is above n.
LEMMA UpInduction ==
    ASSUME NEW n \in Nat \ {0}, NEW S, n \in S,
           \A k \in 1 .. n : k \in S /\ k > 1 => PARENT(k) \in S
    PROVE  Up(n) \subseteq S
<1> DEFINE T == S \cap (1 .. n)
<1>1. T \in SUBSET (1 .. n) /\ n \in T
  OBVIOUS
<1>2. WithParents(T)
  <2> SUFFICES ASSUME NEW k \in T \ {1} PROVE PARENT(k) \in T
    BY DEF WithParents
  <2>1. k \in 1 .. n /\ k > 1 /\ k \in S
    OBVIOUS
  <2>2. PARENT(k) \in 1 .. k - 1
    BY <2>1, ParentFacts
  <2> QED
    BY <2>1, <2>2
<1> HIDE DEF T
<1>3. Up(n) \subseteq T
  BY <1>1, <1>2 DEF Up
<1> QED
  BY <1>3 DEF T

LEMMA UpFacts ==
    ASSUME NEW n \in Nat \ {0}
    PROVE  /\ Up(n) \subseteq 1 .. n /\ n \in Up(n) /\ 1 \in Up(n)
           /\ \A k \in Up(n) : k > 1 => PARENT(k) \in Up(n)
<1>1. Up(n) \subseteq 1 .. n /\ n \in Up(n)
  BY DEF Up
<1>2. ASSUME NEW k \in Up(n), k > 1 PROVE PARENT(k) \in Up(n)
  <2>1. k \in 1 .. n /\ PARENT(k) \in 1 .. n
    BY <1>1, <1>2, ParentFacts
  <2>2. ASSUME NEW S \in SUBSET (1 .. n), n \in S, WithParents(S) PROVE PARENT(k) \in S
    <3>1. k \in S
      BY <2>2, <1>2 DEF Up
    <3> QED
      BY <3>1, <1>2, <2>2 DEF WithParents
  <2> QED
    BY <2>1, <2>2 DEF Up
<1>3. Up(n) \in SUBSET Nat /\ Up(n) # {}
  BY <1>1
<1>4. PICK m \in Up(n) : \A k \in Up(n) : m <= k
  BY <1>3, Minimum
<1>5. m = 1
  <2> SUFFICES ASSUME m # 1 PROVE FALSE
    OBVIOUS
  <2>1. m \in Nat /\ m > 1
    BY <1>1
  <2>2. PARENT(m) \in Up(n) /\ PARENT(m) \in 1 .. m - 1
    BY <2>1, <1>2, ParentFacts
  <2> QED
    BY <2>1, <2>2, <1>4
<1> QED
  BY <1>1, <1>2, <1>4, <1>5

LEMMA UpStep ==
    ASSUME NEW n \in Nat, n > 1
    PROVE  Up(n) = {n} \cup Up(PARENT(n))
<1> DEFINE p == PARENT(n)
<1>1. p \in Nat \ {0} /\ p < n
  BY ParentFacts
<1>2. Up(n) \subseteq {n} \cup Up(p)
  <2> DEFINE S == {n} \cup Up(p)
  <2>1. \A k \in 1 .. n : k \in S /\ k > 1 => PARENT(k) \in S
    BY <1>1, UpFacts
  <2>2. n \in S
    OBVIOUS
  <2> HIDE DEF S
  <2>3. Up(n) \subseteq S
    BY <2>1, <2>2, UpInduction
  <2> QED
    BY <2>3 DEF S
<1>3. Up(p) \subseteq Up(n)
  <2>1. p \in Up(n)
    BY UpFacts
  <2>2. \A k \in 1 .. p : k \in Up(n) /\ k > 1 => PARENT(k) \in Up(n)
    BY UpFacts
  <2> HIDE DEF p
  <2> QED
    BY <2>1, <2>2, <1>1, UpInduction
<1> QED
  BY <1>2, <1>3, UpFacts

\* What is on the path below a node is above it.
LEMMA UpPath ==
    ASSUME NEW n \in Nat \ {0}, NEW m \in Up(n), NEW k \in Up(n), k <= m
    PROVE  k \in Up(m)
<1> DEFINE S == {i \in Up(n) : \A j \in Up(n) : j <= i => j \in Up(i)}
<1>1. Up(n) \subseteq 1 .. n
  BY UpFacts
<1>2. n \in S
  BY UpFacts
<1>3. ASSUME NEW i \in 1 .. n, i \in S, i > 1 PROVE PARENT(i) \in S
  <2>1. PARENT(i) \in Up(n) /\ PARENT(i) \in 1 .. i - 1
    BY <1>3, UpFacts, ParentFacts
  <2>2. ASSUME NEW j \in Up(n), j <= PARENT(i) PROVE j \in Up(PARENT(i))
    <3>1. j \in Nat /\ j < i
      BY <1>1, <2>1, <2>2
    <3>2. j \in Up(i)
      BY <3>1, <1>3
    <3> QED
      BY <3>1, <3>2, <1>3, UpStep
  <2> QED
    BY <2>1, <2>2
<1> HIDE DEF S
<1>4. Up(n) \subseteq S
  BY <1>2, <1>3, UpInduction
<1> QED
  BY <1>4 DEF S

LEMMA UpTransitive ==
    ASSUME NEW n \in Nat \ {0}, NEW m \in Up(n)
    PROVE  Up(m) \subseteq Up(n)
<1>1. m \in Nat \ {0} /\ \A k \in 1 .. m : k \in Up(n) /\ k > 1 => PARENT(k) \in Up(n)
  BY UpFacts
<1> QED
  BY <1>1, UpInduction

\* Between a node of the path and its parent there is no other one.
LEMMA UpChain ==
    ASSUME NEW n \in Nat \ {0}, NEW m \in Up(n), NEW k \in Up(n), k < m
    PROVE  m > 1 /\ k <= PARENT(m)
<1>1. m \in Nat /\ k \in Nat \ {0} /\ m > 1
  BY UpFacts
<1>2. k \in Up(m)
  BY <1>1, UpPath
<1>3. k \in Up(PARENT(m))
  BY <1>1, <1>2, UpStep
<1> QED
  BY <1>1, <1>3, UpFacts, ParentFacts

\* Each node of the path but the last has one child on it.
LEMMA UpChild ==
    ASSUME NEW n \in Nat \ {0}, NEW k \in Up(n), k # n
    PROVE  \E c \in Up(n) : c > k /\ PARENT(c) = k
<1>1. Up(n) \subseteq 1 .. n /\ n \in Up(n)
  BY UpFacts
<1>2. PICK c \in 1 .. n : c \in Up(n) \ {k} /\ c > 1 /\ PARENT(c) \notin Up(n) \ {k}
  <2> DEFINE S == Up(n) \ {k}
  <2> SUFFICES ASSUME \A c \in 1 .. n : c \in S /\ c > 1 => PARENT(c) \in S
               PROVE  FALSE
    OBVIOUS
  <2>1. n \in S
    BY <1>1
  <2> HIDE DEF S
  <2>2. Up(n) \subseteq S
    BY <2>1, UpInduction
  <2> QED
    BY <2>2 DEF S
<1>3. PARENT(c) = k
  BY <1>2, UpFacts
<1> QED
  BY <1>2, <1>3, ParentFacts

LEMMA UpOneChild ==
    ASSUME NEW n \in Nat \ {0}, NEW c \in Up(n), NEW d \in Up(n), c > 1, d > 1,
           PARENT(c) = PARENT(d)
    PROVE  c = d
<1>1. c \in Nat /\ d \in Nat
  BY UpFacts
<1>2. c < d => c <= PARENT(d)
  BY UpChain
<1>3. d < c => d <= PARENT(c)
  BY UpChain
<1> QED
  BY <1>1, <1>2, <1>3, ParentFacts

----------------------------------------------------------------------------
\* The contents of a heap

\* Without the node from, no event is in two nodes, and e in none.
Open(h, from, e) ==
    /\ \A i, j \in 1 .. Len(h) : i # from /\ j # from /\ h[i] = h[j] => i = j
    /\ \A i \in 1 .. Len(h) : i # from => h[i] # e

Contents(h, from) == {h[i] : i \in (1 .. Len(h)) \ {from}}

\* The event at s[n] has moved to n, for all n but the node to that gets e.
Moves(h, g, from, to, e, s) ==
    /\ s \in [(1 .. Len(h)) \ {to} -> (1 .. Len(h)) \ {from}]
    /\ \A i, j \in (1 .. Len(h)) \ {to} : s[i] = s[j] => i = j
    /\ \A k \in (1 .. Len(h)) \ {from} : \E i \in (1 .. Len(h)) \ {to} : s[i] = k
    /\ \A i \in (1 .. Len(h)) \ {to} : g[i] = h[s[i]]
    /\ g[to] = e

LEMMA Rearranged ==
    ASSUME NEW S, NEW h \in Seq(S), NEW e \in S, NEW from \in 1 .. Len(h), NEW to \in 1 .. Len(h),
           Open(h, from, e), NEW g \in Seq(S), Len(g) = Len(h), NEW s, Moves(h, g, from, to, e, s)
    PROVE  IsInjective(g) /\ Range(g) = Contents(h, from) \cup {e}
<1>1. DOMAIN g = 1 .. Len(h)
  BY LenProperties
<1>a. /\ \A i \in (1 .. Len(h)) \ {to} : s[i] \in (1 .. Len(h)) \ {from} /\ g[i] = h[s[i]]
      /\ g[to] = e
  BY DEF Moves
<1>b. \A i, j \in (1 .. Len(h)) \ {to} : s[i] = s[j] => i = j
  BY DEF Moves
<1>c. \A k \in (1 .. Len(h)) \ {from} : \E i \in (1 .. Len(h)) \ {to} : s[i] = k
  BY DEF Moves
<1>2. \A i \in (1 .. Len(h)) \ {to} : g[i] # e
  BY <1>a DEF Open
<1>3. ASSUME NEW i \in 1 .. Len(h), NEW j \in 1 .. Len(h), g[i] = g[j] PROVE i = j
  <2>1. CASE i = to \/ j = to
    BY <1>2, <1>3, <2>1, <1>a
  <2>2. CASE i # to /\ j # to
    <3>1. s[i] \in (1 .. Len(h)) \ {from} /\ s[j] \in (1 .. Len(h)) \ {from}
      BY <2>2, <1>a
    <3>2. h[s[i]] = h[s[j]]
      BY <1>3, <2>2, <1>a
    <3>3. s[i] = s[j]
      BY <3>1, <3>2 DEF Open
    <3> QED
      BY <3>3, <2>2, <1>b
  <2> QED
    BY <2>1, <2>2
<1>4. ASSUME NEW x \in Range(g) PROVE x \in Contents(h, from) \cup {e}
  <2>1. PICK i \in 1 .. Len(h) : x = g[i]
    BY <1>1, <1>4 DEF Range
  <2> QED
    BY <2>1, <1>a DEF Contents
<1>5. ASSUME NEW x \in Contents(h, from) PROVE x \in Range(g)
  <2>1. PICK k \in (1 .. Len(h)) \ {from} : x = h[k]
    BY <1>5 DEF Contents
  <2>2. PICK i \in (1 .. Len(h)) \ {to} : s[i] = k
    BY <2>1, <1>c
  <2> QED
    BY <1>1, <1>a, <2>1, <2>2 DEF Range
<1>6. e \in Range(g)
  BY <1>1, <1>a DEF Range
<1> QED
  BY <1>1, <1>3, <1>4, <1>5, <1>6 DEF IsInjective

\* What g has, compared to h, after MoveUp and MoveDown.
MovedUp(h, g, from, to, e) ==
    /\ g[to] = e
    /\ \A n \in 1 .. Len(h) : n \in Up(from) /\ n > to => g[n] = h[PARENT(n)]
    /\ \A n \in 1 .. Len(h) : n # to /\ ~(n \in Up(from) /\ n > to) => g[n] = h[n]

MovedDown(h, g, from, to, e) ==
    /\ g[to] = e
    /\ \A n \in Up(to) : n > from => g[PARENT(n)] = h[n]
    /\ \A n \in 1 .. Len(h) : ~(n \in Up(to) /\ n >= from) => g[n] = h[n]

LEMMA MoveUpNodes ==
    ASSUME NEW S, NEW h \in Seq(S), NEW e \in S, NEW from \in 1 .. Len(h), NEW to \in Up(from)
    PROVE  LET g == MoveUp(h, from, to, e)
           IN  g \in Seq(S) /\ Len(g) = Len(h) /\ MovedUp(h, g, from, to, e)
<1> DEFINE g == MoveUp(h, from, to, e)
<1>1. Len(h) \in Nat /\ DOMAIN h = 1 .. Len(h) /\ \A n \in 1 .. Len(h) : h[n] \in S
  BY LenProperties
<1>2. /\ from \in Nat \ {0} /\ to \in 1 .. from
      /\ \A n \in Up(from) : n > to => PARENT(n) \in 1 .. Len(h)
  BY <1>1, UpFacts, ParentFacts
<1>3. g = [n \in 1 .. Len(h) |-> IF n = to THEN e
                                 ELSE IF n \in Up(from) /\ n > to THEN h[PARENT(n)] ELSE h[n]]
  BY <1>1 DEF MoveUp
<1> HIDE DEF g
<1>4. g \in [1 .. Len(h) -> S]
  BY <1>1, <1>2, <1>3
<1>5. g \in Seq(S) /\ Len(g) = Len(h)
  BY <1>1, <1>4, SeqDef, LenProperties
<1>6. /\ g[to] = e
      /\ \A n \in 1 .. Len(h) : n \in Up(from) /\ n > to => g[n] = h[PARENT(n)]
      /\ \A n \in 1 .. Len(h) : n # to /\ ~(n \in Up(from) /\ n > to) => g[n] = h[n]
  BY <1>1, <1>2, <1>3
<1>7. MovedUp(h, g, from, to, e)
  BY <1>6 DEF MovedUp
<1> QED
  BY <1>5, <1>7 DEF g

LEMMA MoveDownNodes ==
    ASSUME NEW S, NEW h \in Seq(S), NEW e \in S, NEW to \in 1 .. Len(h), NEW from \in Up(to)
    PROVE  LET g == MoveDown(h, from, to, e)
           IN  g \in Seq(S) /\ Len(g) = Len(h) /\ MovedDown(h, g, from, to, e)
<1> DEFINE g == MoveDown(h, from, to, e)
           Child(n) == CHOOSE k \in Up(to) : PARENT(k) = n
<1>1. Len(h) \in Nat /\ DOMAIN h = 1 .. Len(h) /\ \A n \in 1 .. Len(h) : h[n] \in S
  BY LenProperties
<1>2. /\ to \in Nat \ {0} /\ from \in 1 .. to
      /\ Up(to) \subseteq 1 .. Len(h) /\ Up(to) \subseteq 1 .. to
  BY <1>1, UpFacts
<1>3. g = [n \in 1 .. Len(h) |-> IF n = to THEN e
                                 ELSE IF n \in Up(to) /\ n >= from THEN h[Child(n)] ELSE h[n]]
  BY <1>1 DEF MoveDown
<1>4. ASSUME NEW n \in Up(to), n # to PROVE Child(n) \in Up(to)
  BY <1>4, <1>2, UpChild
<1>5. ASSUME NEW n \in Up(to), n > from PROVE PARENT(n) # to /\ Child(PARENT(n)) = n
  <2> HIDE DEF Child, g
  <2>1. n \in Nat /\ n > 1 /\ n <= to
    BY <1>2, <1>5
  <2>a. PARENT(n) \in 1 .. n - 1
    BY <2>1, ParentFacts
  <2> USE DEF Child
  <2>2. PICK k \in Up(to) : k = Child(PARENT(n)) /\ PARENT(k) = PARENT(n)
    BY <1>5
  <2>3. k \in Nat /\ (k = 1 => PARENT(k) = 0) /\ k > 0
    BY <1>2 DEF PARENT
  <2>4. k > 1
    BY <2>1, <2>2, <2>3, <2>a
  <2>5. k = n
    BY <2>1, <2>2, <2>4, <1>2, <1>5, UpOneChild
  <2> QED
    BY <2>1, <2>2, <2>5, <2>a
<1> HIDE DEF g, Child
<1>6. g \in [1 .. Len(h) -> S]
  BY <1>1, <1>2, <1>3, <1>4
<1>7. g \in Seq(S) /\ Len(g) = Len(h)
  BY <1>1, <1>6, SeqDef, LenProperties
<1>8. ASSUME NEW n \in Up(to), n > from PROVE g[PARENT(n)] = h[n]
  <2>1. n \in Nat /\ n > 1 /\ PARENT(n) \in 1 .. n - 1 /\ n <= Len(h)
    BY <1>2, <1>8, ParentFacts
  <2>2. PARENT(n) \in Up(to) /\ PARENT(n) >= from
    BY <1>2, <1>8, <2>1, UpFacts, UpChain
  <2> QED
    BY <1>3, <1>5, <1>8, <2>1, <2>2
<1>9. \A n \in 1 .. Len(h) : ~(n \in Up(to) /\ n >= from) => g[n] = h[n]
  <2>1. to \in Up(to) /\ to >= from
    BY <1>2, UpFacts
  <2> QED
    BY <1>3, <2>1
<1>10. g[to] = e
  BY <1>3
<1>11. MovedDown(h, g, from, to, e)
  BY <1>8, <1>9, <1>10 DEF MovedDown
<1> QED
  BY <1>7, <1>11 DEF g

LEMMA MoveUpContents ==
    ASSUME NEW S, NEW h \in Seq(S), NEW e \in S, NEW from \in 1 .. Len(h), NEW to \in Up(from),
           Open(h, from, e)
    PROVE  LET g == MoveUp(h, from, to, e)
           IN  IsInjective(g) /\ Range(g) = Contents(h, from) \cup {e}
<1> DEFINE g == MoveUp(h, from, to, e)
           s == [n \in (1 .. Len(h)) \ {to} |->
                    IF n \in Up(from) /\ n > to THEN PARENT(n) ELSE n]
<1>1. Len(h) \in Nat /\ from \in Nat \ {0} /\ to \in 1 .. from /\ Up(from) \subseteq 1 .. from
      /\ from \in Up(from)
  BY LenProperties, UpFacts
<1>2. ASSUME NEW n \in Up(from), n > to
      PROVE  PARENT(n) \in Up(from) /\ PARENT(n) \in to .. n - 1 /\ n > 1
  <2>1. n \in Nat /\ n > 1
    BY <1>1, <1>2
  <2> QED
    BY <1>1, <1>2, <2>1, UpFacts, UpChain, ParentFacts
<1>3. s \in [(1 .. Len(h)) \ {to} -> (1 .. Len(h)) \ {from}]
  <2> SUFFICES ASSUME NEW n \in (1 .. Len(h)) \ {to} PROVE s[n] \in (1 .. Len(h)) \ {from}
    OBVIOUS
  <2>1. CASE n \in Up(from) /\ n > to
    <3>1. n <= from /\ s[n] = PARENT(n)
      BY <1>1, <2>1
    <3> QED
      BY <1>1, <1>2, <2>1, <3>1
  <2>2. CASE ~(n \in Up(from) /\ n > to)
    <3>1. n # from
      BY <1>1, <2>2
    <3> QED
      BY <3>1, <2>2
  <2> QED
    BY <2>1, <2>2
<1>4. ASSUME NEW i \in (1 .. Len(h)) \ {to}, NEW j \in (1 .. Len(h)) \ {to}, s[i] = s[j]
      PROVE  i = j
  <2>1. CASE i \in Up(from) /\ i > to /\ j \in Up(from) /\ j > to
    BY <2>1, <1>1, <1>2, <1>4, UpOneChild
  <2>2. CASE i \in Up(from) /\ i > to /\ ~(j \in Up(from) /\ j > to)
    <3>1. PARENT(i) = j
      BY <1>4, <2>2
    <3> QED
      BY <3>1, <2>2, <1>2
  <2>3. CASE j \in Up(from) /\ j > to /\ ~(i \in Up(from) /\ i > to)
    <3>1. PARENT(j) = i
      BY <1>4, <2>3
    <3> QED
      BY <3>1, <2>3, <1>2
  <2>4. CASE ~(i \in Up(from) /\ i > to) /\ ~(j \in Up(from) /\ j > to)
    BY <1>4, <2>4
  <2> QED
    BY <2>1, <2>2, <2>3, <2>4
<1>5. ASSUME NEW k \in (1 .. Len(h)) \ {from} PROVE \E i \in (1 .. Len(h)) \ {to} : s[i] = k
  <2>1. CASE k \in Up(from) /\ k >= to
    <3>1. PICK c \in Up(from) : c > k /\ PARENT(c) = k
      BY <2>1, <1>1, UpChild
    <3>2. c \in (1 .. Len(h)) \ {to} /\ c > to
      BY <3>1, <2>1, <1>1
    <3> QED
      BY <3>1, <3>2
  <2>2. CASE ~(k \in Up(from) /\ k >= to)
    <3>1. k # to /\ ~(k \in Up(from) /\ k > to) /\ k \in (1 .. Len(h)) \ {to}
      BY <2>2, <1>1
    <3>2. s[k] = k
      BY <3>1
    <3> QED
      BY <3>1, <3>2
  <2> QED
    BY <2>1, <2>2
<1>6. /\ g \in Seq(S) /\ Len(g) = Len(h) /\ g[to] = e
      /\ \A n \in 1 .. Len(h) : n \in Up(from) /\ n > to => g[n] = h[PARENT(n)]
      /\ \A n \in 1 .. Len(h) : n # to /\ ~(n \in Up(from) /\ n > to) => g[n] = h[n]
  <2>1. g \in Seq(S) /\ Len(g) = Len(h) /\ MovedUp(h, g, from, to, e)
    BY MoveUpNodes
  <2> QED
    BY <2>1 DEF MovedUp
<1>7. \A i \in (1 .. Len(h)) \ {to} : g[i] = h[s[i]]
  BY <1>6
<1>8. to \in 1 .. Len(h)
  BY <1>1
<1> HIDE DEF s, g
<1>9. IsInjective(g) /\ Range(g) = Contents(h, from) \cup {e}
  <2>1. Moves(h, g, from, to, e, s)
    BY <1>3, <1>4, <1>5, <1>6, <1>7 DEF Moves
  <2> QED
    BY <2>1, <1>6, <1>8, Rearranged
<1> QED
  BY <1>9 DEF g

LEMMA MoveDownContents ==
    ASSUME NEW S, NEW h \in Seq(S), NEW e \in S, NEW to \in 1 .. Len(h), NEW from \in Up(to),
           Open(h, from, e)
    PROVE  LET g == MoveDown(h, from, to, e)
           IN  IsInjective(g) /\ Range(g) = Contents(h, from) \cup {e}
<1> DEFINE g == MoveDown(h, from, to, e)
           Lower(n) == CHOOSE c \in Up(to) : c > n /\ PARENT(c) = n
           s == [n \in (1 .. Len(h)) \ {to} |->
                    IF n \in Up(to) /\ n >= from THEN Lower(n) ELSE n]
<1>1. Len(h) \in Nat /\ to \in Nat \ {0} /\ from \in 1 .. to /\ Up(to) \subseteq 1 .. to
      /\ to \in Up(to)
  BY LenProperties, UpFacts
<1>2. ASSUME NEW n \in Up(to), n # to
      PROVE  Lower(n) \in Up(to) /\ Lower(n) > n /\ PARENT(Lower(n)) = n
  BY <1>1, <1>2, UpChild
<1> HIDE DEF Lower
<1>3. s \in [(1 .. Len(h)) \ {to} -> (1 .. Len(h)) \ {from}]
  <2> SUFFICES ASSUME NEW n \in (1 .. Len(h)) \ {to} PROVE s[n] \in (1 .. Len(h)) \ {from}
    OBVIOUS
  <2>1. CASE n \in Up(to) /\ n >= from
    BY <1>1, <1>2, <2>1
  <2>2. CASE ~(n \in Up(to) /\ n >= from)
    <3>1. n # from
      BY <1>1, <2>2
    <3> QED
      BY <3>1, <2>2
  <2> QED
    BY <2>1, <2>2
<1>4. ASSUME NEW i \in (1 .. Len(h)) \ {to}, NEW j \in (1 .. Len(h)) \ {to}, s[i] = s[j]
      PROVE  i = j
  <2>1. CASE i \in Up(to) /\ i >= from /\ j \in Up(to) /\ j >= from
    <3>1. PARENT(s[i]) = i /\ PARENT(s[j]) = j
      BY <1>2, <2>1
    <3> QED
      BY <3>1, <1>4
  <2>2. CASE i \in Up(to) /\ i >= from /\ ~(j \in Up(to) /\ j >= from)
    <3>1. s[i] \in Up(to) /\ s[i] > i /\ s[j] = j
      BY <1>2, <2>2
    <3> QED
      BY <3>1, <2>2, <1>4, <1>1
  <2>3. CASE j \in Up(to) /\ j >= from /\ ~(i \in Up(to) /\ i >= from)
    <3>1. s[j] \in Up(to) /\ s[j] > j /\ s[i] = i
      BY <1>2, <2>3
    <3> QED
      BY <3>1, <2>3, <1>4, <1>1
  <2>4. CASE ~(i \in Up(to) /\ i >= from) /\ ~(j \in Up(to) /\ j >= from)
    BY <1>4, <2>4
  <2> QED
    BY <2>1, <2>2, <2>3, <2>4
<1>5. ASSUME NEW k \in (1 .. Len(h)) \ {from} PROVE \E i \in (1 .. Len(h)) \ {to} : s[i] = k
  <2>1. CASE k \in Up(to) /\ k > from
    <3>1. k > 1 /\ PARENT(k) \in Up(to) /\ PARENT(k) \in from .. k - 1
      BY <2>1, <1>1, UpFacts, UpChain, ParentFacts
    <3>2. PARENT(k) \in (1 .. Len(h)) \ {to} /\ k <= to
      BY <3>1, <2>1, <1>1
    <3>3. s[PARENT(k)] = Lower(PARENT(k))
      BY <3>1, <3>2
    <3>4. Lower(PARENT(k)) \in Up(to) /\ Lower(PARENT(k)) > PARENT(k)
          /\ PARENT(Lower(PARENT(k))) = PARENT(k)
      BY <3>1, <3>2, <1>2
    <3>5. Lower(PARENT(k)) > 1
      BY <3>1, <3>4, <1>1
    <3>6. Lower(PARENT(k)) = k
      BY <3>1, <3>4, <3>5, <2>1, <1>1, UpOneChild
    <3> QED
      BY <3>2, <3>3, <3>6
  <2>2. CASE ~(k \in Up(to) /\ k > from)
    <3>1. k # to /\ ~(k \in Up(to) /\ k >= from)
      BY <2>2, <1>1
    <3> QED
      BY <3>1
  <2> QED
    BY <2>1, <2>2
<1>6. /\ g \in Seq(S) /\ Len(g) = Len(h) /\ g[to] = e
      /\ \A n \in Up(to) : n > from => g[PARENT(n)] = h[n]
      /\ \A n \in 1 .. Len(h) : ~(n \in Up(to) /\ n >= from) => g[n] = h[n]
  <2>1. g \in Seq(S) /\ Len(g) = Len(h) /\ MovedDown(h, g, from, to, e)
    BY MoveDownNodes
  <2> QED
    BY <2>1 DEF MovedDown
<1>7. ASSUME NEW i \in (1 .. Len(h)) \ {to} PROVE g[i] = h[s[i]]
  <2>1. CASE i \in Up(to) /\ i >= from
    <3>1. s[i] \in Up(to) /\ s[i] > from /\ PARENT(s[i]) = i
      BY <1>1, <1>2, <2>1
    <3> QED
      BY <3>1, <1>6
  <2>2. CASE ~(i \in Up(to) /\ i >= from)
    BY <2>2, <1>6
  <2> QED
    BY <2>1, <2>2
<1>8. from \in 1 .. Len(h)
  BY <1>1
<1> HIDE DEF s, g
<1>9. IsInjective(g) /\ Range(g) = Contents(h, from) \cup {e}
  <2>1. Moves(h, g, from, to, e, s)
    BY <1>3, <1>4, <1>5, <1>6, <1>7 DEF Moves
  <2> QED
    BY <2>1, <1>6, <1>8, Rearranged
<1> QED
  BY <1>9 DEF g

----------------------------------------------------------------------------
\* The order of a heap, by the keys K of the events

HeapOrdered(h, K) == \A n \in 2 .. Len(h) : K[h[PARENT(n)]] <= K[h[n]]

\* The order around the empty node from.
HoleOrdered(h, K, from) ==
    \A n \in 2 .. Len(h) : n # from =>
        /\ PARENT(n) # from => K[h[PARENT(n)]] <= K[h[n]]
        /\ PARENT(n) = from /\ from > 1 => K[h[PARENT(from)]] <= K[h[n]]

\* to is where the way up ends: above it is nothing later than e, and e is
\* earlier than what it has passed.
UpEnds(h, K, from, to, e) ==
    /\ to > 1 => K[h[PARENT(to)]] <= K[e]
    /\ \A n \in Up(from) : n > to => K[e] < K[h[PARENT(n)]]
    /\ \A n \in 2 .. Len(h) : PARENT(n) = from => K[e] <= K[h[n]]

LEMMA UpOrdered ==
    ASSUME NEW S, NEW h \in Seq(S), NEW K \in [S -> Int], NEW e \in S,
           NEW from \in 1 .. Len(h), NEW to \in Up(from), NEW g \in Seq(S), Len(g) = Len(h),
           MovedUp(h, g, from, to, e), HoleOrdered(h, K, from), UpEnds(h, K, from, to, e)
    PROVE  HeapOrdered(g, K)
<1>1. /\ Len(h) \in Nat /\ from \in Nat \ {0} /\ to \in 1 .. from /\ Up(from) \subseteq 1 .. from
      /\ from \in Up(from)
      /\ \A n \in 1 .. Len(h) : h[n] \in S
  BY LenProperties, UpFacts
<1>2. K[e] \in Int /\ \A n \in 1 .. Len(h) : K[h[n]] \in Int
  BY <1>1
<1>3. /\ g[to] = e
      /\ \A n \in 1 .. Len(h) : n \in Up(from) /\ n > to => g[n] = h[PARENT(n)]
      /\ \A n \in 1 .. Len(h) : n # to /\ ~(n \in Up(from) /\ n > to) => g[n] = h[n]
  BY DEF MovedUp
<1>4. ASSUME NEW n \in 2 .. Len(h), n # from, PARENT(n) # from
      PROVE  K[h[PARENT(n)]] <= K[h[n]]
  BY <1>4 DEF HoleOrdered
<1> SUFFICES ASSUME NEW n \in 2 .. Len(h) PROVE K[g[PARENT(n)]] <= K[g[n]]
  BY DEF HeapOrdered
<1> DEFINE q == PARENT(n)
<1>5. n \in 1 .. Len(h) /\ n > 1 /\ q = PARENT(n) /\ q \in 1 .. Len(h) /\ q < n
  <2>1. n \in Nat /\ n > 1 /\ n <= Len(h)
    BY <1>1
  <2>2. q \in 1 .. n - 1
    BY <2>1, ParentFacts
  <2> HIDE DEF q
  <2>3. q \in 1 .. Len(h) /\ q < n /\ n \in 1 .. Len(h)
    BY <2>1, <2>2, <1>1
  <2> QED
    BY <2>1, <2>3 DEF q
<1> HIDE DEF q
<1>6. n \in Up(from) => q \in Up(from)
  BY <1>5, <1>1, UpFacts
<1>7. CASE n \in Up(from) /\ n > to
  <2>1. q \in Up(from) /\ to <= q /\ n <= from /\ g[n] = h[q]
    BY <1>1, <1>3, <1>5, <1>7, UpFacts, UpChain
  <2>2. CASE q = to
    <3>1. K[e] < K[h[q]]
      BY <1>7, <1>5 DEF UpEnds
    <3> QED
      BY <3>1, <2>1, <2>2, <1>1, <1>2, <1>3, <1>5, SMTT(30)
  <2>3. CASE q # to
    <3>1. q \in Nat /\ q > to /\ q > 1 /\ q < from /\ q \in 2 .. Len(h)
      BY <2>1, <2>3, <1>1, <1>5, SMTT(30)
    <3>2. g[q] = h[PARENT(q)]
      BY <3>1, <2>1, <1>3, <1>5
    <3>3. PARENT(q) \in 1 .. q - 1
      BY <3>1, ParentFacts
    <3>4. PARENT(q) # from
      BY <3>1, <3>3, <1>1
    <3>5. K[h[PARENT(q)]] <= K[h[q]]
      BY <3>1, <3>4, <1>4
    <3> QED
      BY <3>2, <3>5, <2>1, <1>5
  <2> QED
    BY <2>2, <2>3, <1>5
<1>8. CASE n = to
  <2>1. q \in Up(from) /\ q # to /\ ~(q > to)
    BY <1>1, <1>5, <1>6, <1>8, SMTT(30)
  <2>2. g[q] = h[q]
    BY <2>1, <1>3, <1>5
  <2>3. K[h[PARENT(to)]] <= K[e]
    BY <1>5, <1>8 DEF UpEnds
  <2> QED
    BY <2>2, <2>3, <1>3, <1>8, <1>5
<1>9. CASE n \in Up(from) /\ n < to
  <2>a. n # to /\ ~(n > to) /\ q # to /\ ~(q > to) /\ n # from /\ q # from
    BY <1>1, <1>5, <1>9, SMTT(30)
  <2>1. g[n] = h[n] /\ g[q] = h[q] /\ n # from /\ q # from
    BY <2>a, <1>3, <1>5
  <2> QED
    BY <2>1, <1>4, <1>5
<1>10. CASE n \notin Up(from)
  <2>1. g[n] = h[n] /\ n # from
    BY <1>1, <1>3, <1>5, <1>10
  <2>2. CASE q \in Up(from) /\ q > to
    <3>1. g[q] = h[PARENT(q)] /\ q > 1
      BY <1>1, <1>3, <1>5, <2>2
    <3>2. CASE q = from
      BY <3>1, <3>2, <2>1, <1>5 DEF HoleOrdered
    <3>3. CASE q # from
      <4>1. K[h[q]] <= K[h[n]]
        BY <3>3, <2>1, <1>4, <1>5
      <4>2. q \in Nat /\ q > 1 /\ q < from /\ q \in 2 .. Len(h)
        BY <3>1, <3>3, <2>2, <1>1, <1>5, SMTT(30)
      <4>3. PARENT(q) \in 1 .. q - 1
        BY <4>2, ParentFacts
      <4>a. Len(h) \in Nat /\ from \in Nat
        BY <1>1
      <4>4. PARENT(q) \in 1 .. Len(h) /\ PARENT(q) # from
        <5>1. ASSUME NEW r \in 1 .. q - 1 PROVE r \in 1 .. Len(h) /\ r # from
          BY <5>1, <4>2, <4>a, SMTT(30)
        <5> QED
          BY <5>1, <4>3
      <4>5. K[h[PARENT(q)]] <= K[h[q]]
        BY <4>2, <4>4, <3>3, <1>4
      <4>6. K[h[PARENT(q)]] \in Int /\ K[h[q]] \in Int /\ K[h[n]] \in Int
        BY <4>4, <1>2, <1>5
      <4>7. K[h[PARENT(q)]] <= K[h[n]]
        BY <4>1, <4>5, <4>6, SMTT(30)
      <4> QED
        BY <4>7, <3>1, <2>1, <1>5
    <3> QED
      BY <3>2, <3>3, <1>5
  <2>3. CASE q = to
    <3>1. CASE to = from
      <4>1. K[e] <= K[h[n]]
        BY <2>3, <3>1, <1>5 DEF UpEnds
      <4> QED
        BY <4>1, <2>1, <2>3, <1>3, <1>5
    <3>2. CASE to # from
      <4>1. PICK c \in Up(from) : c > to /\ PARENT(c) = to
        BY <3>2, <1>1, UpChild, <1>5
      <4>2. K[e] < K[h[to]]
        BY <4>1, <1>5 DEF UpEnds
      <4>3. K[h[q]] <= K[h[n]]
        BY <2>1, <2>3, <3>2, <1>4, <1>5
      <4>4. K[e] <= K[h[n]]
        BY <4>2, <4>3, <2>3, <1>2, <1>5
      <4> QED
        BY <4>4, <2>1, <2>3, <1>3, <1>5
    <3> QED
      BY <3>1, <3>2, <1>5
  <2>4. CASE q # to /\ ~(q \in Up(from) /\ q > to)
    <3>1. g[q] = h[q]
      BY <2>4, <1>3, <1>5
    <3>2. q # from
      BY <2>4, <1>1, <1>5
    <3> QED
      BY <3>1, <3>2, <2>1, <1>4, <1>5
  <2> QED
    BY <2>2, <2>3, <2>4, <1>5
<1> QED
  BY <1>1, <1>7, <1>8, <1>9, <1>10, <1>5

\* to is where the way down ends: e is later than what it has passed, the
\* earlier children, and nothing below to is earlier than e.
DownEnds(h, K, from, to, e) ==
    /\ from > 1 => K[h[PARENT(from)]] <= K[e]
    /\ \A n \in Up(to) : n > from =>
          /\ K[h[n]] < K[e]
          /\ \A other \in 2 .. Len(h) : PARENT(other) = PARENT(n) => K[h[n]] <= K[h[other]]
    /\ \A n \in 2 .. Len(h) : PARENT(n) = to => K[e] <= K[h[n]]

LEMMA DownOrdered ==
    ASSUME NEW S, NEW h \in Seq(S), NEW K \in [S -> Int], NEW e \in S,
           NEW to \in 1 .. Len(h), NEW from \in Up(to), NEW g \in Seq(S), Len(g) = Len(h),
           MovedDown(h, g, from, to, e), HoleOrdered(h, K, from), DownEnds(h, K, from, to, e)
    PROVE  HeapOrdered(g, K)
<1>1. /\ Len(h) \in Nat /\ to \in Nat \ {0} /\ from \in 1 .. to /\ Up(to) \subseteq 1 .. to
      /\ to \in Up(to)
      /\ \A n \in 1 .. Len(h) : h[n] \in S
  BY LenProperties, UpFacts
<1>2. K[e] \in Int /\ \A n \in 1 .. Len(h) : K[h[n]] \in Int
  BY <1>1
<1>3. /\ g[to] = e
      /\ \A n \in Up(to) : n > from => g[PARENT(n)] = h[n]
      /\ \A n \in 1 .. Len(h) : ~(n \in Up(to) /\ n >= from) => g[n] = h[n]
  BY DEF MovedDown
<1>4. ASSUME NEW n \in 2 .. Len(h), n # from, PARENT(n) # from
      PROVE  K[h[PARENT(n)]] <= K[h[n]]
  BY <1>4 DEF HoleOrdered
<1> SUFFICES ASSUME NEW n \in 2 .. Len(h) PROVE K[g[PARENT(n)]] <= K[g[n]]
  BY DEF HeapOrdered
<1> DEFINE q == PARENT(n)
<1>5. n \in 1 .. Len(h) /\ n > 1 /\ q = PARENT(n) /\ q \in 1 .. Len(h) /\ q < n
  <2>1. n \in Nat /\ n > 1 /\ n <= Len(h)
    BY <1>1
  <2>2. q \in 1 .. n - 1
    BY <2>1, ParentFacts
  <2> HIDE DEF q
  <2>3. q \in 1 .. Len(h) /\ q < n /\ n \in 1 .. Len(h)
    BY <2>1, <2>2, <1>1
  <2> QED
    BY <2>1, <2>3 DEF q
<1> HIDE DEF q
<1>6. n \in Up(to) => q \in Up(to)
  BY <1>5, <1>1, UpFacts
<1>7. CASE n = to
  <2>1. CASE to = from
    <3>1. g[q] = h[q]
      BY <2>1, <1>1, <1>3, <1>5, <1>7
    <3>2. K[h[q]] <= K[e]
      BY <2>1, <1>5, <1>7 DEF DownEnds
    <3> QED
      BY <3>1, <3>2, <1>3, <1>7, <1>5
  <2>2. CASE to # from
    <3>1. n > from /\ g[q] = h[n]
      BY <2>2, <1>1, <1>3, <1>7, <1>5, SMTT(30)
    <3>2. K[h[n]] < K[e]
      BY <3>1, <1>1, <1>7, <1>5 DEF DownEnds
    <3> QED
      BY <3>1, <3>2, <1>2, <1>3, <1>5, <1>7
  <2> QED
    BY <2>1, <2>2, <1>5
<1>8. CASE n \in Up(to) /\ n >= from /\ n < to
  <2>1. PICK c \in Up(to) : c > n /\ PARENT(c) = n
    BY <1>1, <1>8, UpChild, <1>5
  <2>b. c \in 1 .. to /\ to \in 1 .. Len(h) /\ n \in Nat /\ from \in Nat
    BY <2>1, <1>1, <1>5
  <2>c. Len(h) \in Nat
    BY <1>1
  <2>a. c \in 2 .. Len(h) /\ c > from
    BY <2>1, <2>b, <2>c, <1>8, SMTT(30)
  <2>2. c \in 2 .. Len(h) /\ c > from /\ c # from /\ g[n] = h[c]
    BY <2>1, <2>a, <1>1, <1>3, SMTT(30)
  <2>3. CASE n = from
    <3>a. ~(q >= from) /\ from > 1
      BY <2>3, <1>1, <1>5
    <3>1. g[q] = h[q]
      BY <3>a, <1>3, <1>5
    <3>2. K[h[PARENT(from)]] <= K[h[c]]
      BY <3>a, <2>1, <2>2, <2>3 DEF HoleOrdered
    <3> QED
      BY <3>1, <3>2, <2>2, <2>3, <1>5
  <2>4. CASE n > from
    <3>1. g[q] = h[n]
      BY <2>4, <1>3, <1>8, <1>5
    <3>a. n # from
      BY <2>4, <1>1
    <3>2. K[h[n]] <= K[h[c]]
      BY <3>a, <2>1, <2>2, <1>4
    <3> QED
      BY <3>1, <3>2, <2>2, <1>5
  <2> QED
    BY <2>3, <2>4, <1>1, <1>8, <1>5
<1>9. CASE ~(n \in Up(to) /\ n >= from)
  <2>1. g[n] = h[n] /\ n # from
    BY <1>1, <1>3, <1>5, <1>9, SMTT(30)
  <2>2. CASE q \in Up(to) /\ q >= from /\ q # to
    <3>1. PICK c \in Up(to) : c > q /\ PARENT(c) = q
      BY <1>1, <2>2, UpChild, <1>5
    <3>a. c > from
      BY <3>1, <2>2, <1>1, <1>5
    <3>2. c > from /\ g[q] = h[c]
      BY <3>1, <3>a, <1>3
    <3>3. K[h[c]] <= K[h[n]]
      BY <3>1, <3>2, <1>5 DEF DownEnds
    <3> QED
      BY <3>2, <3>3, <2>1, <1>5
  <2>3. CASE q = to
    <3>1. K[e] <= K[h[n]]
      BY <2>3, <1>5 DEF DownEnds
    <3> QED
      BY <3>1, <2>1, <2>3, <1>3, <1>5
  <2>4. CASE ~(q \in Up(to) /\ q >= from)
    <3>1. g[q] = h[q]
      BY <2>4, <1>3, <1>5
    <3>2. q # from
      BY <2>4, <1>1, <1>5
    <3> QED
      BY <3>1, <3>2, <2>1, <1>4, <1>5
  <2> QED
    BY <2>2, <2>3, <2>4, <1>5
<1> QED
  BY <1>1, <1>7, <1>8, <1>9, <1>5

----------------------------------------------------------------------------
\* The ways up and down

Key(ev, b) == [e \in Ev |-> (ev[e] - b) % EVT]

LEMMA KeyFacts ==
    ASSUME HeapAssumption, NEW ev \in [Ev -> Int], NEW b \in Int
    PROVE  /\ Key(ev, b) \in [Ev -> Int]
           /\ \A e, f \in Ev : /\ EVTTIM_LE(ev[e], ev[f], b) <=> Key(ev, b)[e] <= Key(ev, b)[f]
                               /\ EVTTIM_LT(ev[e], ev[f], b) <=> Key(ev, b)[e] < Key(ev, b)[f]
<1>1. \A e \in Ev : (ev[e] - b) % EVT \in Int
  BY DEF HeapAssumption
<1> QED
  BY <1>1 DEF Key, EVTTIM_LE, EVTTIM_LT

LEMMA UpPlace ==
    ASSUME HeapAssumption, NEW h \in Seq(Ev), NEW ev \in [Ev -> Int], NEW b \in Int, NEW e \in Ev,
           NEW n \in 1 .. Len(h)
    PROVE  LET K  == Key(ev, b)
               to == tmevt_up(h, n, ev[e], ev, b)
           IN  /\ to \in Up(n)
               /\ to > 1 => K[h[PARENT(to)]] <= K[e]
               /\ \A k \in Up(n) : k > to => K[e] < K[h[PARENT(k)]]
<1> DEFINE K  == Key(ev, b)
           to == tmevt_up(h, n, ev[e], ev, b)
           Stop(k) == k = 1 \/ EVTTIM_LE(ev[h[PARENT(k)]], ev[e], b)
           T  == {k \in Up(n) : Stop(k)}
<1>1. Len(h) \in Nat /\ n \in Nat \ {0} /\ \A k \in 1 .. Len(h) : h[k] \in Ev
  BY LenProperties
<1>2. Up(n) \subseteq 1 .. n /\ 1 \in Up(n)
  BY <1>1, UpFacts
<1>3. to = Max(T)
  BY DEF tmevt_up
<1>4. T \in SUBSET (0 .. n) /\ T # {}
  BY <1>1, <1>2
<1> HIDE DEF T, to
<1>5. to \in T /\ \A k \in T : k <= to
  BY <1>1, <1>3, <1>4, MaxFacts
<1>6. to \in Up(n) /\ Stop(to) /\ \A k \in Up(n) : Stop(k) => k <= to
  BY <1>5 DEF T
<1> HIDE DEF Stop, K
<1>7. ASSUME NEW k \in Up(n), k > 1
      PROVE  /\ Stop(k) <=> K[h[PARENT(k)]] <= K[e]
             /\ K[h[PARENT(k)]] \in Int /\ K[e] \in Int
  <2>1. k \in Nat /\ k > 1 /\ k <= Len(h)
    BY <1>1, <1>2, <1>7
  <2>2. PARENT(k) \in 1 .. k - 1
    BY <2>1, ParentFacts
  <2>3. PARENT(k) \in 1 .. Len(h)
    BY <2>1, <2>2, <1>1
  <2>4. h[PARENT(k)] \in Ev
    BY <2>3, <1>1
  <2>5. K \in [Ev -> Int]
    BY KeyFacts DEF K
  <2>6. EVTTIM_LE(ev[h[PARENT(k)]], ev[e], b) <=> K[h[PARENT(k)]] <= K[e]
    BY <2>4, KeyFacts DEF K
  <2>7. k # 1
    BY <2>1
  <2> QED
    BY <2>4, <2>5, <2>6, <2>7 DEF Stop
<1>8. to > 1 => K[h[PARENT(to)]] <= K[e]
  BY <1>6, <1>7
<1>9. ASSUME NEW k \in Up(n), k > to PROVE K[e] < K[h[PARENT(k)]]
  <2>1. k > 1 /\ ~Stop(k)
    BY <1>2, <1>6, <1>9
  <2>2. ~(K[h[PARENT(k)]] <= K[e]) /\ K[h[PARENT(k)]] \in Int /\ K[e] \in Int
    BY <2>1, <1>7
  <2> QED
    BY <2>2
<1> QED
  BY <1>6, <1>8, <1>9 DEF K, to

LEMMA EarlierChildFacts ==
    ASSUME HeapAssumption, NEW h \in Seq(Ev), NEW ev \in [Ev -> Int], NEW b \in Int,
           NEW k \in Nat \ {0}, 2 * k <= Len(h)
    PROVE  LET K == Key(ev, b)
               c == EarlierChild(h, k, ev, b)
           IN  /\ c \in 2 .. Len(h) /\ c > k /\ PARENT(c) = k
               /\ \A other \in 2 .. Len(h) : PARENT(other) = k => K[h[c]] <= K[h[other]]
<1> DEFINE K == Key(ev, b)
           c == EarlierChild(h, k, ev, b)
<1>1. Len(h) \in Nat /\ \A i \in 1 .. Len(h) : h[i] \in Ev
  BY LenProperties
<1>2. K \in [Ev -> Int]
  BY KeyFacts
<1>3. 2 * k \in 2 .. Len(h) /\ h[2 * k] \in Ev
  BY <1>1
<1>4. CASE 2 * k + 1 <= Len(h)
  <2>1. 2 * k + 1 \in 2 .. Len(h) /\ h[2 * k + 1] \in Ev
    BY <1>1, <1>4
  <2>2. EVTTIM_LT(ev[h[2 * k + 1]], ev[h[2 * k]], b) <=> K[h[2 * k + 1]] < K[h[2 * k]]
    BY <2>1, <1>3, KeyFacts
  <2>3. c = IF K[h[2 * k + 1]] < K[h[2 * k]] THEN 2 * k + 1 ELSE 2 * k
    BY <2>2, <1>4 DEF EarlierChild
  <2> HIDE DEF K, c
  <2>4. K[h[2 * k]] \in Int /\ K[h[2 * k + 1]] \in Int
    BY <2>1, <1>2, <1>3
  <2>5. c \in {2 * k, 2 * k + 1} /\ K[h[c]] <= K[h[2 * k]] /\ K[h[c]] <= K[h[2 * k + 1]]
    <3>1. CASE K[h[2 * k + 1]] < K[h[2 * k]]
      <4>1. c = 2 * k + 1
        BY <3>1, <2>3
      <4> QED
        BY <4>1, <3>1, <2>4, SMTT(30)
    <3>2. CASE ~(K[h[2 * k + 1]] < K[h[2 * k]])
      <4>1. c = 2 * k
        BY <3>2, <2>3
      <4> QED
        BY <4>1, <3>2, <2>4
    <3> QED
      BY <3>1, <3>2
  <2>6. ASSUME NEW other \in 2 .. Len(h), PARENT(other) = k PROVE other \in {2 * k, 2 * k + 1}
    <3>1. other \in Nat /\ other > 1
      BY <1>1
    <3> QED
      BY <3>1, <2>6, ParentFacts
  <2>a. 2 * k > k /\ 2 * k + 1 > k
    OBVIOUS
  <2>b. PARENT(2 * k) = k /\ PARENT(2 * k + 1) = k
    BY ChildFacts
  <2>7. c \in 2 .. Len(h) /\ c > k /\ PARENT(c) = k
    <3>1. CASE c = 2 * k
      BY <3>1, <2>a, <2>b, <1>3
    <3>2. CASE c = 2 * k + 1
      BY <3>2, <2>a, <2>b, <2>1
    <3> QED
      BY <3>1, <3>2, <2>5
  <2>8. \A other \in 2 .. Len(h) : PARENT(other) = k => K[h[c]] <= K[h[other]]
    BY <2>5, <2>6
  <2> QED
    BY <2>7, <2>8 DEF K, c
<1>5. CASE ~(2 * k + 1 <= Len(h))
  <2>1. c = 2 * k
    BY <1>5 DEF EarlierChild
  <2>2. ASSUME NEW other \in 2 .. Len(h), PARENT(other) = k PROVE other = c
    <3>1. other \in Nat /\ other > 1 /\ other <= Len(h)
      BY <1>1
    <3>2. other = 2 * k \/ other = 2 * k + 1
      BY <3>1, <2>2, ParentFacts
    <3> QED
      BY <3>1, <3>2, <2>1, <1>1, <1>5
  <2>3. c \in 2 .. Len(h) /\ c > k /\ PARENT(c) = k
    BY <2>1, <1>3, ChildFacts
  <2> HIDE DEF K, c
  <2>4. K[h[c]] \in Int
    BY <2>1, <1>2, <1>3
  <2>5. \A other \in 2 .. Len(h) : PARENT(other) = k => K[h[c]] <= K[h[other]]
    BY <2>2, <2>4
  <2> QED
    BY <2>3, <2>5 DEF K, c
<1> QED
  BY <1>4, <1>5

LEMMA DownPlace ==
    ASSUME HeapAssumption, NEW h \in Seq(Ev), NEW ev \in [Ev -> Int], NEW b \in Int, NEW e \in Ev,
           NEW n \in 1 .. Len(h)
    PROVE  LET K  == Key(ev, b)
               to == tmevt_down(h, n, ev[e], ev, b)
           IN  /\ to \in 1 .. Len(h) /\ n \in Up(to)
               /\ \A k \in Up(to) : k > n =>
                     /\ K[h[k]] < K[e]
                     /\ \A other \in 2 .. Len(h) :
                           PARENT(other) = PARENT(k) => K[h[k]] <= K[h[other]]
               /\ \A c \in 2 .. Len(h) : PARENT(c) = to => K[e] <= K[h[c]]
<1> DEFINE K  == Key(ev, b)
           to == tmevt_down(h, n, ev[e], ev, b)
           EC(k) == EarlierChild(h, k, ev, b)
           D  == EarlierDown(h, n, ev, b)
           Stop(k) == 2 * k > Len(h) \/ EVTTIM_LE(ev[e], ev[h[EC(k)]], b)
           T  == {k \in D : Stop(k)}
<1>1. Len(h) \in Nat /\ DOMAIN h = 1 .. Len(h) /\ n \in Nat \ {0}
      /\ \A k \in 1 .. Len(h) : h[k] \in Ev
  BY LenProperties
<1>2. K \in [Ev -> Int]
  BY KeyFacts
<1>3. to = Min(T)
  BY DEF tmevt_down
<1>4. \A k : k \in D <=> /\ k \in 1 .. Len(h) /\ n \in Up(k)
                         /\ \A m \in Up(k) : m > n => m = EC(PARENT(m))
  BY <1>1 DEF EarlierDown
<1>5. ASSUME NEW k \in D, 2 * k <= Len(h)
      PROVE  /\ EC(k) \in 2 .. Len(h) /\ EC(k) > k /\ PARENT(EC(k)) = k
             /\ \A other \in 2 .. Len(h) : PARENT(other) = k => K[h[EC(k)]] <= K[h[other]]
             /\ K[h[EC(k)]] \in Int /\ K[e] \in Int
             /\ Stop(k) <=> K[e] <= K[h[EC(k)]]
  <2>1. k \in Nat \ {0}
    BY <1>4, <1>1
  <2>2. /\ EC(k) \in 2 .. Len(h) /\ EC(k) > k /\ PARENT(EC(k)) = k
        /\ \A other \in 2 .. Len(h) : PARENT(other) = k => K[h[EC(k)]] <= K[h[other]]
    BY <2>1, <1>5, EarlierChildFacts
  <2> HIDE DEF K, EC
  <2>3. h[EC(k)] \in Ev
    BY <2>2, <1>1
  <2>4. EVTTIM_LE(ev[e], ev[h[EC(k)]], b) <=> K[e] <= K[h[EC(k)]]
    BY <2>3, KeyFacts DEF K
  <2>5. ~(2 * k > Len(h))
    BY <2>1, <1>1, <1>5
  <2> QED
    BY <2>2, <2>3, <2>4, <2>5, <1>2
<1> HIDE DEF K, D, EC, Stop, to
<1>6. n \in D
  <2>1. n \in Up(n) /\ \A m \in Up(n) : ~(m > n)
    BY <1>1, UpFacts
  <2> QED
    BY <2>1, <1>4
<1>7. \E k \in D : Stop(k)
  <2>1. D \in SUBSET (0 .. Len(h)) /\ D # {}
    BY <1>1, <1>4, <1>6
  <2>2. Max(D) \in D /\ \A k \in D : k <= Max(D)
    BY <2>1, <1>1, MaxFacts
  <2> DEFINE m == Max(D)
  <2> HIDE DEF m
  <2>3. m \in D /\ \A k \in D : k <= m
    BY <2>2 DEF m
  <2>4. m \in Nat \ {0} /\ n \in Up(m)
    BY <2>3, <1>4, <1>1
  <2>5. CASE 2 * m > Len(h)
    BY <2>3, <2>5 DEF Stop
  <2>6. CASE ~(2 * m > Len(h))
    <3>1. 2 * m <= Len(h)
      BY <2>4, <2>6, <1>1
    <3>2. EC(m) \in 2 .. Len(h) /\ EC(m) > m /\ PARENT(EC(m)) = m
      BY <2>3, <3>1, <1>5
    <3>3. EC(m) \in Nat /\ EC(m) > 1
      BY <3>2, <1>1
    <3>4. Up(EC(m)) = {EC(m)} \cup Up(m)
      BY <3>2, <3>3, UpStep
    <3>5. ASSUME NEW i \in Up(EC(m)), i > n PROVE i = EC(PARENT(i))
      <4>1. CASE i = EC(m)
        BY <4>1, <3>2
      <4>2. CASE i \in Up(m)
        BY <4>2, <3>5, <2>3, <1>4
      <4> QED
        BY <4>1, <4>2, <3>4
    <3>6. EC(m) \in 1 .. Len(h)
      BY <3>2, <1>1
    <3>7. EC(m) \in D
      BY <3>4, <3>5, <3>6, <2>4, <1>4
    <3>8. EC(m) <= m
      BY <3>7, <2>3
    <3> QED
      BY <3>2, <3>3, <3>8, <2>4
  <2> QED
    BY <2>5, <2>6
<1>8. T \in SUBSET Nat /\ T # {}
  BY <1>1, <1>4, <1>7
<1> HIDE DEF T
<1>9. to \in T /\ \A k \in T : to <= k
  BY <1>3, <1>8, MinFacts
<1>10. /\ to \in D /\ Stop(to) /\ to \in 1 .. Len(h) /\ n \in Up(to)
       /\ \A k \in D : Stop(k) => to <= k
  BY <1>4, <1>9 DEF T
<1>11. to \in Nat \ {0} /\ Up(to) \subseteq 1 .. to
  BY <1>1, <1>10, UpFacts
<1>12. ASSUME NEW k \in Up(to), k > n
       PROVE  /\ K[h[k]] < K[e]
              /\ \A other \in 2 .. Len(h) : PARENT(other) = PARENT(k) => K[h[k]] <= K[h[other]]
  <2> DEFINE p == PARENT(k)
  <2>1. k \in Nat /\ k > 1 /\ k <= to
    BY <1>1, <1>11, <1>12
  <2>2. p \in Up(to) /\ p \in 1 .. k - 1 /\ n <= p
    BY <2>1, <1>10, <1>11, <1>12, UpFacts, UpChain, ParentFacts
  <2>3. k = EC(p)
    BY <1>4, <1>10, <1>12
  <2> HIDE DEF p
  <2>4. p \in Nat \ {0} /\ p < to /\ p \in 1 .. Len(h)
    BY <2>1, <2>2, <1>1, <1>10
  <2>5. n \in Up(p) /\ Up(p) \subseteq Up(to)
    BY <2>2, <1>10, <1>11, UpPath, UpTransitive
  <2>6. p \in D
    BY <2>4, <2>5, <1>4, <1>10
  <2>7. ~Stop(p)
    BY <2>4, <2>6, <1>10, <1>11
  <2>8. 2 * p <= Len(h)
    BY <2>4, <2>7, <1>1 DEF Stop
  <2>9. ~(K[e] <= K[h[k]]) /\ K[h[k]] \in Int /\ K[e] \in Int
    BY <2>3, <2>6, <2>7, <2>8, <1>5
  <2>10. \A other \in 2 .. Len(h) : PARENT(other) = p => K[h[k]] <= K[h[other]]
    BY <2>3, <2>6, <2>8, <1>5
  <2> QED
    BY <2>9, <2>10 DEF p
<1>13. ASSUME NEW c \in 2 .. Len(h), PARENT(c) = to PROVE K[e] <= K[h[c]]
  <2>1. c \in Nat /\ c > 1 /\ c <= Len(h)
    BY <1>1
  <2>2. 2 * to <= c
    <3>1. c = 2 * PARENT(c) \/ c = 2 * PARENT(c) + 1
      BY <2>1, ParentFacts
    <3>2. c = 2 * to \/ c = 2 * to + 1
      BY <3>1, <1>13
    <3> QED
      BY <3>2, <1>11
  <2>3. 2 * to <= Len(h)
    BY <2>1, <2>2, <1>1, <1>11
  <2>4. K[e] <= K[h[EC(to)]] /\ K[h[EC(to)]] <= K[h[c]] /\ K[h[EC(to)]] \in Int /\ K[e] \in Int
    BY <2>3, <1>5, <1>10, <1>13
  <2>5. K[h[c]] \in Int
    BY <2>1, <1>1, <1>2
  <2> QED
    BY <2>4, <2>5
<1> QED
  BY <1>10, <1>12, <1>13 DEF K, to

----------------------------------------------------------------------------
\* The operations of the heap

\* A heap of events, ordered by their times relative to the boundary.
OrderedHeap(h, ev, b) == h \in Seq(Ev) /\ IsInjective(h) /\ HeapOrdered(h, Key(ev, b))

\* The last event is taken away from its place, to fill the empty node n.
LastOpens(h, r, n, K) ==
    /\ \A i \in 1 .. Len(r) : r[i] = h[i]
    /\ Open(r, n, h[Len(h)])
    /\ Contents(r, n) \cup {h[Len(h)]} = Range(h) \ {h[n]}
    /\ HoleOrdered(r, K, n)

LEMMA FrontFacts ==
    ASSUME NEW S, NEW h \in Seq(S), h # << >>
    PROVE  /\ Len(h) \in Nat \ {0}
           /\ Front(h) \in Seq(S) /\ Len(Front(h)) = Len(h) - 1
           /\ \A i \in 1 .. Len(h) - 1 : Front(h)[i] = h[i]
           /\ Front(h) = << >> <=> Len(h) = 1
<1>1. Len(h) \in Nat /\ Len(h) # 0
  BY EmptySeq, LenProperties
<1>2. \A i \in 1 .. Len(h) : h[i] \in S
  BY LenProperties
<1>3. SubSeq(h, 1, Len(h) - 1) \in Seq(S) /\ Len(SubSeq(h, 1, Len(h) - 1)) = Len(h) - 1
      /\ \A i \in 1 .. Len(h) - 1 : SubSeq(h, 1, Len(h) - 1)[i] = h[i]
  <2> DEFINE N == Len(h) - 1
             r == SubSeq(h, 1, N)
  <2>1. N \in Int /\ N >= 0
    BY <1>1
  <2>2. \A i \in 1 .. N : h[i] \in S
    BY <1>1, <1>2
  <2> HIDE DEF N
  <2>3. /\ r \in Seq(S) /\ Len(r) = IF 1 <= N THEN N - 1 + 1 ELSE 0
        /\ \A i \in 1 .. N - 1 + 1 : r[i] = h[1 + i - 1]
    BY <2>1, <2>2, SubSeqProperties
  <2> HIDE DEF r
  <2>4. Len(r) = N
    BY <2>1, <2>3
  <2>5. ASSUME NEW i \in 1 .. N PROVE r[i] = h[i]
    <3>1. i \in 1 .. N - 1 + 1 /\ 1 + i - 1 = i
      BY <2>1
    <3> QED BY <3>1, <2>3
  <2> QED BY <2>3, <2>4, <2>5 DEF N, r
<1>4. Front(h) \in Seq(S) /\ Len(Front(h)) = Len(h) - 1
      /\ \A i \in 1 .. Len(h) - 1 : Front(h)[i] = h[i]
  BY <1>3 DEF Front
<1>5. Front(h) = << >> <=> Len(Front(h)) = 0
  BY <1>4, EmptySeq
<1>6. Len(Front(h)) = 0 <=> Len(h) = 1
  BY <1>1, <1>4
<1> QED BY <1>1, <1>4, <1>5, <1>6

LEMMA LastOpensNode ==
    ASSUME NEW h \in Seq(Ev), h # << >>, NEW K \in [Ev -> Int], IsInjective(h), HeapOrdered(h, K),
           NEW n \in 1 .. Len(h) - 1
    PROVE  LastOpens(h, Front(h), n, K)
<1> DEFINE r == Front(h)
           N == Len(h)
<1>1. N \in Nat \ {0} /\ r \in Seq(Ev) /\ Len(r) = N - 1 /\ \A i \in 1 .. N - 1 : r[i] = h[i]
  BY FrontFacts
<1>2. \A i, j \in 1 .. N : h[i] = h[j] => i = j
  BY LenProperties DEF IsInjective
<1> HIDE DEF r, N
<1>3. \A i, j \in 1 .. Len(r) : i # n /\ j # n /\ r[i] = r[j] => i = j
  BY <1>1, <1>2
<1>4. \A i \in 1 .. Len(r) : i # n => r[i] # h[N]
  BY <1>1, <1>2
<1>5. Range(h) = {h[i] : i \in 1 .. N}
  BY LenProperties DEF Range, N
<1>6. ASSUME NEW x \in Contents(r, n) \cup {h[N]} PROVE x \in Range(h) \ {h[n]}
  <2>1. CASE x = h[N]
    <3>1. N \in 1 .. N /\ n \in 1 .. N /\ n # N
      BY <1>1, SMTT(30) DEF N
    <3> QED BY <1>2, <1>5, <2>1, <3>1
  <2>2. CASE x \in Contents(r, n)
    <3>1. PICK i \in (1 .. Len(r)) \ {n} : x = r[i]
      BY <2>2 DEF Contents
    <3>2. i \in 1 .. N - 1 /\ i # n
      BY <1>1, <3>1
    <3>3. i \in 1 .. N /\ n \in 1 .. N /\ x = h[i]
      BY <1>1, <3>1, <3>2, SMTT(30) DEF N
    <3> QED BY <1>2, <1>5, <3>2, <3>3
  <2> QED BY <1>6, <2>1, <2>2
<1>7. ASSUME NEW x \in Range(h) \ {h[n]} PROVE x \in Contents(r, n) \cup {h[N]}
  <2>1. PICK i \in 1 .. N : x = h[i]
    BY <1>5, <1>7
  <2>2. i # n
    BY <1>7, <2>1
  <2>3. CASE i # N
    <3>1. i \in (1 .. Len(r)) \ {n} /\ x = r[i]
      BY <1>1, <2>1, <2>2, <2>3
    <3> QED BY <3>1 DEF Contents
  <2> QED BY <2>1, <2>3
<1>8. HoleOrdered(r, K, n)
  <2>1. \A m \in 2 .. N : K[h[PARENT(m)]] <= K[h[m]]
    BY DEF HeapOrdered, N
  <2>2. ASSUME NEW m \in 2 .. Len(r), m # n
        PROVE  /\ PARENT(m) # n => K[r[PARENT(m)]] <= K[r[m]]
               /\ PARENT(m) = n /\ n > 1 => K[r[PARENT(n)]] <= K[r[m]]
    <3>1. m \in Nat /\ m > 1 /\ m \in 2 .. N /\ m \in 1 .. N - 1
      BY <1>1
    <3>2. PARENT(m) \in 1 .. m - 1
      BY <3>1, ParentFacts
    <3>3. PARENT(m) \in 1 .. N - 1
      BY <3>1, <3>2, <1>1
    <3>4. r[m] = h[m] /\ r[PARENT(m)] = h[PARENT(m)]
      BY <1>1, <3>1, <3>3
    <3>5. ASSUME PARENT(m) = n, n > 1 PROVE K[r[PARENT(n)]] <= K[r[m]]
      <4>1. n \in 2 .. N /\ n \in Nat
        BY <3>5, <1>1 DEF N
      <4>2. PARENT(n) \in 1 .. n - 1
        BY <4>1, <3>5, ParentFacts
      <4>3. PARENT(n) \in 1 .. N - 1 /\ PARENT(n) \in 1 .. N /\ n \in 1 .. N /\ m \in 1 .. N
        BY <1>1, <4>1, <4>2, <3>1, SMTT(30)
      <4>4. r[PARENT(n)] = h[PARENT(n)]
        BY <4>3, <1>1
      <4>5. h[PARENT(n)] \in Ev /\ h[n] \in Ev /\ h[m] \in Ev
        BY <4>3 DEF N
      <4>6. K[h[PARENT(n)]] \in Int /\ K[h[n]] \in Int /\ K[h[m]] \in Int
        BY <4>5
      <4>7. K[h[PARENT(n)]] <= K[h[n]]
        BY <2>1, <4>1
      <4>8. K[h[n]] <= K[h[m]]
        BY <2>1, <3>1, <3>5
      <4>9. K[h[PARENT(n)]] <= K[h[m]]
        BY <4>6, <4>7, <4>8
      <4> QED BY <4>4, <4>9, <3>4
    <3> QED BY <2>1, <3>1, <3>4, <3>5
  <2> QED BY <2>2 DEF HoleOrdered
<1>9. Contents(r, n) \cup {h[N]} = Range(h) \ {h[n]}
  BY <1>6, <1>7
<1>10. Open(r, n, h[N])
  BY <1>3, <1>4 DEF Open
<1>11. \A i \in 1 .. Len(r) : r[i] = h[i]
  BY <1>1
<1> QED BY <1>8, <1>9, <1>10, <1>11 DEF LastOpens, r, N

\* The top of a heap is an earliest event of it.
LEMMA TopLeast ==
    ASSUME NEW S, NEW h \in Seq(S), NEW K \in [S -> Int], HeapOrdered(h, K),
           NEW n \in 1 .. Len(h)
    PROVE  K[h[1]] <= K[h[n]]
<1> DEFINE N == Len(h)
           T == {k \in 1 .. N : K[h[k]] <= K[h[n]]}
<1>1. N \in Nat /\ n \in 1 .. N /\ \A k \in 1 .. N : h[k] \in S
  BY LenProperties
<1>2. n \in T
  BY <1>1
<1>3. ASSUME NEW k \in 1 .. n, k \in T, k > 1 PROVE PARENT(k) \in T
  <2>1. k \in Nat /\ k \in 2 .. N
    BY <1>1, <1>3
  <2>2. PARENT(k) \in 1 .. k - 1
    BY <2>1, <1>3, ParentFacts
  <2>3. PARENT(k) \in 1 .. N /\ k \in 1 .. N
    BY <2>1, <2>2, <1>1
  <2>4. K[h[PARENT(k)]] <= K[h[k]]
    BY <2>1 DEF HeapOrdered
  <2>5. K[h[k]] <= K[h[n]]
    BY <1>3
  <2>6. K[h[PARENT(k)]] \in Int /\ K[h[k]] \in Int /\ K[h[n]] \in Int
    BY <1>1, <2>3
  <2>7. K[h[PARENT(k)]] <= K[h[n]]
    BY <2>4, <2>5, <2>6
  <2> QED BY <2>3, <2>7
<1>4. n \in Nat \ {0}
  BY <1>1
<1> HIDE DEF T
<1>5. Up(n) \subseteq T
  BY <1>2, <1>3, <1>4, UpInduction
<1>6. 1 \in Up(n)
  BY <1>4, UpFacts
<1> QED BY <1>5, <1>6 DEF T

LEMMA FrontHeap ==
    ASSUME HeapAssumption, NEW h, NEW ev \in [Ev -> Int], NEW b \in Int, OrderedHeap(h, ev, b),
           h # << >>
    PROVE  /\ OrderedHeap(Front(h), ev, b)
           /\ Range(Front(h)) = Range(h) \ {h[Len(h)]}
<1> DEFINE r == Front(h)
           N == Len(h)
           K == Key(ev, b)
<1>1. h \in Seq(Ev) /\ IsInjective(h) /\ HeapOrdered(h, K)
  BY DEF OrderedHeap
<1>2. N \in Nat \ {0} /\ r \in Seq(Ev) /\ Len(r) = N - 1 /\ \A i \in 1 .. N - 1 : r[i] = h[i]
  BY <1>1, FrontFacts
<1>3. /\ DOMAIN r = 1 .. Len(r)
      /\ DOMAIN h = 1 .. N
  BY <1>1, <1>2, LenProperties
<1>4. \A i, j \in 1 .. N : h[i] = h[j] => i = j
  BY <1>1, <1>3 DEF IsInjective
<1> HIDE DEF r, N, K
<1>5. IsInjective(r)
  <2>1. \A i, j \in 1 .. Len(r) : r[i] = r[j] => i = j
    BY <1>2, <1>4
  <2> QED BY <2>1, <1>3 DEF IsInjective
<1>6. HeapOrdered(r, K)
  <2>1. \A m \in 2 .. N : K[h[PARENT(m)]] <= K[h[m]]
    BY <1>1 DEF HeapOrdered, N
  <2>2. ASSUME NEW m \in 2 .. Len(r) PROVE K[r[PARENT(m)]] <= K[r[m]]
    <3>1. m \in Nat /\ m > 1 /\ m \in 2 .. N /\ m \in 1 .. N - 1
      BY <1>2
    <3>2. PARENT(m) \in 1 .. m - 1
      BY <3>1, ParentFacts
    <3>3. PARENT(m) \in 1 .. N - 1
      BY <3>1, <3>2, <1>2
    <3>4. r[m] = h[m] /\ r[PARENT(m)] = h[PARENT(m)]
      BY <1>2, <3>1, <3>3
    <3> QED BY <2>1, <3>1, <3>4
  <2> QED BY <2>2 DEF HeapOrdered
<1>7. Range(h) = {h[i] : i \in 1 .. N} /\ Range(r) = {r[i] : i \in 1 .. Len(r)}
  BY <1>3 DEF Range
<1>8. ASSUME NEW x \in Range(r) PROVE x \in Range(h) \ {h[N]}
  <2>1. PICK i \in 1 .. Len(r) : x = r[i]
    BY <1>7, <1>8
  <2>2. i \in 1 .. N /\ i # N /\ N \in 1 .. N /\ x = h[i]
    BY <2>1, <1>2
  <2> QED BY <2>2, <1>4, <1>7
<1>9. ASSUME NEW x \in Range(h) \ {h[N]} PROVE x \in Range(r)
  <2>1. PICK i \in 1 .. N : x = h[i]
    BY <1>7, <1>9
  <2>2. i # N
    BY <1>9, <2>1
  <2>3. i \in 1 .. Len(r) /\ x = r[i]
    BY <2>1, <2>2, <1>2
  <2> QED BY <2>3, <1>7
<1>10. Range(r) = Range(h) \ {h[N]}
  BY <1>8, <1>9
<1> QED BY <1>2, <1>5, <1>6, <1>10 DEF OrderedHeap, r, N, K

\* The last event fills the empty node n, from n down.
LEMMA FillDown ==
    ASSUME HeapAssumption, NEW h, NEW ev \in [Ev -> Int], NEW b \in Int, OrderedHeap(h, ev, b),
           NEW n \in 1 .. Len(h) - 1,
           n > 1 => Key(ev, b)[h[PARENT(n)]] <= Key(ev, b)[h[Len(h)]]
    PROVE  LET last == h[Len(h)]
               rest == Front(h)
               g    == MoveDown(rest, n, tmevt_down(rest, n, ev[last], ev, b), last)
           IN  OrderedHeap(g, ev, b) /\ Range(g) = Range(h) \ {h[n]}
<1> DEFINE N == Len(h)
           last == h[N]
           r == Front(h)
           K == Key(ev, b)
           to == tmevt_down(r, n, ev[last], ev, b)
           g == MoveDown(r, n, to, last)
<1>1. h \in Seq(Ev) /\ IsInjective(h) /\ HeapOrdered(h, K)
  BY DEF OrderedHeap
<1>2. N \in Nat
  BY <1>1, LenProperties
<1>3. h # << >>
  BY <1>2, EmptySeq
<1>4. r \in Seq(Ev) /\ Len(r) = N - 1 /\ \A i \in 1 .. N - 1 : r[i] = h[i]
  BY <1>1, <1>3, FrontFacts
<1>5. last \in Ev
  BY <1>1, <1>2, LenProperties
<1>6. K \in [Ev -> Int]
  BY KeyFacts
<1>7. LastOpens(h, r, n, K)
  BY <1>1, <1>3, <1>6, LastOpensNode
<1>8. Open(r, n, last) /\ Contents(r, n) \cup {last} = Range(h) \ {h[n]} /\ HoleOrdered(r, K, n)
  BY <1>7 DEF LastOpens
<1>9. n \in 1 .. Len(r)
  BY <1>4
<1>10. n > 1 => r[PARENT(n)] = h[PARENT(n)]
  <2>1. SUFFICES ASSUME n > 1 PROVE r[PARENT(n)] = h[PARENT(n)]
    OBVIOUS
  <2>2. PARENT(n) \in 1 .. n - 1
    BY <2>1, <1>2, ParentFacts
  <2>3. PARENT(n) \in 1 .. N - 1
    BY <2>2, <1>2
  <2> QED BY <2>3, <1>4
<1>11. /\ to \in 1 .. Len(r) /\ n \in Up(to)
       /\ \A k \in Up(to) : k > n =>
             /\ K[r[k]] < K[last]
             /\ \A other \in 2 .. Len(r) : PARENT(other) = PARENT(k) => K[r[k]] <= K[r[other]]
       /\ \A c \in 2 .. Len(r) : PARENT(c) = to => K[last] <= K[r[c]]
  BY <1>4, <1>5, <1>9, DownPlace
<1>12. n > 1 => K[r[PARENT(n)]] <= K[last]
  BY <1>10
<1> HIDE DEF to, r, last, K, N
<1>13. DownEnds(r, K, n, to, last)
  BY <1>11, <1>12 DEF DownEnds
<1>14. g \in Seq(Ev) /\ Len(g) = Len(r) /\ MovedDown(r, g, n, to, last)
  BY <1>4, <1>5, <1>11, MoveDownNodes
<1>15. IsInjective(g) /\ Range(g) = Contents(r, n) \cup {last}
  BY <1>4, <1>5, <1>8, <1>11, MoveDownContents
<1> HIDE DEF g
<1>16. HeapOrdered(g, K)
  BY <1>4, <1>5, <1>6, <1>8, <1>11, <1>13, <1>14, DownOrdered
<1>17. Range(g) = Range(h) \ {h[n]}
  BY <1>8, <1>15
<1>18. OrderedHeap(g, ev, b)
  BY <1>14, <1>15, <1>16 DEF OrderedHeap, K
<1> QED BY <1>17, <1>18 DEF g, to, r, last, N

\* The same, from the parent of n up, when the last event is earlier than that.
LEMMA FillUp ==
    ASSUME HeapAssumption, NEW h, NEW ev \in [Ev -> Int], NEW b \in Int, OrderedHeap(h, ev, b),
           NEW n \in 2 .. Len(h) - 1,
           Key(ev, b)[h[Len(h)]] < Key(ev, b)[h[PARENT(n)]]
    PROVE  LET last == h[Len(h)]
               rest == Front(h)
               g    == MoveUp(rest, n, tmevt_up(rest, PARENT(n), ev[last], ev, b), last)
           IN  OrderedHeap(g, ev, b) /\ Range(g) = Range(h) \ {h[n]}
<1> DEFINE N == Len(h)
           last == h[N]
           r == Front(h)
           K == Key(ev, b)
           up == PARENT(n)
           to == tmevt_up(r, up, ev[last], ev, b)
           g == MoveUp(r, n, to, last)
<1>1. h \in Seq(Ev) /\ IsInjective(h) /\ HeapOrdered(h, K)
  BY DEF OrderedHeap
<1>2. N \in Nat
  BY <1>1, LenProperties
<1>3. h # << >>
  BY <1>2, EmptySeq
<1>4. r \in Seq(Ev) /\ Len(r) = N - 1 /\ \A i \in 1 .. N - 1 : r[i] = h[i]
  BY <1>1, <1>3, FrontFacts
<1>5. last \in Ev
  BY <1>1, <1>2, LenProperties
<1>6. K \in [Ev -> Int]
  BY KeyFacts
<1>n. n \in 1 .. N - 1 /\ n \in Nat /\ n > 1
  BY <1>2
<1>7. LastOpens(h, r, n, K)
  BY <1>1, <1>3, <1>6, <1>n, LastOpensNode
<1>8. Open(r, n, last) /\ Contents(r, n) \cup {last} = Range(h) \ {h[n]} /\ HoleOrdered(r, K, n)
  BY <1>7 DEF LastOpens
<1>9. n \in 1 .. Len(r)
  BY <1>4, <1>n
<1>10. up \in 1 .. n - 1
  BY <1>n, ParentFacts
<1>11. up \in 1 .. Len(r)
  BY <1>2, <1>4, <1>9, <1>10
<1>12. r[up] = h[up]
  BY <1>4, <1>11
<1>13. /\ to \in Up(up)
       /\ to > 1 => K[r[PARENT(to)]] <= K[last]
       /\ \A k \in Up(up) : k > to => K[last] < K[r[PARENT(k)]]
  BY <1>4, <1>5, <1>11, UpPlace
<1>14. Up(n) = {n} \cup Up(up)
  BY <1>n, UpStep
<1>15. K[last] < K[r[up]]
  BY <1>12
<1> HIDE DEF to, r, last, K, N
<1>16. to \in Up(n)
  BY <1>13, <1>14
<1>17. \A k \in Up(n) : k > to => K[last] < K[r[PARENT(k)]]
  BY <1>13, <1>14, <1>15
<1>18. ASSUME NEW m \in 2 .. Len(r), PARENT(m) = n PROVE K[last] <= K[r[m]]
  <2>1. m \in Nat /\ m > 1
    BY <1>4
  <2>2. PARENT(m) \in 1 .. m - 1
    BY <2>1, ParentFacts
  <2>3. m # n
    BY <1>18, <2>1, <2>2
  <2>4. K[r[up]] <= K[r[m]]
    BY <1>8, <1>18, <2>3, <1>n DEF HoleOrdered
  <2>5. m \in 1 .. Len(r)
    BY <1>18, <2>1
  <2>6. r[m] \in Ev /\ r[up] \in Ev
    BY <1>4, <1>11, <2>5
  <2>7. K[r[m]] \in Int /\ K[r[up]] \in Int /\ K[last] \in Int
    BY <2>6, <1>5, <1>6
  <2> QED BY <2>4, <2>7, <1>15
<1>19. UpEnds(r, K, n, to, last)
  BY <1>13, <1>17, <1>18 DEF UpEnds
<1>20. g \in Seq(Ev) /\ Len(g) = Len(r) /\ MovedUp(r, g, n, to, last)
  BY <1>4, <1>5, <1>9, <1>16, MoveUpNodes
<1>21. IsInjective(g) /\ Range(g) = Contents(r, n) \cup {last}
  BY <1>4, <1>5, <1>8, <1>9, <1>16, MoveUpContents
<1> HIDE DEF g
<1>22. HeapOrdered(g, K)
  BY <1>4, <1>5, <1>6, <1>8, <1>9, <1>16, <1>19, <1>20, UpOrdered
<1>23. Range(g) = Range(h) \ {h[n]}
  BY <1>8, <1>21
<1>24. OrderedHeap(g, ev, b)
  BY <1>20, <1>21, <1>22 DEF OrderedHeap, K
<1> QED BY <1>23, <1>24 DEF g, to, r, last, N

\* An event that is added keeps the order, and all the others are kept:
\* tmevtb_insert.
THEOREM InsertCorrect ==
    ASSUME HeapAssumption, NEW h, NEW ev \in [Ev -> Int], NEW b \in Int, OrderedHeap(h, ev, b),
           NEW e \in Ev, e \notin Range(h)
    PROVE  LET g == tmevtb_insert(h, e, ev, b)
           IN  OrderedHeap(g, ev, b) /\ Range(g) = Range(h) \cup {e}
<1> DEFINE N == Len(h) + 1
           last == Append(h, e)
           K == Key(ev, b)
           to == tmevt_up(last, N, ev[e], ev, b)
           g == MoveUp(last, N, to, e)
<1>1. h \in Seq(Ev) /\ IsInjective(h) /\ HeapOrdered(h, K)
  BY DEF OrderedHeap
<1>2. Len(h) \in Nat /\ DOMAIN h = 1 .. Len(h) /\ \A i \in 1 .. Len(h) : h[i] \in Ev
  BY <1>1, LenProperties
<1>3. last \in Seq(Ev) /\ Len(last) = N /\ last[N] = e
      /\ \A i \in 1 .. Len(h) : last[i] = h[i]
  BY <1>1, AppendProperties
<1>4. g = tmevtb_insert(h, e, ev, b)
  BY <1>3 DEF tmevtb_insert
<1>5. K \in [Ev -> Int]
  BY KeyFacts
<1>6. N \in 1 .. Len(last) /\ N \in Nat \ {0}
  BY <1>2, <1>3
<1>7. /\ to \in Up(N)
      /\ to > 1 => K[last[PARENT(to)]] <= K[e]
      /\ \A k \in Up(N) : k > to => K[e] < K[last[PARENT(k)]]
  BY <1>3, <1>6, UpPlace
<1>8. \A i, j \in 1 .. Len(h) : h[i] = h[j] => i = j
  BY <1>1, <1>2 DEF IsInjective
<1>9. Range(h) = {h[i] : i \in 1 .. Len(h)}
  BY <1>2 DEF Range
<1> HIDE DEF to, K, last, N
<1>10. \A i \in 1 .. Len(last) : i # N => i \in 1 .. Len(h) /\ last[i] = h[i]
  BY <1>2, <1>3 DEF N
<1>11. Open(last, N, e)
  <2>1. \A i, j \in 1 .. Len(last) : i # N /\ j # N /\ last[i] = last[j] => i = j
    BY <1>8, <1>10
  <2>2. \A i \in 1 .. Len(last) : i # N => last[i] # e
    BY <1>9, <1>10
  <2> QED BY <2>1, <2>2 DEF Open
<1>12. Contents(last, N) = Range(h)
  <2>1. ASSUME NEW x \in Contents(last, N) PROVE x \in Range(h)
    <3>1. PICK i \in (1 .. Len(last)) \ {N} : x = last[i]
      BY <2>1 DEF Contents
    <3> QED BY <3>1, <1>9, <1>10
  <2>2. ASSUME NEW x \in Range(h) PROVE x \in Contents(last, N)
    <3>1. PICK i \in 1 .. Len(h) : x = h[i]
      BY <2>2, <1>9
    <3>2. i \in (1 .. Len(last)) \ {N} /\ x = last[i]
      BY <3>1, <1>2, <1>3 DEF N
    <3> QED BY <3>2 DEF Contents
  <2> QED BY <2>1, <2>2
<1>13. ASSUME NEW m \in 2 .. Len(last)
       PROVE  PARENT(m) # N /\ (m # N => K[last[PARENT(m)]] <= K[last[m]])
  <2>1. m \in Nat /\ m > 1 /\ m <= N
    BY <1>3, <1>6
  <2>2. PARENT(m) \in 1 .. m - 1
    BY <2>1, ParentFacts
  <2>3. PARENT(m) # N
    BY <2>1, <2>2, <1>6
  <2>4. ASSUME m # N PROVE K[last[PARENT(m)]] <= K[last[m]]
    <3>1. m \in 2 .. Len(h) /\ m \in 1 .. Len(h)
      BY <2>1, <2>4, <1>2 DEF N
    <3>2. PARENT(m) \in 1 .. Len(h)
      BY <3>1, <2>2, <1>2
    <3>3. last[m] = h[m] /\ last[PARENT(m)] = h[PARENT(m)]
      BY <3>1, <3>2, <1>3
    <3>4. K[h[PARENT(m)]] <= K[h[m]]
      BY <1>1, <3>1 DEF HeapOrdered
    <3> QED BY <3>3, <3>4
  <2> QED BY <2>3, <2>4
<1>14. HoleOrdered(last, K, N)
  BY <1>13 DEF HoleOrdered
<1>15. UpEnds(last, K, N, to, e)
  BY <1>7, <1>13 DEF UpEnds
<1>16. g \in Seq(Ev) /\ Len(g) = Len(last) /\ MovedUp(last, g, N, to, e)
  BY <1>3, <1>6, <1>7, MoveUpNodes
<1>17. IsInjective(g) /\ Range(g) = Contents(last, N) \cup {e}
  BY <1>3, <1>6, <1>7, <1>11, MoveUpContents
<1> HIDE DEF g
<1>18. HeapOrdered(g, K)
  BY <1>3, <1>5, <1>6, <1>7, <1>14, <1>15, <1>16, UpOrdered
<1>19. OrderedHeap(g, ev, b)
  BY <1>16, <1>17, <1>18 DEF OrderedHeap, K
<1>20. Range(g) = Range(h) \cup {e}
  BY <1>12, <1>17
<1> QED BY <1>4, <1>19, <1>20

\* An event that is removed leaves all the others, in order, though the last
\* event may have to move up into another branch: tmevtb_delete.
THEOREM DeleteCorrect ==
    ASSUME HeapAssumption, NEW h, NEW ev \in [Ev -> Int], NEW b \in Int, OrderedHeap(h, ev, b),
           NEW e \in Range(h)
    PROVE  LET g == tmevtb_delete(h, e, ev, b)
           IN  OrderedHeap(g, ev, b) /\ Range(g) = Range(h) \ {e}
<1> DEFINE N == Len(h)
           n == index(h, e)
           K == Key(ev, b)
           g == tmevtb_delete(h, e, ev, b)
           r == Front(h)
<1>1. h \in Seq(Ev)
  BY DEF OrderedHeap
<1>2. N \in Nat /\ DOMAIN h = 1 .. N /\ \A i \in 1 .. N : h[i] \in Ev
  BY <1>1, LenProperties
<1>3. n \in 1 .. N /\ h[n] = e
  <2>1. \E i \in DOMAIN h : h[i] = e
    BY DEF Range
  <2> QED BY <2>1, <1>2 DEF index
<1>4. h # << >>
  BY <1>2, <1>3, EmptySeq
<1>5. r = << >> <=> N = 1
  BY <1>1, <1>4, FrontFacts
<1>6. CASE n = N
  <2>1. g = r
    BY <1>6 DEF tmevtb_delete
  <2> QED BY <2>1, <1>3, <1>4, <1>6, FrontHeap
<1>7. CASE n # N
  <2>1. n \in 1 .. N - 1 /\ N # 1
    BY <1>2, <1>3, <1>7
  <2>2. r # << >>
    BY <2>1, <1>5
  <2>3. ASSUME n > 1
        PROVE  PARENT(n) \in 1 .. N
    <3>1. n \in Nat
      BY <2>1
    <3>2. PARENT(n) \in 1 .. n - 1
      BY <3>1, <2>3, ParentFacts
    <3> QED BY <1>2, <1>3, <3>2
  <2>4. h[N] \in Ev
    BY <1>2, <2>1
  <2> HIDE DEF n
  <2>5. CASE n > 1 /\ EVTTIM_LT(ev[h[N]], ev[h[PARENT(n)]], b)
    <3>1. h[PARENT(n)] \in Ev
      BY <2>3, <2>5, <1>2
    <3>2. K[h[N]] < K[h[PARENT(n)]]
      BY <2>4, <2>5, <3>1, KeyFacts
    <3>3. n \in 2 .. N - 1
      BY <2>1, <2>5
    <3>4. g = MoveUp(r, n, tmevt_up(r, PARENT(n), ev[h[N]], ev, b), h[N])
      BY <1>7, <2>2, <2>5 DEF tmevtb_delete, n
    <3> QED BY <3>2, <3>3, <3>4, <1>3, FillUp
  <2>6. CASE ~(n > 1 /\ EVTTIM_LT(ev[h[N]], ev[h[PARENT(n)]], b))
    <3>1. ASSUME n > 1 PROVE K[h[PARENT(n)]] <= K[h[N]]
      <4>1. h[PARENT(n)] \in Ev
        BY <2>3, <3>1, <1>2
      <4>2. ~(K[h[N]] < K[h[PARENT(n)]])
        BY <2>4, <2>6, <3>1, <4>1, KeyFacts
      <4>3. K[h[N]] \in Int /\ K[h[PARENT(n)]] \in Int
        BY <2>4, <4>1, KeyFacts
      <4> QED BY <4>2, <4>3
    <3>2. g = MoveDown(r, n, tmevt_down(r, n, ev[h[N]], ev, b), h[N])
      BY <1>7, <2>2, <2>6 DEF tmevtb_delete, n
    <3>3. n > 1 => K[h[PARENT(n)]] <= K[h[N]]
      BY <3>1
    <3>4. n \in 1 .. Len(h) - 1
      BY <2>1
    <3> HIDE DEF g
    <3> DEFINE D(m) == MoveDown(r, m, tmevt_down(r, m, ev[h[N]], ev, b), h[N])
               d == D(n)
    <3>a. ASSUME NEW m \in 1 .. Len(h) - 1, m > 1 => K[h[PARENT(m)]] <= K[h[N]]
          PROVE  OrderedHeap(D(m), ev, b) /\ Range(D(m)) = Range(h) \ {h[m]}
      BY <3>a, FillDown, ZenonT(60)
    <3> HIDE DEF K, D
    <3>5. OrderedHeap(d, ev, b) /\ Range(d) = Range(h) \ {h[n]}
      BY <3>3, <3>4, <3>a
    <3>6. h[n] = e
      BY <1>3 DEF n
    <3> HIDE DEF d
    <3>7. g = d
      BY <3>2 DEF d, D
    <3> QED BY <3>5, <3>6, <3>7 DEF g
  <2> QED BY <2>5, <2>6
<1> QED BY <1>6, <1>7

\* The same for the first event: tmevtb_delete_top.
THEOREM DeleteTopCorrect ==
    ASSUME HeapAssumption, NEW h, NEW ev \in [Ev -> Int], NEW b \in Int, OrderedHeap(h, ev, b),
           h # << >>
    PROVE  LET g == tmevtb_delete_top(h, ev, b)
           IN  OrderedHeap(g, ev, b) /\ Range(g) = Range(h) \ {h[1]}
<1> DEFINE N == Len(h)
           g == tmevtb_delete_top(h, ev, b)
           r == Front(h)
<1>1. h \in Seq(Ev)
  BY DEF OrderedHeap
<1>2. N \in Nat \ {0} /\ (r = << >> <=> N = 1)
  BY <1>1, FrontFacts
<1>3. CASE N = 1
  <2>1. g = r
    BY <1>2, <1>3 DEF tmevtb_delete_top
  <2>2. h[N] = h[1]
    BY <1>3
  <2> QED BY <2>1, <2>2, FrontHeap
<1>4. CASE N # 1
  <2>1. g = MoveDown(r, 1, tmevt_down(r, 1, ev[h[N]], ev, b), h[N])
    BY <1>2, <1>4 DEF tmevtb_delete_top
  <2>2. 1 \in 1 .. N - 1
    <3>1. N \in Nat \ {0}
      BY <1>2
    <3> HIDE DEF N
    <3> QED BY <3>1, <1>4
  <2> QED BY <2>1, <2>2, FillDown
<1> QED BY <1>3, <1>4

\* Only the differences of the times matter.
LEMMA OrderShift ==
    ASSUME NEW S, NEW h \in Seq(S), NEW K \in [S -> Int], NEW L \in [S -> Int], NEW c \in Int,
           \A x \in Range(h) : L[x] = K[x] + c, HeapOrdered(h, K)
    PROVE  HeapOrdered(h, L)
<1>1. Len(h) \in Nat /\ DOMAIN h = 1 .. Len(h) /\ \A i \in 1 .. Len(h) : h[i] \in S
  BY LenProperties
<1>2. ASSUME NEW m \in 2 .. Len(h) PROVE L[h[PARENT(m)]] <= L[h[m]]
  <2>1. m \in Nat /\ m > 1 /\ m \in 1 .. Len(h)
    BY <1>1
  <2>2. PARENT(m) \in 1 .. m - 1
    BY <2>1, ParentFacts
  <2>3. PARENT(m) \in 1 .. Len(h)
    BY <2>1, <2>2, <1>1
  <2>4. /\ h[m] \in Range(h) /\ h[m] \in S
        /\ h[PARENT(m)] \in Range(h) /\ h[PARENT(m)] \in S
    BY <1>1, <2>1, <2>3 DEF Range
  <2>5. K[h[m]] \in Int /\ K[h[PARENT(m)]] \in Int
    BY <2>4
  <2>6. K[h[PARENT(m)]] <= K[h[m]]
    BY DEF HeapOrdered
  <2>7. L[h[m]] = K[h[m]] + c /\ L[h[PARENT(m)]] = K[h[PARENT(m)]] + c
    BY <2>4
  <2> QED BY <2>5, <2>6, <2>7
<1> QED BY <1>2 DEF HeapOrdered

LEMMA SameTimes ==
    ASSUME HeapAssumption, NEW h, NEW ev \in [Ev -> Int], NEW new \in [Ev -> Int], NEW b \in Int,
           OrderedHeap(h, ev, b), \A x \in Range(h) : new[x] = ev[x]
    PROVE  OrderedHeap(h, new, b)
<1>1. h \in Seq(Ev) /\ IsInjective(h) /\ HeapOrdered(h, Key(ev, b))
  BY DEF OrderedHeap
<1>2. Range(h) \subseteq Ev
  BY <1>1, LenProperties DEF Range
<1>3. Key(ev, b) \in [Ev -> Int] /\ Key(new, b) \in [Ev -> Int]
  BY KeyFacts
<1>4. ASSUME NEW x \in Range(h) PROVE Key(new, b)[x] = Key(ev, b)[x] + 0
  <2>1. x \in Ev /\ new[x] = ev[x]
    BY <1>2
  <2>2. Key(new, b)[x] = Key(ev, b)[x]
    BY <2>1 DEF Key
  <2>3. Key(ev, b)[x] \in Int
    BY <2>1, <1>3
  <2> QED BY <2>2, <2>3
<1>5. HeapOrdered(h, Key(new, b))
  <2> DEFINE K == Key(ev, b)
             L == Key(new, b)
             c == 0
  <2>1. K \in [Ev -> Int] /\ L \in [Ev -> Int] /\ \A x \in Range(h) : L[x] = K[x] + c
    BY <1>3, <1>4
  <2>2. HeapOrdered(h, K) /\ h \in Seq(Ev) /\ c \in Int
    BY <1>1
  <2> HIDE DEF K, L, c
  <2>3. HeapOrdered(h, L)
    BY <2>1, <2>2, OrderShift
  <2> QED BY <2>3 DEF L
<1> QED BY <1>1, <1>5 DEF OrderedHeap

----------------------------------------------------------------------------
\* The heap of one processor on its own: module TimeHeap

AloneInv ==
    /\ evttim_of \in [Ev -> 0 .. EVT - 1]
    /\ OrderedHeap(heap, evttim_of, Boundary)

LEMMA AloneInit ==
    ASSUME HeapAssumption, TimesAssumption, HeapInit
    PROVE  AloneInv
<1>1. EVT \in Nat \ {0}
  BY DEF HeapAssumption
<1>2. heap = << >> /\ evttim_of = [e \in Ev |-> 0]
  BY DEF HeapInit
<1>3. evttim_of \in [Ev -> 0 .. EVT - 1]
  BY <1>1, <1>2
<1>4. heap \in Seq(Ev) /\ Len(heap) = 0 /\ DOMAIN heap = 1 .. Len(heap)
  BY <1>2, EmptySeq, LenProperties
<1>5. IsInjective(heap)
  BY <1>4 DEF IsInjective
<1>6. HeapOrdered(heap, Key(evttim_of, Boundary))
  BY <1>4 DEF HeapOrdered
<1> QED BY <1>3, <1>4, <1>5, <1>6 DEF AloneInv, OrderedHeap

\* Each operation keeps the invariant, and is an operation of the queue.
AloneDoes(add, remove, e) ==
    /\ AloneInv'
    /\ Range(heap') = (Range(heap) \cup add) \ remove
    /\ \E t \in 0 .. EVT - 1 : evttim_of' = [evttim_of EXCEPT ![e] = t]

LEMMA AloneInsert ==
    ASSUME HeapAssumption, TimesAssumption, AloneInv,
           NEW e \in Ev, NEW t \in Times, insert(e, t)
    PROVE  AloneDoes({e}, {}, e)
<1>1. /\ EVT \in Nat \ {0} /\ Boundary \in Int /\ t \in 0 .. EVT - 1
  BY DEF HeapAssumption, TimesAssumption
<1>2. /\ evttim_of \in [Ev -> 0 .. EVT - 1] /\ OrderedHeap(heap, evttim_of, Boundary)
  BY DEF AloneInv
<1>3. /\ e \notin Range(heap) /\ evttim_of' = [evttim_of EXCEPT ![e] = t]
      /\ heap' = tmevtb_insert(heap, e, evttim_of', Boundary)
  BY DEF insert
<1>4. evttim_of' \in [Ev -> 0 .. EVT - 1] /\ \A x \in Range(heap) : evttim_of'[x] = evttim_of[x]
  <2>1. Range(heap) \subseteq Ev
    BY <1>2, LenProperties DEF Range, OrderedHeap
  <2> QED BY <1>1, <1>2, <1>3, <2>1
<1>5. evttim_of \in [Ev -> Int] /\ evttim_of' \in [Ev -> Int]
  BY <1>1, <1>2, <1>4
<1>6. OrderedHeap(heap, evttim_of', Boundary)
  BY <1>1, <1>2, <1>4, <1>5, SameTimes
<1>7. OrderedHeap(heap', evttim_of', Boundary) /\ Range(heap') = Range(heap) \cup {e}
  <2> DEFINE g == tmevtb_insert(heap, e, evttim_of', Boundary)
  <2>1. Boundary \in Int /\ evttim_of' \in [Ev -> Int] /\ e \notin Range(heap)
    BY <1>1, <1>3, <1>5
  <2>2. OrderedHeap(g, evttim_of', Boundary) /\ Range(g) = Range(heap) \cup {e}
    BY <2>1, <1>6, InsertCorrect
  <2> HIDE DEF g
  <2>3. heap' = g
    BY <1>3 DEF g
  <2> QED BY <2>2, <2>3
<1>8. AloneInv'
  BY <1>4, <1>7 DEF AloneInv
<1> QED BY <1>1, <1>3, <1>7, <1>8 DEF AloneDoes

LEMMA AloneRemoves ==
    ASSUME HeapAssumption, TimesAssumption, AloneInv,
           NEW e \in Ev, NEW g, OrderedHeap(g, evttim_of, Boundary), Range(g) = Range(heap) \ {e},
           heap' = g, evttim_of' = [evttim_of EXCEPT ![e] = 0]
    PROVE  AloneDoes({}, {e}, e)
<1>1. /\ EVT \in Nat \ {0} /\ Boundary \in Int /\ 0 \in 0 .. EVT - 1
  BY DEF HeapAssumption, TimesAssumption
<1>2. evttim_of \in [Ev -> 0 .. EVT - 1]
  BY DEF AloneInv
<1>4. evttim_of' \in [Ev -> 0 .. EVT - 1] /\ \A x \in Range(g) : evttim_of'[x] = evttim_of[x]
  <2>1. Range(g) \subseteq Ev
    BY LenProperties DEF Range, OrderedHeap
  <2> QED BY <1>1, <1>2, <2>1
<1>5. evttim_of \in [Ev -> Int] /\ evttim_of' \in [Ev -> Int]
  BY <1>1, <1>2, <1>4
<1>6. OrderedHeap(g, evttim_of', Boundary)
  BY <1>1, <1>4, <1>5, SameTimes
<1>8. AloneInv'
  BY <1>4, <1>6 DEF AloneInv
<1> QED BY <1>1, <1>8 DEF AloneDoes

LEMMA AloneDelete ==
    ASSUME HeapAssumption, TimesAssumption, AloneInv,
           NEW e \in Ev, delete(e)
    PROVE  AloneDoes({}, {e}, e) /\ e \in Range(heap)
<1>1. /\ Boundary \in Int /\ evttim_of \in [Ev -> Int] /\ OrderedHeap(heap, evttim_of, Boundary)
  BY DEF HeapAssumption, TimesAssumption, AloneInv
<1>2. /\ e \in Range(heap) /\ evttim_of' = [evttim_of EXCEPT ![e] = 0]
      /\ heap' = tmevtb_delete(heap, e, evttim_of, Boundary)
  BY DEF delete
<1>3. OrderedHeap(heap', evttim_of, Boundary) /\ Range(heap') = Range(heap) \ {e}
  BY <1>1, <1>2, DeleteCorrect
<1> QED BY <1>2, <1>3, AloneRemoves

LEMMA AloneDeleteTop ==
    ASSUME HeapAssumption, TimesAssumption, AloneInv, delete_top
    PROVE  heap[1] \in Range(heap) /\ heap[1] \in Ev /\ AloneDoes({}, {heap[1]}, heap[1])
<1>1. /\ Boundary \in Int /\ evttim_of \in [Ev -> Int] /\ OrderedHeap(heap, evttim_of, Boundary)
  BY DEF HeapAssumption, TimesAssumption, AloneInv
<1>2. /\ heap # << >> /\ evttim_of' = [evttim_of EXCEPT ![heap[1]] = 0]
      /\ heap' = tmevtb_delete_top(heap, evttim_of, Boundary)
  BY DEF delete_top
<1>3. OrderedHeap(heap', evttim_of, Boundary) /\ Range(heap') = Range(heap) \ {heap[1]}
  BY <1>1, <1>2, DeleteTopCorrect
<1>4. heap[1] \in Range(heap) /\ heap[1] \in Ev
  <2>1. heap \in Seq(Ev)
    BY <1>1 DEF OrderedHeap
  <2>2. Len(heap) \in Nat \ {0}
    BY <1>2, <2>1, FrontFacts
  <2> QED BY <2>1, <2>2, LenProperties DEF Range
<1> QED BY <1>2, <1>3, <1>4, AloneRemoves

LEMMA AloneFirst ==
    ASSUME HeapAssumption, TimesAssumption, AloneInv
    PROVE  Events!FirstIsEarliest
<1>1. /\ Boundary \in Int /\ evttim_of \in [Ev -> Int] /\ heap \in Seq(Ev)
      /\ HeapOrdered(heap, Key(evttim_of, Boundary))
  BY DEF HeapAssumption, TimesAssumption, AloneInv, OrderedHeap
<1>2. DOMAIN heap = 1 .. Len(heap) /\ \A i \in 1 .. Len(heap) : heap[i] \in Ev
  BY <1>1, LenProperties
<1>3. SUFFICES ASSUME Range(heap) # {}
               PROVE  /\ heap # << >> /\ heap[1] \in Range(heap)
                      /\ \A e \in Range(heap) : EVTTIM_LE(evttim_of[heap[1]], evttim_of[e], Boundary)
  BY DEF Events!FirstIsEarliest, EVTTIM_LE
<1>4. heap # << >>
  BY <1>3 DEF Range
<1>5. Len(heap) \in Nat \ {0}
  BY <1>1, <1>4, FrontFacts
<1>6. heap[1] \in Range(heap) /\ heap[1] \in Ev
  BY <1>2, <1>5 DEF Range
<1>7. ASSUME NEW e \in Range(heap) PROVE EVTTIM_LE(evttim_of[heap[1]], evttim_of[e], Boundary)
  <2>1. PICK n \in 1 .. Len(heap) : e = heap[n]
    BY <1>2 DEF Range
  <2>2. Key(evttim_of, Boundary) \in [Ev -> Int]
    BY <1>1, KeyFacts
  <2>3. Key(evttim_of, Boundary)[heap[1]] <= Key(evttim_of, Boundary)[heap[n]]
    BY <1>1, <2>2, TopLeast
  <2>4. heap[n] \in Ev
    BY <1>2
  <2> QED BY <1>1, <1>6, <2>1, <2>3, <2>4, KeyFacts
<1> QED BY <1>4, <1>6, <1>7

LEMMA AloneStep ==
    ASSUME HeapAssumption, TimesAssumption, AloneInv, [HeapNext]_heap_vars
    PROVE  AloneInv'
<1>1. CASE UNCHANGED heap_vars
  BY <1>1 DEF AloneInv, heap_vars
<1>2. ASSUME NEW e \in Ev, delete(e) PROVE AloneInv'
  BY <1>2, AloneDelete DEF AloneDoes
<1>3. ASSUME NEW e \in Ev, NEW t \in Times, insert(e, t) PROVE AloneInv'
  BY <1>3, AloneInsert DEF AloneDoes
<1>4. CASE delete_top
  BY <1>4, AloneDeleteTop DEF AloneDoes
<1> QED BY <1>1, <1>2, <1>3, <1>4 DEF HeapNext

\* The invariant gives the order that the operations rely on.
LEMMA AloneOrder ==
    ASSUME HeapAssumption, TimesAssumption, AloneInv
    PROVE  HeapOrder
<1>1. /\ Boundary \in Int /\ evttim_of \in [Ev -> Int] /\ heap \in Seq(Ev) /\ IsInjective(heap)
      /\ HeapOrdered(heap, Key(evttim_of, Boundary))
  BY DEF HeapAssumption, TimesAssumption, AloneInv, OrderedHeap
<1>2. Len(heap) \in Nat /\ DOMAIN heap = 1 .. Len(heap) /\ \A i \in 1 .. Len(heap) : heap[i] \in Ev
  BY <1>1, LenProperties
<1>3. ASSUME NEW n \in DOMAIN heap \ {1}
      PROVE  EVTTIM_LE(evttim_of[heap[PARENT(n)]], evttim_of[heap[n]], Boundary)
  <2>1. n \in Nat /\ n > 1 /\ n \in 2 .. Len(heap) /\ n \in 1 .. Len(heap)
    BY <1>2
  <2>2. PARENT(n) \in 1 .. n - 1
    BY <2>1, ParentFacts
  <2>3. PARENT(n) \in 1 .. Len(heap)
    BY <2>1, <2>2, <1>2
  <2>4. heap[n] \in Ev /\ heap[PARENT(n)] \in Ev
    BY <1>2, <2>1, <2>3
  <2>5. Key(evttim_of, Boundary)[heap[PARENT(n)]] <= Key(evttim_of, Boundary)[heap[n]]
    BY <1>1, <2>1 DEF HeapOrdered
  <2> QED BY <1>1, <2>4, <2>5, KeyFacts
<1> QED BY <1>1, <1>3 DEF HeapOrder

\* Whatever is registered and removed, in any order and for any number of
\* events, no event is in two places or before its parent
\* (time_event.c:181-376).
THEOREM HeapIsOrdered ==
    ASSUME HeapAssumption, TimesAssumption
    PROVE  HeapSpec => []HeapOrder
<1>1. HeapInit => AloneInv
  BY AloneInit
<1>2. AloneInv /\ [HeapNext]_heap_vars => AloneInv'
  BY AloneStep
<1>3. AloneInv => HeapOrder
  BY AloneOrder
<1> QED BY <1>1, <1>2, <1>3, PTL DEF HeapSpec

\* The heap of any number of events implements the queue of events: no
\* operation loses an event, adds one or takes another one, and the top is
\* always an earliest event modulo 2^32 (time_event.c:181-376).
THEOREM HeapImplementsQueue ==
    ASSUME HeapAssumption, TimesAssumption
    PROVE  HeapSpec => ImplementsQueue
<1>1. HeapInit => AloneInv
  BY AloneInit
<1>2. AloneInv /\ [HeapNext]_heap_vars => AloneInv'
  BY AloneStep
<1>3. HeapInit => Events!QueueInit
  <2> SUFFICES ASSUME HeapInit PROVE Events!QueueInit
    OBVIOUS
  <2>1. EVT \in Nat \ {0}
    BY DEF HeapAssumption
  <2>2. heap = << >> /\ evttim_of \in [Ev -> 0 .. EVT - 1]
    BY <2>1 DEF HeapInit
  <2>3. Range(heap) = {}
    BY <2>2, EmptySeq, LenProperties DEF Range
  <2> QED BY <2>2, <2>3 DEF Events!QueueInit
<1>4. ASSUME AloneInv, [HeapNext]_heap_vars
      PROVE  [Events!QueueNext]_<<Range(heap), evttim_of,
                                  IF heap = << >> THEN CHOOSE e \in Ev : TRUE ELSE heap[1]>>
  <2>1. Events!FirstIsEarliest'
    <3>1. AloneInv'
      BY <1>4, AloneStep
    <3> QED BY <3>1, AloneFirst, PTL
  <2>2. CASE UNCHANGED heap_vars
    BY <2>2 DEF heap_vars
  <2>3. ASSUME NEW e \in Ev, delete(e) PROVE Events!QueueNext
    <3>1. AloneDoes({}, {e}, e) /\ e \in Range(heap)
      BY <1>4, <2>3, AloneDelete
    <3>2. Events!Remove(e)
      BY <3>1 DEF AloneDoes, Events!Remove
    <3> QED BY <2>1, <3>2 DEF Events!QueueNext
  <2>4. ASSUME NEW e \in Ev, NEW t \in Times, insert(e, t) PROVE Events!QueueNext
    <3>1. AloneDoes({e}, {}, e)
      BY <1>4, <2>4, AloneInsert
    <3>2. e \notin Range(heap)
      BY <2>4 DEF insert
    <3>3. Events!Register(e)
      BY <3>1, <3>2 DEF AloneDoes, Events!Register
    <3> QED BY <2>1, <3>3 DEF Events!QueueNext
  <2>5. ASSUME delete_top PROVE Events!QueueNext
    <3>1. heap[1] \in Range(heap) /\ heap[1] \in Ev /\ AloneDoes({}, {heap[1]}, heap[1])
      BY <1>4, <2>5, AloneDeleteTop
    <3>2. Events!Remove(heap[1])
      BY <3>1 DEF AloneDoes, Events!Remove
    <3> QED BY <2>1, <3>1, <3>2 DEF Events!QueueNext
  <2> QED BY <1>4, <2>2, <2>3, <2>4, <2>5 DEF HeapNext
<1> QED BY <1>1, <1>2, <1>3, <1>4, PTL DEF HeapSpec, ImplementsQueue, Events!QueueSpec

----------------------------------------------------------------------------
\* Numbers modulo EVT

LEMMA ModFacts ==
    ASSUME NEW M \in Nat \ {0}, NEW a \in Int
    PROVE  a % M \in 0 .. M - 1 /\ \E k \in Int : a = (a % M) + M * k
<1>1. a % M \in 0 .. M - 1
  OBVIOUS
<1>2. (a \div M) \in Int /\ a = (a % M) + M * (a \div M)
  OBVIOUS
<1> QED BY <1>1, <1>2

LEMMA ModIs ==
    ASSUME NEW M \in Nat \ {0}, NEW r \in 0 .. M - 1, NEW k \in Int
    PROVE  (r + M * k) % M = r
<1> DEFINE x == (r + M * k) % M
           d == (r + M * k) \div M
           y == M * (k - d)
<1>1. x \in 0 .. M - 1 /\ d \in Int /\ r + M * k = x + M * d
  OBVIOUS
<1> HIDE DEF x, d
<1>2. M * k = M * (k - d) + M * d
  BY <1>1
<1>3. M * k \in Int /\ M * d \in Int /\ M * (k - d) \in Int
  BY <1>1
<1>4. x - r = M * (k - d)
  BY <1>1, <1>2, <1>3
<1>5. k - d = 0
  <2>1. M * (k - d) < M /\ M * (k - d) > -M
    BY <1>1, <1>4
  <2>2. ASSUME NEW z \in Int, M * z < M, M * z > -M PROVE z = 0
    BY <2>2
  <2> QED BY <1>1, <2>1, <2>2
<1>6. x = r
  BY <1>1, <1>4, <1>5
<1> QED BY <1>6 DEF x

\* Two numbers that differ by a multiple of M have the same remainder.
LEMMA ModSame ==
    ASSUME NEW M \in Nat \ {0}, NEW a \in Int, NEW k \in Int
    PROVE  (a + M * k) % M = a % M
<1>1. PICK j \in Int : a = (a % M) + M * j
  BY ModFacts
<1> DEFINE r == a % M
<1>2. r \in 0 .. M - 1 /\ a = r + M * j
  BY <1>1, ModFacts
<1> HIDE DEF r
<1>3. a + M * k = r + M * (j + k)
  <2>1. M * (j + k) = M * j + M * k
    OBVIOUS
  <2>2. M * j \in Int /\ M * k \in Int /\ r \in Int
    BY <1>2
  <2> QED BY <1>2, <2>1, <2>2
<1>4. (r + M * (j + k)) % M = r
  BY <1>2, ModIs
<1> QED BY <1>3, <1>4 DEF r

LEMMA ModSum ==
    ASSUME NEW M \in Nat \ {0}, NEW a \in Int, NEW b \in Int
    PROVE  /\ ((a % M) + b) % M = (a + b) % M
           /\ (b + (a % M)) % M = (b + a) % M
           /\ (b - (a % M)) % M = (b - a) % M
           /\ ((a % M) - b) % M = (a - b) % M
<1>1. PICK k \in Int : a = (a % M) + M * k
  BY ModFacts
<1> DEFINE r == a % M
<1>2. r \in 0 .. M - 1 /\ a = r + M * k
  BY <1>1, ModFacts
<1> HIDE DEF r
<1>3. M * k \in Int /\ -k \in Int /\ M * (-k) = -(M * k)
  OBVIOUS
<1>4. (r + b) % M = (a + b) % M
  <2>1. ((r + b) + M * k) % M = (r + b) % M
    <3> DEFINE c == r + b
    <3>1. c \in Int
      BY <1>2
    <3> HIDE DEF c
    <3>2. (c + M * k) % M = c % M
      BY <3>1, <1>3, ModSame
    <3> QED BY <3>2 DEF c
  <2>2. (r + b) + M * k = a + b
    BY <1>2, <1>3
  <2> QED BY <2>1, <2>2
<1>5. (b - r) % M = (b - a) % M
  <2>1. ((b - r) + M * (-k)) % M = (b - r) % M
    <3> DEFINE c == b - r
    <3>1. c \in Int
      BY <1>2
    <3> HIDE DEF c
    <3>2. (c + M * (-k)) % M = c % M
      BY <3>1, <1>3, ModSame
    <3> QED BY <3>2 DEF c
  <2>2. (b - r) + M * (-k) = b - a
    BY <1>2, <1>3
  <2> QED BY <2>1, <2>2
<1>6. (r - b) % M = (a - b) % M
  <2>1. ((r - b) + M * k) % M = (r - b) % M
    <3> DEFINE c == r - b
    <3>1. c \in Int
      BY <1>2
    <3> HIDE DEF c
    <3>2. (c + M * k) % M = c % M
      BY <3>1, <1>3, ModSame
    <3> QED BY <3>2 DEF c
  <2>2. (r - b) + M * k = a - b
    BY <1>2, <1>3
  <2> QED BY <2>1, <2>2
<1>7. b + r = r + b /\ b + a = a + b
  BY <1>2
<1> QED BY <1>4, <1>5, <1>6, <1>7 DEF r

LEMMA ModSmall ==
    ASSUME NEW M \in Nat \ {0}, NEW a \in 0 .. M - 1
    PROVE  a % M = a
OBVIOUS

----------------------------------------------------------------------------
\* The time: module TimeEvent

LEMMA Params ==
    ASSUME HeapAssumption, TimeAssumption
    PROVE  /\ EVT \in Nat \ {0} /\ TCYC_HRTCNT \in Nat \ {0} /\ HRTCNT_BOUND \in Nat \ {0}
           /\ TSTEP_HRTCNT \in Nat /\ TMAX_RELTIM \in Nat /\ BOUNDARY_MARGIN \in Nat
           /\ TMAX_ADJTIM \in Nat /\ Latency \in Nat
           /\ HRTCNT_BOUND < TCYC_HRTCNT /\ TCYC_HRTCNT <= EVT
           /\ TMAX_RELTIM + TSTEP_HRTCNT + 2 * TMAX_ADJTIM + BOUNDARY_MARGIN < EVT
           /\ RelTimes \subseteq 0 .. TMAX_RELTIM
           /\ TM \in Tepp /\ Tepp \subseteq Prc /\ NULL \notin Ev /\ NULL \notin Nat
BY DEF HeapAssumption, TimeAssumption

LEMMA TimFields ==
    ASSUME NEW t \in TIM
    PROVE  /\ t.current_evttim \in 0 .. EVT - 1 /\ t.monotonic_evttim \in 0 .. EVT - 1
           /\ t.systim_offset \in 0 .. 2 * EVT - 1 /\ t.elapsed \in Nat
BY DEF TIM, EvtTim

\* How far the most advanced event time is ahead of the current one.
Ahead(t) == (t.monotonic_evttim - t.current_evttim) % EVT

\* The current event time has advanced by d.
Advanced(t, u, d) ==
    /\ u \in TIM /\ u.elapsed = t.elapsed
    /\ u.current_evttim = (t.current_evttim + d) % EVT
    /\ Ahead(u) = IF Ahead(t) < d THEN 0 ELSE Ahead(t) - d

LEMMA AdvanceTypes ==
    ASSUME HeapAssumption, TimeAssumption, NEW t \in TIM, NEW d \in 0 .. EVT - 1
    PROVE  LET u     == Advance(t, d)
               new   == (t.current_evttim + d) % EVT
               ahead == Ahead(t) < d
           IN  /\ u \in TIM /\ u.elapsed = t.elapsed
               /\ u.current_evttim = new
               /\ u.monotonic_evttim = IF ahead THEN new ELSE t.monotonic_evttim
               /\ u.systim_offset = IF ahead /\ new < t.monotonic_evttim
                                      THEN (t.systim_offset + EVT) % (2 * EVT)
                                      ELSE t.systim_offset
<1> DEFINE new == (t.current_evttim + d) % EVT
           ahead == Ahead(t) < d
           mono == IF ahead THEN new ELSE t.monotonic_evttim
           off == IF ahead /\ new < t.monotonic_evttim
                    THEN (t.systim_offset + EVT) % (2 * EVT) ELSE t.systim_offset
           u == [t EXCEPT !.current_evttim = new, !.monotonic_evttim = mono, !.systim_offset = off]
<1>1. EVT \in Nat \ {0}
  BY Params
<1>2. /\ t.current_evttim \in 0 .. EVT - 1 /\ t.monotonic_evttim \in 0 .. EVT - 1
      /\ t.systim_offset \in 0 .. 2 * EVT - 1
  BY TimFields
<1>3. t.current_evttim + d \in Int /\ t.systim_offset + EVT \in Int /\ 2 * EVT \in Nat \ {0}
  BY <1>1, <1>2
<1>4. new \in 0 .. EVT - 1
  BY <1>1, <1>3, ModFacts
<1>5. (t.systim_offset + EVT) % (2 * EVT) \in 0 .. 2 * EVT - 1
  BY <1>3, ModFacts
<1>6. off \in 0 .. 2 * EVT - 1 /\ mono \in 0 .. EVT - 1
  BY <1>2, <1>4, <1>5
<1>7. Advance(t, d) = u
  BY DEF Advance, Ahead
<1> HIDE DEF new, mono, off
<1>8. /\ u \in TIM /\ u.elapsed = t.elapsed /\ u.current_evttim = new
      /\ u.monotonic_evttim = mono /\ u.systim_offset = off
  BY <1>4, <1>6 DEF TIM, EvtTim
<1> QED BY <1>7, <1>8 DEF new, mono, off

LEMMA AdvanceAhead ==
    ASSUME HeapAssumption, TimeAssumption, NEW t \in TIM, NEW d \in 0 .. EVT - 1
    PROVE  Advanced(t, Advance(t, d), d)
<1> DEFINE u == Advance(t, d)
           cur == t.current_evttim
           mono == t.monotonic_evttim
           new == (cur + d) % EVT
<1>1. EVT \in Nat \ {0} /\ cur \in Int /\ mono \in Int /\ d \in Int
  BY Params, TimFields
<1>2. /\ u \in TIM /\ u.elapsed = t.elapsed /\ u.current_evttim = new
      /\ u.monotonic_evttim = IF Ahead(t) < d THEN new ELSE mono
  BY AdvanceTypes
<1> HIDE DEF u
<1>3. Ahead(t) \in 0 .. EVT - 1 /\ Ahead(t) = (mono - cur) % EVT
  <2>1. mono - cur \in Int
    BY <1>1
  <2> QED BY <1>1, <2>1, ModFacts DEF Ahead
<1>4. CASE Ahead(t) < d
  <2>1. new \in Int
    <3> DEFINE z == cur + d
    <3>1. z \in Int
      BY <1>1
    <3> HIDE DEF z
    <3>2. z % EVT \in 0 .. EVT - 1
      BY <1>1, <3>1, ModFacts
    <3>3. z % EVT \in Int
      BY <1>1, <3>2
    <3> QED BY <3>3 DEF z
  <2>2. Ahead(u) = (new - new) % EVT
    BY <1>2, <1>4 DEF Ahead
  <2> HIDE DEF new
  <2>3. new - new = 0 /\ 0 \in 0 .. EVT - 1
    BY <1>1, <2>1
  <2>4. Ahead(u) = 0
    BY <1>1, <2>2, <2>3, ModSmall
  <2> QED BY <1>2, <1>4, <2>4 DEF Advanced, u, new
<1>5. CASE ~(Ahead(t) < d)
  <2>1. Ahead(u) = (mono - new) % EVT
    BY <1>2, <1>5 DEF Ahead
  <2>2. (mono - new) % EVT = (mono - (cur + d)) % EVT
    <3> DEFINE z == cur + d
    <3>1. z \in Int
      BY <1>1
    <3> HIDE DEF z
    <3>2. (mono - (z % EVT)) % EVT = (mono - z) % EVT
      BY <1>1, <3>1, ModSum
    <3> QED BY <3>2 DEF z
  <2>3. (((mono - cur) % EVT) - d) % EVT = ((mono - cur) - d) % EVT
    <3>1. mono - cur \in Int
      BY <1>1
    <3> QED BY <1>1, <3>1, ModSum
  <2>4. mono - (cur + d) = (mono - cur) - d
    BY <1>1
  <2>5. Ahead(u) = (Ahead(t) - d) % EVT
    BY <2>1, <2>2, <2>3, <2>4, <1>3
  <2>6. Ahead(t) - d \in 0 .. EVT - 1
    BY <1>1, <1>3, <1>5
  <2>7. Ahead(u) = Ahead(t) - d
    BY <1>1, <2>5, <2>6, ModSmall
  <2> QED BY <1>2, <1>5, <2>7 DEF Advanced, u, new
<1> QED BY <1>4, <1>5

LEMMA AheadFacts ==
    ASSUME HeapAssumption, TimeAssumption, NEW t \in TIM
    PROVE  Ahead(t) \in 0 .. EVT - 1
<1>1. EVT \in Nat \ {0} /\ t.monotonic_evttim - t.current_evttim \in Int
  BY Params, TimFields
<1> QED BY <1>1, ModFacts DEF Ahead

LEMMA BoundaryFacts ==
    ASSUME HeapAssumption, TimeAssumption, NEW t \in TIM
    PROVE  boundary_evttim(t) \in Int
<1> DEFINE z == t.current_evttim - BOUNDARY_MARGIN
<1>1. EVT \in Nat \ {0} /\ z \in Int
  BY Params, TimFields
<1> HIDE DEF z
<1>2. z % EVT \in 0 .. EVT - 1
  BY <1>1, ModFacts
<1>3. z % EVT \in Int
  BY <1>1, <1>2
<1> QED BY <1>3 DEF z, boundary_evttim

\* The time of an event relative to the boundary is its distance from the
\* current event time, and the margin.
LEMMA KeyIs ==
    ASSUME HeapAssumption, TimeAssumption, NEW t \in TIM, NEW x \in Int,
           x + BOUNDARY_MARGIN \in 0 .. EVT - 1
    PROVE  (((t.current_evttim + x) % EVT) - boundary_evttim(t)) % EVT = x + BOUNDARY_MARGIN
<1> DEFINE cur == t.current_evttim
           m == BOUNDARY_MARGIN
           y == (cur + x) % EVT
<1>1. EVT \in Nat \ {0} /\ cur \in Int /\ m \in Int
  BY Params, TimFields
<1>2. y \in Int /\ cur + x \in Int /\ cur - m \in Int
  BY <1>1, ModFacts
<1>3. (y - ((cur - m) % EVT)) % EVT = (y - (cur - m)) % EVT
  BY <1>1, <1>2, ModSum
<1>4. (((cur + x) % EVT) - (cur - m)) % EVT = ((cur + x) - (cur - m)) % EVT
  BY <1>1, <1>2, ModSum
<1>5. (cur + x) - (cur - m) = x + m
  BY <1>1
<1>6. (x + m) % EVT = x + m
  BY <1>1, ModSmall
<1>7. (((cur + x) % EVT) - ((cur - m) % EVT)) % EVT = x + m
  <2>1. (y - (cur - m)) % EVT = ((cur + x) - (cur - m)) % EVT
    BY <1>4
  <2> HIDE DEF y
  <2>2. (y - ((cur - m) % EVT)) % EVT = x + m
    BY <1>3, <2>1, <1>5, <1>6
  <2> QED BY <2>2 DEF y
<1> QED BY <1>7 DEF boundary_evttim

----------------------------------------------------------------------------
\* The times of the events and the real time

\* The event is in a heap.
QueuedIn(e, hs) == \E p \in Tepp : e \in Range(hs[p])

\* The time in the event block is that of the real time of the event, which is
\* not farther away than an event can be registered.
Timed(t, ev, d, e) ==
    /\ ev[e] = (t.current_evttim + (t.elapsed + d[e])) % EVT
    /\ t.elapsed + d[e] <= TSTEP_HRTCNT + TMAX_RELTIM + Ahead(t)

NotLate(d, e) == d[e] >= -BOUNDARY_MARGIN

\* What holds of the time t, the times ev in the blocks, the heaps hs and the
\* real times d of the events.
HeapsOf(hs, d) ==
    /\ \A p \in Tepp : hs[p] \in Seq(Ev) /\ IsInjective(hs[p]) /\ HeapOrdered(hs[p], d)
    /\ \A p, q \in Tepp : p # q => Range(hs[p]) \cap Range(hs[q]) = {}

Consistent(t, ev, hs, d) ==
    /\ t \in TIM /\ Ahead(t) <= 2 * TMAX_ADJTIM
    /\ ev \in [Ev -> EvtTim] /\ d \in [Ev -> Int]
    /\ hs \in [Tepp -> Seq(Ev)]
    /\ HeapsOf(hs, d)
    /\ \A e \in Ev : QueuedIn(e, hs) => Timed(t, ev, d, e)

LEMMA TimedKey ==
    ASSUME HeapAssumption, TimeAssumption,
           NEW t \in TIM, Ahead(t) <= 2 * TMAX_ADJTIM, NEW ev \in [Ev -> EvtTim],
           NEW d \in [Ev -> Int], NEW e \in Ev, Timed(t, ev, d, e), NotLate(d, e)
    PROVE  /\ Key(ev, boundary_evttim(t))[e] = d[e] + (t.elapsed + BOUNDARY_MARGIN)
           /\ d[e] + t.elapsed + BOUNDARY_MARGIN \in 0 .. EVT - 1
<1> DEFINE x == t.elapsed + d[e]
<1>1. t.elapsed \in Nat /\ d[e] \in Int /\ x \in Int
  BY TimFields
<1>2. x <= TSTEP_HRTCNT + TMAX_RELTIM + Ahead(t)
  BY DEF Timed
<1>3. Ahead(t) \in Int
  BY AheadFacts
<1>4. d[e] >= -BOUNDARY_MARGIN
  BY DEF NotLate
<1>5. x + BOUNDARY_MARGIN \in 0 .. EVT - 1
  <2>1. x >= d[e] /\ x \in Int
    BY <1>1
  <2> HIDE DEF x
  <2> DEFINE m == BOUNDARY_MARGIN
  <2>2. /\ m \in Nat /\ EVT \in Nat /\ TSTEP_HRTCNT \in Nat /\ TMAX_RELTIM \in Nat /\ TMAX_ADJTIM \in Nat
        /\ TMAX_RELTIM + TSTEP_HRTCNT + 2 * TMAX_ADJTIM + m < EVT
    BY Params
  <2> HIDE DEF m
  <2>3. d[e] >= -m
    BY <1>4 DEF m
  <2>4. x + m \in 0 .. EVT - 1
    BY <1>1, <1>2, <1>3, <2>1, <2>2, <2>3
  <2> QED BY <2>4 DEF m
<1>6. Key(ev, boundary_evttim(t))[e] = (ev[e] - boundary_evttim(t)) % EVT
  BY DEF Key
<1>7. ev[e] = (t.current_evttim + x) % EVT
  BY DEF Timed
<1> HIDE DEF x
<1>8. (((t.current_evttim + x) % EVT) - boundary_evttim(t)) % EVT = x + BOUNDARY_MARGIN
  BY <1>1, <1>5, KeyIs
<1>9. Key(ev, boundary_evttim(t))[e] = x + BOUNDARY_MARGIN
  BY <1>6, <1>7, <1>8
<1>10. /\ x + BOUNDARY_MARGIN = d[e] + (t.elapsed + BOUNDARY_MARGIN)
       /\ x + BOUNDARY_MARGIN = d[e] + t.elapsed + BOUNDARY_MARGIN
  BY <1>1, Params DEF x
<1> QED BY <1>5, <1>9, <1>10

\* While no event is late by more than the margin, the order modulo EVT is
\* that of the real time.
LEMMA OrderOfTime ==
    ASSUME HeapAssumption, TimeAssumption,
           NEW t \in TIM, Ahead(t) <= 2 * TMAX_ADJTIM, NEW ev \in [Ev -> EvtTim],
           NEW d \in [Ev -> Int], NEW h \in Seq(Ev),
           \A e \in Range(h) : Timed(t, ev, d, e) /\ NotLate(d, e)
    PROVE  HeapOrdered(h, d) <=> HeapOrdered(h, Key(ev, boundary_evttim(t)))
<1> DEFINE K == Key(ev, boundary_evttim(t))
           c == t.elapsed + BOUNDARY_MARGIN
           n == -c
<1>1. c \in Int /\ n \in Int
  <2>1. t.elapsed \in Nat /\ BOUNDARY_MARGIN \in Nat
    BY TimFields, Params
  <2>2. c \in Int
    BY <2>1
  <2> HIDE DEF c
  <2> QED BY <2>2
<1>2. ev \in [Ev -> Int] /\ boundary_evttim(t) \in Int
  <2>1. EVT \in Nat
    BY Params
  <2>2. EvtTim \subseteq Int
    BY <2>1 DEF EvtTim
  <2> QED BY <2>2, BoundaryFacts
<1>3. K \in [Ev -> Int]
  BY <1>2, KeyFacts
<1>4. Range(h) \subseteq Ev
  BY LenProperties DEF Range
<1>5. ASSUME NEW e \in Range(h) PROVE K[e] = d[e] + c
  BY <1>4, <1>5, TimedKey
<1> HIDE DEF K, c
<1>6. ASSUME NEW e \in Range(h) PROVE d[e] = K[e] + n
  <2>1. d[e] \in Int /\ K[e] = d[e] + c
    BY <1>4, <1>5
  <2> QED BY <1>1, <2>1
<1> HIDE DEF n
<1>7. ASSUME HeapOrdered(h, d) PROVE HeapOrdered(h, K)
  BY <1>1, <1>3, <1>5, <1>7, OrderShift
<1>8. ASSUME HeapOrdered(h, K) PROVE HeapOrdered(h, d)
  BY <1>1, <1>3, <1>6, <1>8, OrderShift
<1> QED BY <1>7, <1>8 DEF K

LEMMA ConsistentHeap ==
    ASSUME HeapAssumption, TimeAssumption, NEW t, NEW ev, NEW hs, NEW d,
           Consistent(t, ev, hs, d), NEW p \in Tepp,
           \A e \in Ev : QueuedIn(e, hs) => NotLate(d, e)
    PROVE  /\ OrderedHeap(hs[p], ev, boundary_evttim(t))
           /\ Range(hs[p]) \subseteq Ev
           /\ boundary_evttim(t) \in Int
           /\ ev \in [Ev -> Int]
<1>1. /\ t \in TIM /\ Ahead(t) <= 2 * TMAX_ADJTIM /\ ev \in [Ev -> EvtTim] /\ d \in [Ev -> Int]
      /\ hs[p] \in Seq(Ev) /\ IsInjective(hs[p]) /\ HeapOrdered(hs[p], d)
  BY DEF Consistent, HeapsOf
<1>2. Range(hs[p]) \subseteq Ev
  BY <1>1, LenProperties DEF Range
<1>3. \A e \in Range(hs[p]) : Timed(t, ev, d, e) /\ NotLate(d, e)
  BY <1>2 DEF Consistent, QueuedIn
<1>4. HeapOrdered(hs[p], Key(ev, boundary_evttim(t)))
  BY <1>1, <1>3, OrderOfTime
<1>5. ev \in [Ev -> Int]
  <2>1. EVT \in Nat
    BY Params
  <2>2. EvtTim \subseteq Int
    BY <2>1 DEF EvtTim
  <2> QED BY <1>1, <2>2
<1> QED BY <1>1, <1>2, <1>4, <1>5, BoundaryFacts DEF OrderedHeap

\* The heap of q is replaced by g: the times of the events of the other heaps
\* have not changed.
LEMMA NewHeap ==
    ASSUME HeapAssumption, TimeAssumption, NEW t, NEW ev, NEW hs, NEW d,
           Consistent(t, ev, hs, d), NEW q \in Tepp,
           NEW new \in [Ev -> EvtTim], NEW f \in [Ev -> Int], NEW g,
           OrderedHeap(g, new, boundary_evttim(t)),
           \A p \in Tepp \ {q} : Range(g) \cap Range(hs[p]) = {},
           \A p \in Tepp \ {q} : \A e \in Range(hs[p]) : new[e] = ev[e] /\ f[e] = d[e],
           \A e \in Range(g) : Timed(t, new, f, e) /\ NotLate(f, e)
    PROVE  Consistent(t, new, [hs EXCEPT ![q] = g], f)
<1> DEFINE H == [hs EXCEPT ![q] = g]
<1>1. /\ t \in TIM /\ Ahead(t) <= 2 * TMAX_ADJTIM /\ ev \in [Ev -> EvtTim] /\ d \in [Ev -> Int]
      /\ hs \in [Tepp -> Seq(Ev)] /\ HeapsOf(hs, d)
  BY DEF Consistent
<1>2. g \in Seq(Ev) /\ IsInjective(g) /\ HeapOrdered(g, Key(new, boundary_evttim(t)))
  BY DEF OrderedHeap
<1>3. H \in [Tepp -> Seq(Ev)] /\ H[q] = g /\ \A p \in Tepp \ {q} : H[p] = hs[p]
  BY <1>1, <1>2
<1> HIDE DEF H
<1>4. HeapOrdered(g, f)
  BY <1>1, <1>2, OrderOfTime
<1>5. ASSUME NEW p \in Tepp PROVE H[p] \in Seq(Ev) /\ IsInjective(H[p]) /\ HeapOrdered(H[p], f)
  <2>1. CASE p = q
    BY <1>2, <1>3, <1>4, <2>1
  <2>2. CASE p # q
    <3>1. hs[p] \in Seq(Ev) /\ IsInjective(hs[p]) /\ HeapOrdered(hs[p], d)
      BY <1>1 DEF HeapsOf
    <3> DEFINE c == 0
               h == hs[p]
    <3>2. Range(h) \subseteq Ev
      BY <3>1, LenProperties DEF Range
    <3>3. ASSUME NEW e \in Range(h) PROVE f[e] = d[e] + c
      <4>1. f[e] = d[e] /\ d[e] \in Int
        BY <1>1, <2>2, <3>2
      <4> QED BY <4>1
    <3>4. c \in Int
      OBVIOUS
    <3>5. h \in Seq(Ev) /\ HeapOrdered(h, d)
      BY <3>1
    <3> HIDE DEF c, h
    <3>6. HeapOrdered(h, f)
      BY <1>1, <3>3, <3>4, <3>5, OrderShift
    <3> QED BY <1>3, <2>2, <3>1, <3>6 DEF h
  <2> QED BY <2>1, <2>2
<1>6. ASSUME NEW p \in Tepp, NEW r \in Tepp, p # r PROVE Range(H[p]) \cap Range(H[r]) = {}
  <2>1. CASE p # q /\ r # q
    BY <1>1, <1>3, <1>6, <2>1 DEF HeapsOf
  <2>2. CASE p = q
    <3>1. H[p] = g /\ H[r] = hs[r] /\ r \in Tepp \ {q}
      BY <1>3, <1>6, <2>2
    <3> QED BY <3>1
  <2>3. CASE r = q
    <3>1. H[r] = g /\ H[p] = hs[p] /\ p \in Tepp \ {q}
      BY <1>3, <1>6, <2>3
    <3>2. Range(g) \cap Range(hs[p]) = {}
      BY <3>1
    <3> QED BY <3>1, <3>2
  <2> QED BY <2>1, <2>2, <2>3
<1>7. ASSUME NEW e \in Ev, QueuedIn(e, H) PROVE Timed(t, new, f, e)
  <2>1. PICK p \in Tepp : e \in Range(H[p])
    BY <1>7 DEF QueuedIn
  <2>2. CASE p = q
    BY <1>3, <2>1, <2>2
  <2>3. CASE p # q
    <3>1. e \in Range(hs[p]) /\ new[e] = ev[e] /\ f[e] = d[e]
      BY <1>3, <2>1, <2>3
    <3>2. Timed(t, ev, d, e)
      BY <3>1 DEF Consistent, QueuedIn
    <3> QED BY <3>1, <3>2 DEF Timed
  <2> QED BY <2>2, <2>3
<1>8. HeapsOf(H, f)
  BY <1>5, <1>6 DEF HeapsOf
<1> QED BY <1>1, <1>3, <1>7, <1>8 DEF Consistent, H

\* The current event time moves by a, and all real times by c.
LEMMA ShiftedTime ==
    ASSUME HeapAssumption, TimeAssumption, NEW t \in TIM, NEW u \in TIM,
           NEW a \in Int, NEW c \in Int, NEW ev, NEW d \in [Ev -> Int], NEW f \in [Ev -> Int],
           NEW e \in Ev, f[e] = d[e] + c, Timed(t, ev, d, e),
           u.current_evttim = (t.current_evttim + a) % EVT,
           u.elapsed + c = t.elapsed - a, Ahead(u) >= Ahead(t) - a
    PROVE  Timed(u, ev, f, e)
<1> DEFINE cur == t.current_evttim
           y == cur + a
           z == u.elapsed + f[e]
<1>1. /\ cur \in Int /\ t.elapsed \in Int /\ u.elapsed \in Int /\ EVT \in Nat \ {0}
      /\ TSTEP_HRTCNT \in Int /\ TMAX_RELTIM \in Int
  BY TimFields, Params
<1>2. d[e] \in Int /\ f[e] \in Int /\ Ahead(t) \in Int /\ Ahead(u) \in Int
  <2>1. Ahead(t) \in 0 .. EVT - 1 /\ Ahead(u) \in 0 .. EVT - 1
    BY AheadFacts
  <2> QED BY <2>1, <1>1
<1>3. y \in Int /\ z \in Int /\ z = t.elapsed + d[e] - a /\ y + z = cur + (t.elapsed + d[e])
  <2> DEFINE el == t.elapsed
             ul == u.elapsed
             de == d[e]
             fe == f[e]
  <2>1. el \in Int /\ ul \in Int /\ de \in Int /\ fe \in Int
    BY <1>1, <1>2
  <2>2. fe = de + c /\ ul + c = el - a
    OBVIOUS
  <2>3. cur \in Int
    BY <1>1
  <2> HIDE DEF el, ul, de, fe, cur
  <2>4. /\ cur + a \in Int /\ ul + fe \in Int /\ ul + fe = el + de - a
        /\ (cur + a) + (ul + fe) = cur + (el + de)
    BY <2>1, <2>2, <2>3
  <2> QED BY <2>4 DEF el, ul, de, fe
<1>4. y + z = cur + (t.elapsed + d[e])
  BY <1>3
<1>5. z <= TSTEP_HRTCNT + TMAX_RELTIM + Ahead(u)
  <2>1. t.elapsed + d[e] <= TSTEP_HRTCNT + TMAX_RELTIM + Ahead(t)
    BY DEF Timed
  <2> HIDE DEF z
  <2> QED BY <1>1, <1>2, <1>3, <2>1
<1>6. ev[e] = (cur + (t.elapsed + d[e])) % EVT
  BY DEF Timed
<1>7. u.current_evttim = y % EVT
  OBVIOUS
<1> HIDE DEF y
<1>8. ((y % EVT) + z) % EVT = (y + z) % EVT
  <2> HIDE DEF z
  <2> QED BY <1>1, <1>3, ModSum, ZenonT(30)
<1>9. ev[e] = (u.current_evttim + z) % EVT
  <2>1. ev[e] = (y + z) % EVT
    <3> HIDE DEF z
    <3> QED BY <1>4, <1>6
  <2> HIDE DEF z
  <2> QED BY <1>7, <1>8, <2>1
<1> QED BY <1>5, <1>9 DEF Timed

LEMMA ShiftConsistent ==
    ASSUME HeapAssumption, TimeAssumption, NEW t, NEW ev, NEW hs, NEW d,
           Consistent(t, ev, hs, d), NEW u \in TIM, NEW a \in Int, NEW c \in Int,
           NEW f \in [Ev -> Int], \A e \in Ev : QueuedIn(e, hs) => f[e] = d[e] + c,
           u.current_evttim = (t.current_evttim + a) % EVT, u.elapsed + c = t.elapsed - a,
           Ahead(u) >= Ahead(t) - a, Ahead(u) <= 2 * TMAX_ADJTIM
    PROVE  Consistent(u, ev, hs, f)
<1>1. /\ t \in TIM /\ ev \in [Ev -> EvtTim] /\ d \in [Ev -> Int]
      /\ hs \in [Tepp -> Seq(Ev)] /\ HeapsOf(hs, d)
  BY DEF Consistent
<1>2. ASSUME NEW e \in Ev, QueuedIn(e, hs) PROVE Timed(u, ev, f, e)
  <2>1. Timed(t, ev, d, e) /\ f[e] = d[e] + c
    BY <1>2 DEF Consistent
  <2> QED BY <1>1, <2>1, ShiftedTime
<1>3. ASSUME NEW p \in Tepp PROVE HeapOrdered(hs[p], f)
  <2> DEFINE h == hs[p]
  <2>1. h \in Seq(Ev) /\ HeapOrdered(h, d)
    BY <1>1 DEF HeapsOf
  <2>2. Range(h) \subseteq Ev
    BY <2>1, LenProperties DEF Range
  <2>3. \A e \in Range(h) : f[e] = d[e] + c
    BY <2>2 DEF QueuedIn
  <2> HIDE DEF h
  <2>4. HeapOrdered(h, f)
    BY <1>1, <2>1, <2>3, OrderShift
  <2> QED BY <2>4 DEF h
<1>4. HeapsOf(hs, f)
  BY <1>1, <1>3 DEF HeapsOf
<1> QED BY <1>1, <1>2, <1>4 DEF Consistent

\* The counter has been read in time, and has not gone once round.
ReadInTime(t) == t.elapsed < TCYC_HRTCNT

LEMMA UpdateFacts ==
    ASSUME HeapAssumption, TimeAssumption, NEW t \in TIM, ReadInTime(t)
    PROVE  LET u == update_current_evttim(t)
               n == t.elapsed
           IN  /\ n \in 0 .. EVT - 1
               /\ u \in TIM /\ u.elapsed = 0
               /\ u.current_evttim = (t.current_evttim + n) % EVT
               /\ Ahead(u) = IF Ahead(t) < n THEN 0 ELSE Ahead(t) - n
               /\ u.monotonic_evttim = Advance(t, n).monotonic_evttim
               /\ u.systim_offset = Advance(t, n).systim_offset
<1> DEFINE n == t.elapsed
           w == Advance(t, n)
           u == [w EXCEPT !.elapsed = 0]
<1>1. n \in Nat /\ n < TCYC_HRTCNT
  BY TimFields DEF ReadInTime
<1>2. TCYC_HRTCNT <= EVT /\ TCYC_HRTCNT \in Nat \ {0} /\ EVT \in Nat \ {0}
  BY Params
<1> HIDE DEF n
<1>3. n \in 0 .. TCYC_HRTCNT - 1 /\ n \in 0 .. EVT - 1
  BY <1>1, <1>2
<1>4. n % TCYC_HRTCNT = n
  BY <1>2, <1>3, ModSmall
<1>5. update_current_evttim(t) = u
  BY <1>4 DEF update_current_evttim, n
<1>6. /\ w \in TIM /\ w.current_evttim = (t.current_evttim + n) % EVT
      /\ Ahead(w) = IF Ahead(t) < n THEN 0 ELSE Ahead(t) - n
  BY <1>3, AdvanceAhead DEF Advanced
<1> HIDE DEF w
<1>7. /\ u \in TIM /\ u.elapsed = 0 /\ u.current_evttim = w.current_evttim
      /\ u.monotonic_evttim = w.monotonic_evttim /\ u.systim_offset = w.systim_offset
  BY <1>6 DEF TIM
<1>8. Ahead(u) = Ahead(w)
  BY <1>7 DEF Ahead
<1> HIDE DEF u
<1> QED BY <1>3, <1>5, <1>6, <1>7, <1>8 DEF w, n

LEMMA UpdateConsistent ==
    ASSUME HeapAssumption, TimeAssumption, NEW t, NEW ev, NEW hs, NEW d,
           Consistent(t, ev, hs, d), ReadInTime(t)
    PROVE  /\ Consistent(update_current_evttim(t), ev, hs, d)
           /\ update_current_evttim(t).elapsed = 0
<1> DEFINE u == update_current_evttim(t)
           n == t.elapsed
           c == 0
<1>1. t \in TIM /\ d \in [Ev -> Int] /\ Ahead(t) <= 2 * TMAX_ADJTIM
  BY DEF Consistent
<1>2. /\ n \in 0 .. EVT - 1 /\ u \in TIM /\ u.elapsed = 0
      /\ u.current_evttim = (t.current_evttim + n) % EVT
      /\ Ahead(u) = IF Ahead(t) < n THEN 0 ELSE Ahead(t) - n
  BY <1>1, UpdateFacts
<1>3. Ahead(t) \in 0 .. EVT - 1 /\ EVT \in Nat /\ TMAX_ADJTIM \in Nat
  BY <1>1, AheadFacts, Params
<1> HIDE DEF u, n
<1>4. n \in Int /\ Ahead(u) >= Ahead(t) - n /\ Ahead(u) <= 2 * TMAX_ADJTIM
  BY <1>1, <1>2, <1>3
<1>5. c \in Int /\ u.elapsed + c = t.elapsed - n
  <2>1. n \in Int /\ n = t.elapsed
    BY <1>4 DEF n
  <2> QED BY <1>2, <2>1
<1>6. \A e \in Ev : QueuedIn(e, hs) => d[e] = d[e] + c
  BY <1>1
<1> HIDE DEF c
<1>7. Consistent(u, ev, hs, d)
  BY <1>1, <1>2, <1>4, <1>5, <1>6, ShiftConsistent
<1> QED BY <1>2, <1>7 DEF u

AllNotLate(hs, d) == \A e \in Ev : QueuedIn(e, hs) => NotLate(d, e)

\* Only the block of e has changed.
Others(ev, new, e) == \A x \in Ev \ {e} : new[x] = ev[x]

\* The event e leaves the heap of q.
LEMMA EventRemoved ==
    ASSUME HeapAssumption, TimeAssumption, NEW t, NEW ev, NEW hs, NEW d,
           Consistent(t, ev, hs, d), AllNotLate(hs, d), NEW q \in Tepp, NEW e \in Range(hs[q]),
           NEW g, OrderedHeap(g, ev, boundary_evttim(t)), Range(g) = Range(hs[q]) \ {e},
           NEW new \in [Ev -> EvtTim], NEW f \in [Ev -> Int], Others(ev, new, e), Others(d, f, e)
    PROVE  LET H == [hs EXCEPT ![q] = g]
           IN  Consistent(t, new, H, f) /\ ~QueuedIn(e, H) /\ AllNotLate(H, f)
<1> DEFINE H == [hs EXCEPT ![q] = g]
<1>1. /\ t \in TIM /\ ev \in [Ev -> Int] /\ boundary_evttim(t) \in Int
      /\ \A p \in Tepp : Range(hs[p]) \subseteq Ev
      /\ hs \in [Tepp -> Seq(Ev)] /\ HeapsOf(hs, d)
  BY ConsistentHeap DEF Consistent, AllNotLate
<1>2. \A p \in Tepp \ {q} : Range(hs[q]) \cap Range(hs[p]) = {}
  BY <1>1 DEF HeapsOf
<1>3. \A p \in Tepp \ {q} : Range(g) \cap Range(hs[p]) = {} /\ e \notin Range(hs[p])
  BY <1>2
<1>4. \A p \in Tepp \ {q} : \A x \in Range(hs[p]) : new[x] = ev[x] /\ f[x] = d[x]
  BY <1>1, <1>3 DEF Others
<1>5. ASSUME NEW x \in Range(g)
      PROVE  x \in Ev /\ new[x] = ev[x] /\ f[x] = d[x] /\ Timed(t, ev, d, x) /\ NotLate(d, x)
  <2>1. x \in Range(hs[q]) /\ x # e /\ x \in Ev
    BY <1>1, <1>5
  <2>2. Timed(t, ev, d, x) /\ NotLate(d, x)
    BY <2>1 DEF Consistent, AllNotLate, QueuedIn
  <2> QED BY <2>1, <2>2 DEF Others
<1>6. \A x \in Range(g) : Timed(t, new, f, x) /\ NotLate(f, x)
  BY <1>5 DEF Timed, NotLate
<1>7. OrderedHeap(g, new, boundary_evttim(t))
  <2>1. new \in [Ev -> Int]
    <3>1. EVT \in Nat
      BY Params
    <3>2. EvtTim \subseteq Int
      BY <3>1 DEF EvtTim
    <3> QED BY <3>2
  <2> QED BY <1>1, <1>5, <2>1, SameTimes
<1>8. Consistent(t, new, H, f)
  BY <1>3, <1>4, <1>6, <1>7, NewHeap
<1>9. H[q] = g /\ \A p \in Tepp \ {q} : H[p] = hs[p]
  BY <1>1
<1> HIDE DEF H
<1>10. ~QueuedIn(e, H)
  BY <1>3, <1>9 DEF QueuedIn
<1>11. ASSUME NEW x \in Ev, QueuedIn(x, H) PROVE NotLate(f, x)
  <2>1. PICK p \in Tepp : x \in Range(H[p])
    BY <1>11 DEF QueuedIn
  <2>2. CASE p = q
    BY <1>6, <1>9, <2>1, <2>2
  <2>3. CASE p # q
    <3>1. x \in Range(hs[p]) /\ f[x] = d[x]
      BY <1>4, <1>9, <2>1, <2>3
    <3>2. NotLate(d, x)
      BY <3>1 DEF AllNotLate, QueuedIn
    <3> QED BY <3>1, <3>2 DEF NotLate
  <2> QED BY <2>2, <2>3
<1>12. AllNotLate(H, f)
  BY <1>11 DEF AllNotLate
<1> QED BY <1>8, <1>10, <1>12 DEF H

\* The event e enters the heap of q.
LEMMA EventAdded ==
    ASSUME HeapAssumption, TimeAssumption, NEW t, NEW ev, NEW hs, NEW d,
           Consistent(t, ev, hs, d), AllNotLate(hs, d), NEW q \in Tepp, NEW e \in Ev,
           ~QueuedIn(e, hs),
           NEW new \in [Ev -> EvtTim], NEW f \in [Ev -> Int], Others(ev, new, e), Others(d, f, e),
           Timed(t, new, f, e), NotLate(f, e)
    PROVE  LET g == tmevtb_insert(hs[q], e, new, boundary_evttim(t))
           IN  /\ Consistent(t, new, [hs EXCEPT ![q] = g], f)
               /\ g \in Seq(Ev) /\ Range(g) = Range(hs[q]) \cup {e}
<1> DEFINE g == tmevtb_insert(hs[q], e, new, boundary_evttim(t))
<1>1. /\ t \in TIM /\ ev \in [Ev -> Int] /\ boundary_evttim(t) \in Int
      /\ OrderedHeap(hs[q], ev, boundary_evttim(t))
      /\ \A p \in Tepp : Range(hs[p]) \subseteq Ev
      /\ hs \in [Tepp -> Seq(Ev)] /\ HeapsOf(hs, d)
  BY ConsistentHeap DEF Consistent, AllNotLate
<1>2. \A p \in Tepp : e \notin Range(hs[p])
  BY DEF QueuedIn
<1>3. \A p \in Tepp : \A x \in Range(hs[p]) : new[x] = ev[x] /\ f[x] = d[x]
  BY <1>1, <1>2 DEF Others
<1>4. new \in [Ev -> Int]
  <2>1. EVT \in Nat
    BY Params
  <2>2. EvtTim \subseteq Int
    BY <2>1 DEF EvtTim
  <2> QED BY <2>2
<1>5. OrderedHeap(hs[q], new, boundary_evttim(t))
  BY <1>1, <1>3, <1>4, SameTimes
<1>6. OrderedHeap(g, new, boundary_evttim(t)) /\ Range(g) = Range(hs[q]) \cup {e}
  <2> DEFINE b == boundary_evttim(t)
             h == hs[q]
  <2>1. b \in Int /\ OrderedHeap(h, new, b) /\ e \notin Range(h)
    BY <1>1, <1>2, <1>5
  <2> HIDE DEF b, h
  <2>2. /\ OrderedHeap(tmevtb_insert(h, e, new, b), new, b)
        /\ Range(tmevtb_insert(h, e, new, b)) = Range(h) \cup {e}
    BY <1>4, <2>1, InsertCorrect
  <2> QED BY <2>2 DEF b, h
<1> HIDE DEF g
<1>7. \A p \in Tepp \ {q} : Range(g) \cap Range(hs[p]) = {}
  <2>1. \A p \in Tepp \ {q} : Range(hs[q]) \cap Range(hs[p]) = {}
    BY <1>1 DEF HeapsOf
  <2> QED BY <1>2, <1>6, <2>1
<1>8. ASSUME NEW x \in Range(g) PROVE Timed(t, new, f, x) /\ NotLate(f, x)
  <2>1. CASE x = e
    BY <2>1
  <2>2. CASE x # e
    <3>1. x \in Range(hs[q]) /\ x \in Ev
      BY <1>1, <1>6, <1>8, <2>2
    <3>2. Timed(t, ev, d, x) /\ NotLate(d, x)
      BY <3>1 DEF Consistent, AllNotLate, QueuedIn
    <3>3. new[x] = ev[x] /\ f[x] = d[x]
      BY <1>3, <3>1
    <3> QED BY <3>2, <3>3 DEF Timed, NotLate
  <2> QED BY <2>1, <2>2
<1>9. Consistent(t, new, [hs EXCEPT ![q] = g], f)
  BY <1>3, <1>6, <1>7, <1>8, NewHeap
<1>10. g \in Seq(Ev)
  BY <1>6 DEF OrderedHeap
<1> QED BY <1>6, <1>9, <1>10 DEF g

----------------------------------------------------------------------------
\* The steps of the time

ConsistentNow == Consistent(tim, evttim, tmevt_heap, due)

LEMMA OnTimeFacts ==
    ASSUME OnTime
    PROVE  ReadInTime(tim) /\ AllNotLate(tmevt_heap, due)
BY DEF OnTime, ReadInTime, AllNotLate, NotLate, Queued, QueuedIn

LEMMA MaxOfTwo ==
    ASSUME NEW a \in Int, NEW b \in Int, a >= b
    PROVE  Max({a, b}) = a
<1>1. a \in {a, b} /\ \A y \in {a, b} : a >= y
  OBVIOUS
<1>2. \A x \in {a, b} : (\A y \in {a, b} : x >= y) => x = a
  OBVIOUS
<1> QED BY <1>1, <1>2 DEF Max

LEMMA SameCurrent ==
    ASSUME HeapAssumption, TimeAssumption, NEW t \in TIM
    PROVE  t.current_evttim = (t.current_evttim + 0) % EVT
<1>1. t.current_evttim \in 0 .. EVT - 1 /\ EVT \in Nat \ {0}
  BY TimFields, Params
<1>2. t.current_evttim + 0 = t.current_evttim
  BY <1>1
<1> QED BY <1>1, <1>2, ModSmall

LEMMA TickStep ==
    ASSUME HeapAssumption, TimeAssumption, ConsistentNow, OnTime, Tick
    PROVE  ConsistentNow'
<1> DEFINE u == [tim EXCEPT !.elapsed = @ + 1]
           a == 0
           c == -1
           f == [e \in Ev |-> IF Queued(e) THEN Max({due[e] - 1, -MaxLate}) ELSE due[e]]
<1>1. tim \in TIM /\ due \in [Ev -> Int] /\ Ahead(tim) <= 2 * TMAX_ADJTIM
  BY DEF ConsistentNow, Consistent
<1>2. u \in TIM /\ u.elapsed = tim.elapsed + 1 /\ u.current_evttim = tim.current_evttim
      /\ u.monotonic_evttim = tim.monotonic_evttim /\ tim.elapsed \in Nat
  BY <1>1 DEF TIM
<1>3. ASSUME NEW e \in Ev, Queued(e) PROVE Max({due[e] - 1, -MaxLate}) = due[e] + c
  <2>1. due[e] \in Int /\ due[e] >= -BOUNDARY_MARGIN
    BY <1>1, <1>3 DEF OnTime
  <2>2. /\ EVT \in Nat /\ BOUNDARY_MARGIN \in Nat /\ TMAX_RELTIM \in Nat /\ TSTEP_HRTCNT \in Nat
        /\ TMAX_ADJTIM \in Nat
        /\ TMAX_RELTIM + TSTEP_HRTCNT + 2 * TMAX_ADJTIM + BOUNDARY_MARGIN < EVT
    BY Params
  <2>3. due[e] - 1 \in Int /\ -MaxLate \in Int /\ due[e] - 1 >= -MaxLate
    BY <2>1, <2>2 DEF MaxLate
  <2>4. due[e] - 1 = due[e] + c
    BY <2>1
  <2> QED BY <2>3, <2>4, MaxOfTwo
<1>4. f \in [Ev -> Int]
  <2>1. ASSUME NEW e \in Ev PROVE f[e] \in Int
    <3>1. due[e] \in Int /\ due[e] + c \in Int
      BY <1>1
    <3> QED BY <1>3, <3>1
  <2> QED BY <2>1
<1>5. \A e \in Ev : QueuedIn(e, tmevt_heap) => f[e] = due[e] + c
  BY <1>3 DEF Queued, QueuedIn
<1>6. tim' = u /\ due' = f /\ evttim' = evttim /\ tmevt_heap' = tmevt_heap
  BY DEF Tick
<1> HIDE DEF u, f
<1>7. Ahead(u) = Ahead(tim)
  BY <1>2 DEF Ahead
<1>8. u.current_evttim = (tim.current_evttim + a) % EVT
  BY <1>1, <1>2, SameCurrent
<1>9. /\ a \in Int /\ c \in Int
      /\ u.elapsed + c = tim.elapsed - a /\ Ahead(u) >= Ahead(tim) - a
      /\ Ahead(u) <= 2 * TMAX_ADJTIM
  <2>1. Ahead(tim) \in 0 .. EVT - 1 /\ EVT \in Nat
    BY <1>1, AheadFacts, Params
  <2>2. Ahead(tim) >= Ahead(tim) - a
    BY <2>1
  <2>3. u.elapsed + c = tim.elapsed - a
    BY <1>2
  <2> QED BY <1>1, <1>7, <2>2, <2>3
<1> HIDE DEF a, c
<1>10. Consistent(tim, evttim, tmevt_heap, due)
  BY DEF ConsistentNow
<1>11. Consistent(u, evttim, tmevt_heap, f)
  BY <1>2, <1>4, <1>5, <1>8, <1>9, <1>10, ShiftConsistent
<1> QED BY <1>6, <1>11 DEF ConsistentNow

LEMMA EnqueueStep ==
    ASSUME HeapAssumption, TimeAssumption, ConsistentNow, OnTime,
           NEW self \in Prc, NEW p \in Prc, NEW e \in Ev, NEW time \in RelTimes,
           tmevtb_enqueue_reltim(self, p, e, time)
    PROVE  /\ ConsistentNow' /\ tim'.elapsed = 0 /\ Others(due, due', e)
           /\ HeapOwner(p) \in Tepp
           /\ \A r \in Tepp \ {HeapOwner(p)} : tmevt_heap'[r] = tmevt_heap[r]
           /\ Range(tmevt_heap'[HeapOwner(p)]) = Range(tmevt_heap[HeapOwner(p)]) \cup {e}
<1> DEFINE t == update_current_evttim(tim)
           q == HeapOwner(p)
           x == (t.current_evttim + TSTEP_HRTCNT + time) % EVT
           ev == [evttim EXCEPT ![e] = x]
           f == [due EXCEPT ![e] = TSTEP_HRTCNT + time]
           g == tmevtb_insert(tmevt_heap[q], e, ev, boundary_evttim(t))
<1>1. Consistent(t, evttim, tmevt_heap, due) /\ t.elapsed = 0
  BY OnTimeFacts, UpdateConsistent DEF ConsistentNow
<1>2. /\ t \in TIM /\ evttim \in [Ev -> EvtTim] /\ due \in [Ev -> Int]
      /\ tmevt_heap \in [Tepp -> Seq(Ev)]
  BY <1>1 DEF Consistent
<1>3. /\ ~Used(e) /\ tim' = t /\ evttim' = ev
      /\ tmevt_heap' = [tmevt_heap EXCEPT ![q] = tmevtb_insert(@, e, ev, boundary_evttim(t))]
      /\ due' = f
  BY DEF tmevtb_enqueue_reltim
<1>4. q \in Tepp
  BY Params DEF HeapOwner
<1>5. tmevt_heap' = [tmevt_heap EXCEPT ![q] = g]
  BY <1>2, <1>3, <1>4
<1>6. ~QueuedIn(e, tmevt_heap)
  BY <1>3 DEF Used, Queued, QueuedIn
<1> HIDE DEF t, q
<1>7. /\ TSTEP_HRTCNT \in Nat /\ time \in Nat /\ time <= TMAX_RELTIM /\ TMAX_RELTIM \in Nat
      /\ EVT \in Nat \ {0}
  BY Params
<1>8. t.current_evttim \in Int
  BY <1>2, <1>7, TimFields
<1>9. x \in 0 .. EVT - 1
  <2> DEFINE y == t.current_evttim + TSTEP_HRTCNT + time
  <2>1. y \in Int
    BY <1>7, <1>8
  <2> HIDE DEF y
  <2>2. y % EVT \in 0 .. EVT - 1
    BY <1>7, <2>1, ModFacts
  <2> QED BY <2>2 DEF y
<1>10. x = (t.current_evttim + (0 + (TSTEP_HRTCNT + time))) % EVT
  <2>1. t.current_evttim + TSTEP_HRTCNT + time = t.current_evttim + (0 + (TSTEP_HRTCNT + time))
    BY <1>7, <1>8
  <2> QED BY <2>1
<1> HIDE DEF x
<1>11. ev \in [Ev -> EvtTim] /\ ev[e] = x /\ Others(evttim, ev, e)
  BY <1>2, <1>9 DEF EvtTim, Others
<1>12. TSTEP_HRTCNT + time \in Int /\ TSTEP_HRTCNT + time >= 0
  BY <1>7
<1>13. f \in [Ev -> Int] /\ f[e] = TSTEP_HRTCNT + time /\ Others(due, f, e)
  BY <1>2, <1>12 DEF Others
<1> HIDE DEF ev, f
<1>14. NotLate(f, e)
  <2>1. BOUNDARY_MARGIN \in Nat
    BY Params
  <2> QED BY <1>12, <1>13, <2>1 DEF NotLate
<1>15. Timed(t, ev, f, e)
  <2>1. Ahead(t) \in 0 .. EVT - 1
    BY <1>2, AheadFacts
  <2>2. 0 + (TSTEP_HRTCNT + time) <= TSTEP_HRTCNT + TMAX_RELTIM + Ahead(t)
    BY <1>7, <2>1
  <2> QED BY <1>1, <1>10, <1>11, <1>13, <2>2 DEF Timed
<1>16. Consistent(t, ev, [tmevt_heap EXCEPT ![q] = g], f)
  BY <1>1, <1>4, <1>6, <1>11, <1>13, <1>14, <1>15, OnTimeFacts, EventAdded
<1>17. Range(g) = Range(tmevt_heap[q]) \cup {e}
  <2> DEFINE b == boundary_evttim(t)
             h == tmevt_heap[q]
  <2>1. OrderedHeap(h, evttim, b) /\ Range(h) \subseteq Ev /\ b \in Int /\ evttim \in [Ev -> Int]
    BY <1>1, <1>4, OnTimeFacts, ConsistentHeap DEF AllNotLate
  <2>2. e \notin Range(h) /\ \A k \in Range(h) : ev[k] = evttim[k]
    BY <1>4, <1>6, <1>11, <2>1 DEF QueuedIn, Others
  <2>3. ev \in [Ev -> Int]
    <3>1. EvtTim \subseteq Int
      BY <1>7 DEF EvtTim
    <3> QED BY <1>11, <3>1
  <2> HIDE DEF b, h
  <2>4. OrderedHeap(h, ev, b)
    BY <2>1, <2>2, <2>3, SameTimes
  <2>5. Range(tmevtb_insert(h, e, ev, b)) = Range(h) \cup {e}
    BY <2>1, <2>2, <2>3, <2>4, InsertCorrect
  <2> QED BY <2>5 DEF b, h
<1> HIDE DEF g
<1>18. /\ \A r \in Tepp \ {q} : tmevt_heap'[r] = tmevt_heap[r]
       /\ Range(tmevt_heap'[q]) = Range(tmevt_heap[q]) \cup {e}
  BY <1>2, <1>4, <1>5, <1>17
<1>19. ConsistentNow' /\ tim'.elapsed = 0 /\ Others(due, due', e)
  BY <1>1, <1>3, <1>5, <1>13, <1>16 DEF ConsistentNow
<1> QED BY <1>4, <1>18, <1>19 DEF q

LEMMA ForgetFacts ==
    ASSUME HeapAssumption, TimeAssumption, ConsistentNow, NEW e \in Ev, Forget({e})
    PROVE  /\ evttim' \in [Ev -> EvtTim] /\ due' \in [Ev -> Int]
           /\ Others(evttim, evttim', e) /\ Others(due, due', e)
<1>1. evttim \in [Ev -> EvtTim] /\ due \in [Ev -> Int]
  BY DEF ConsistentNow, Consistent
<1>2. 0 \in EvtTim
  BY Params DEF EvtTim
<1>3. /\ evttim' = [x \in Ev |-> IF x \in {e} THEN 0 ELSE evttim[x]]
      /\ due' = [x \in Ev |-> IF x \in {e} THEN 0 ELSE due[x]]
  BY DEF Forget
<1> QED BY <1>1, <1>2, <1>3 DEF Others

LEMMA NowHeap ==
    ASSUME HeapAssumption, TimeAssumption, ConsistentNow, OnTime, NEW q \in Tepp
    PROVE  /\ OrderedHeap(tmevt_heap[q], evttim, boundary_evttim(tim))
           /\ Range(tmevt_heap[q]) \subseteq Ev /\ boundary_evttim(tim) \in Int
           /\ evttim \in [Ev -> Int]
BY OnTimeFacts, ConsistentHeap DEF ConsistentNow, AllNotLate

LEMMA DequeueStep ==
    ASSUME HeapAssumption, TimeAssumption, ConsistentNow, OnTime,
           NEW self \in Prc, NEW q \in Tepp, NEW e \in Ev, tmevtb_dequeue(self, q, e)
    PROVE  /\ ConsistentNow' /\ Others(evttim, evttim', e) /\ Others(due, due', e)
           /\ \A r \in Tepp \ {q} : tmevt_heap'[r] = tmevt_heap[r]
           /\ Range(tmevt_heap'[q]) = Range(tmevt_heap[q]) \ {e}
           /\ ~QueuedIn(e, tmevt_heap')
<1> DEFINE top == tmevt_heap[q][1] = e /\ ~in_signal_time(q)
           t == IF top THEN update_current_evttim(tim) ELSE tim
           g == tmevtb_delete(tmevt_heap[q], e, evttim, boundary_evttim(tim))
           hs == [tmevt_heap EXCEPT ![q] = g]
<1>1. tmevt_heap \in [Tepp -> Seq(Ev)]
  BY DEF ConsistentNow, Consistent
<1>2. /\ e \in Range(tmevt_heap[q]) /\ tim' = t /\ Forget({e})
      /\ tmevt_heap' = [tmevt_heap EXCEPT ![q] = tmevtb_delete(@, e, evttim, boundary_evttim(tim))]
  BY DEF tmevtb_dequeue
<1>3. tmevt_heap' = hs
  BY <1>1, <1>2
<1>4. /\ OrderedHeap(g, evttim, boundary_evttim(tim))
      /\ Range(g) = Range(tmevt_heap[q]) \ {e}
  BY <1>2, NowHeap, DeleteCorrect
<1> HIDE DEF g
<1>5. /\ evttim' \in [Ev -> EvtTim] /\ due' \in [Ev -> Int]
      /\ Others(evttim, evttim', e) /\ Others(due, due', e)
  BY <1>2, ForgetFacts
<1>6. Consistent(tim, evttim', hs, due') /\ ~QueuedIn(e, hs)
  BY <1>2, <1>4, <1>5, OnTimeFacts, EventRemoved DEF ConsistentNow
<1>7. /\ \A r \in Tepp \ {q} : tmevt_heap'[r] = tmevt_heap[r]
      /\ Range(tmevt_heap'[q]) = Range(tmevt_heap[q]) \ {e}
  BY <1>1, <1>3, <1>4
<1> HIDE DEF hs
<1>8. ASSUME top PROVE ConsistentNow'
  <2>1. Consistent(update_current_evttim(tim), evttim', hs, due')
    BY <1>6, OnTimeFacts, UpdateConsistent
  <2> QED BY <1>2, <1>3, <1>8, <2>1 DEF ConsistentNow
<1>9. ASSUME ~top PROVE ConsistentNow'
  BY <1>2, <1>3, <1>6, <1>9 DEF ConsistentNow
<1>10. ConsistentNow'
  BY <1>8, <1>9
<1> QED BY <1>3, <1>5, <1>6, <1>7, <1>10

LEMMA MigrateStep ==
    ASSUME HeapAssumption, TimeAssumption, ConsistentNow, OnTime,
           NEW self \in Prc, NEW p \in Prc, NEW e \in Ev, mig_tsk(self, p, e)
    PROVE  ConsistentNow'
<1> DEFINE q == HeapOwner(self)
           r == HeapOwner(p)
           top == tmevt_heap[q][1] = e /\ ~in_signal_time(q)
           t == IF top THEN update_current_evttim(tim) ELSE tim
           g == tmevtb_delete(tmevt_heap[q], e, evttim, boundary_evttim(tim))
           rest == [tmevt_heap EXCEPT ![q] = g]
           i == tmevtb_insert(rest[r], e, evttim, boundary_evttim(t))
           hs == [rest EXCEPT ![r] = i]
<1>1. /\ tmevt_heap \in [Tepp -> Seq(Ev)] /\ evttim \in [Ev -> EvtTim] /\ due \in [Ev -> Int]
  BY DEF ConsistentNow, Consistent
<1>2. q \in Tepp /\ r \in Tepp
  BY Params DEF HeapOwner
<1>3. e \in Range(tmevt_heap[q]) /\ tim' = t /\ UNCHANGED <<evttim, due>> /\ q # r
  BY DEF mig_tsk
<1>4. rest = [tmevt_heap EXCEPT ![q] = tmevtb_delete(@, e, evttim, boundary_evttim(tim))]
  BY <1>1, <1>2
<1>5. /\ OrderedHeap(g, evttim, boundary_evttim(tim))
      /\ Range(g) = Range(tmevt_heap[q]) \ {e}
  BY <1>2, <1>3, NowHeap, DeleteCorrect
<1>6. g \in Seq(Ev)
  BY <1>5 DEF OrderedHeap
<1> HIDE DEF g
<1>7. rest \in [Tepp -> Seq(Ev)]
  BY <1>1, <1>2, <1>6
<1>8. hs = [rest EXCEPT ![r] = tmevtb_insert(@, e, evttim, boundary_evttim(t))]
  <2> HIDE DEF rest, t
  <2> QED BY <1>2, <1>7
<1>9. tmevt_heap' = hs
  <2>1. tmevt_heap' = [[tmevt_heap EXCEPT
              ![q] = tmevtb_delete(@, e, evttim, boundary_evttim(tim))] EXCEPT
              ![r] = tmevtb_insert(@, e, evttim, boundary_evttim(t))]
    BY DEF mig_tsk
  <2> HIDE DEF rest, hs, t
  <2> QED BY <1>4, <1>8, <2>1
<1>10. Others(evttim, evttim, e) /\ Others(due, due, e)
  BY DEF Others
<1> HIDE DEF q, r
<1>11. /\ Consistent(tim, evttim, rest, due) /\ ~QueuedIn(e, rest) /\ AllNotLate(rest, due)
  BY <1>1, <1>2, <1>3, <1>5, <1>10, OnTimeFacts, EventRemoved DEF ConsistentNow
<1>12. QueuedIn(e, tmevt_heap) /\ NotLate(due, e)
  BY <1>2, <1>3, OnTimeFacts DEF QueuedIn, AllNotLate
<1> HIDE DEF rest, i
<1>13. Consistent(t, evttim, rest, due) /\ Timed(t, evttim, due, e)
  <2>1. CASE top
    <3>1. Consistent(update_current_evttim(tim), evttim, rest, due)
      BY <1>11, OnTimeFacts, UpdateConsistent
    <3>2. Consistent(update_current_evttim(tim), evttim, tmevt_heap, due)
      BY OnTimeFacts, UpdateConsistent DEF ConsistentNow
    <3>3. Timed(update_current_evttim(tim), evttim, due, e)
      BY <1>12, <3>2 DEF Consistent
    <3> QED BY <2>1, <3>1, <3>3
  <2>2. CASE ~top
    <3>1. Timed(tim, evttim, due, e)
      BY <1>12 DEF Consistent, ConsistentNow
    <3> QED BY <2>2, <1>11, <3>1
  <2> QED BY <2>1, <2>2
<1> HIDE DEF t
<1>14. Consistent(t, evttim, hs, due)
  BY <1>1, <1>2, <1>10, <1>11, <1>12, <1>13, EventAdded DEF i
<1> QED BY <1>3, <1>9, <1>14 DEF ConsistentNow

LEMMA ReadStep ==
    ASSUME HeapAssumption, TimeAssumption, ConsistentNow, OnTime, get_tim
    PROVE  ConsistentNow'
<1>1. Consistent(update_current_evttim(tim), evttim, tmevt_heap, due)
  BY OnTimeFacts, UpdateConsistent DEF ConsistentNow
<1>2. /\ tim' = update_current_evttim(tim)
      /\ UNCHANGED <<evttim, tmevt_heap, due>>
  BY DEF get_tim
<1> QED BY <1>1, <1>2 DEF ConsistentNow

LEMMA SetStep ==
    ASSUME HeapAssumption, TimeAssumption, ConsistentNow, OnTime,
           NEW systim \in {0, EVT - 1}, set_tim(systim)
    PROVE  ConsistentNow' /\ tim'.elapsed = 0
<1> DEFINE t == update_current_evttim(tim)
           off == (systim - t.monotonic_evttim) % (2 * EVT)
           u == [t EXCEPT !.systim_offset = off]
<1>1. Consistent(t, evttim, tmevt_heap, due) /\ t.elapsed = 0
  BY OnTimeFacts, UpdateConsistent DEF ConsistentNow
<1>2. tim' = u /\ UNCHANGED <<evttim, tmevt_heap, due>>
  BY DEF set_tim
<1>3. t \in TIM /\ Ahead(t) <= 2 * TMAX_ADJTIM
  BY <1>1 DEF Consistent
<1> HIDE DEF t
<1>4. off \in 0 .. 2 * EVT - 1
  <2> DEFINE y == systim - t.monotonic_evttim
             M == 2 * EVT
  <2>1. y \in Int /\ M \in Nat \ {0}
    BY <1>3, TimFields, Params
  <2> HIDE DEF y, M
  <2>2. y % M \in 0 .. M - 1
    BY <2>1, ModFacts
  <2> QED BY <2>2 DEF y, M
<1> HIDE DEF off
<1>5. /\ u \in TIM /\ u.elapsed = t.elapsed /\ u.current_evttim = t.current_evttim
      /\ u.monotonic_evttim = t.monotonic_evttim
  BY <1>3, <1>4 DEF TIM
<1> HIDE DEF u
<1>6. Ahead(u) = Ahead(t)
  BY <1>5 DEF Ahead
<1>7. Consistent(u, evttim, tmevt_heap, due)
  BY <1>1, <1>3, <1>5, <1>6 DEF Consistent, Timed
<1>8. ConsistentNow'
  BY <1>2, <1>7 DEF ConsistentNow
<1> QED BY <1>1, <1>2, <1>5, <1>8

LEMMA HandlerStep ==
    ASSUME ConsistentNow, NEW p \in Tepp, set_hrt_event_handler(p)
    PROVE  ConsistentNow'
BY DEF ConsistentNow, set_hrt_event_handler

LEMMA FinishStep ==
    ASSUME NEW p \in Tepp, NEW t, Consistent(t, evttim, tmevt_heap, due), Finish(p, t)
    PROVE  ConsistentNow'
BY DEF ConsistentNow, Finish

\* The current event time is put back by a.
LEMMA BackFacts ==
    ASSUME HeapAssumption, TimeAssumption, NEW t \in TIM, NEW a \in Int, a <= 0,
           Ahead(t) - a < EVT
    PROVE  LET u == [t EXCEPT !.current_evttim = (@ + a) % EVT]
           IN  /\ u \in TIM /\ u.elapsed = t.elapsed
               /\ u.current_evttim = (t.current_evttim + a) % EVT
               /\ Ahead(u) = Ahead(t) - a
<1> DEFINE cur == t.current_evttim
           mono == t.monotonic_evttim
           x == cur + a
           new == x % EVT
           u == [t EXCEPT !.current_evttim = new]
<1>1. EVT \in Nat \ {0} /\ cur \in Int /\ mono \in Int
  BY Params, TimFields
<1>2. x \in Int /\ mono - cur \in Int /\ -a \in Int
  BY <1>1
<1>3. new \in 0 .. EVT - 1
  <2> HIDE DEF x
  <2> QED BY <1>1, <1>2, ModFacts
<1> HIDE DEF new
<1>4. /\ u \in TIM /\ u.elapsed = t.elapsed /\ u.current_evttim = new
      /\ u.monotonic_evttim = mono
  BY <1>3 DEF TIM, EvtTim
<1>5. Ahead(t) = (mono - cur) % EVT /\ Ahead(t) \in 0 .. EVT - 1
  BY AheadFacts DEF Ahead
<1>6. Ahead(u) = (mono - new) % EVT
  BY <1>4 DEF Ahead
<1>7. (mono - new) % EVT = (mono - x) % EVT
  <2> HIDE DEF x, mono
  <2> QED BY <1>1, <1>2, ModSum DEF new
<1>8. (((mono - cur) % EVT) - a) % EVT = ((mono - cur) - a) % EVT
  <2> DEFINE z == mono - cur
  <2>1. z \in Int
    BY <1>2
  <2> HIDE DEF z
  <2>2. ((z % EVT) - a) % EVT = (z - a) % EVT
    BY <1>1, <2>1, ModSum
  <2> QED BY <2>2 DEF z
<1>9. mono - x = (mono - cur) - a
  BY <1>1
<1>10. Ahead(u) = (Ahead(t) - a) % EVT
  BY <1>5, <1>6, <1>7, <1>8, <1>9
<1>11. Ahead(t) - a \in 0 .. EVT - 1
  BY <1>1, <1>5
<1>12. Ahead(u) = Ahead(t) - a
  BY <1>1, <1>10, <1>11, ModSmall
<1>13. [t EXCEPT !.current_evttim = (@ + a) % EVT] = u
  BY DEF new
<1> HIDE DEF u
<1> QED BY <1>4, <1>12, <1>13 DEF new

LEMMA AdjustStep ==
    ASSUME HeapAssumption, TimeAssumption, ConsistentNow, OnTime,
           NEW self \in Tepp, NEW adjtim \in {TMAX_ADJTIM, -TMAX_ADJTIM}, adj_tim(self, adjtim)
    PROVE  ConsistentNow' /\ tim'.elapsed = 0
<1> DEFINE t0 == update_current_evttim(tim)
           t == IF adjtim > 0 THEN Advance(t0, adjtim)
                ELSE [t0 EXCEPT !.current_evttim = (@ + adjtim) % EVT]
           f == [e \in Ev |-> IF Queued(e) THEN due[e] - adjtim ELSE due[e]]
           c == -adjtim
<1>1. Consistent(t0, evttim, tmevt_heap, due) /\ t0.elapsed = 0
  BY OnTimeFacts, UpdateConsistent DEF ConsistentNow
<1>2. t0 \in TIM /\ Ahead(t0) <= 2 * TMAX_ADJTIM /\ due \in [Ev -> Int]
  BY <1>1 DEF Consistent
<1>3. /\ TMAX_ADJTIM \in Nat /\ EVT \in Nat \ {0} /\ BOUNDARY_MARGIN \in Nat
      /\ TMAX_RELTIM \in Nat /\ TSTEP_HRTCNT \in Nat
      /\ TMAX_RELTIM + TSTEP_HRTCNT + 2 * TMAX_ADJTIM + BOUNDARY_MARGIN < EVT
  BY Params
<1>4. evttim' = evttim /\ tmevt_heap' = tmevt_heap
  BY DEF adj_tim
<1>5. CASE check_adjtim(self, adjtim, t0)
  <2>1. tim' = t0 /\ due' = due
    BY <1>5 DEF adj_tim
  <2> HIDE DEF t0
  <2> QED BY <1>1, <1>4, <2>1 DEF ConsistentNow
<1>6. CASE ~check_adjtim(self, adjtim, t0)
  <2>1. tim' = t /\ due' = f
    BY <1>6 DEF adj_tim
  <2>2. adjtim \in Int /\ c \in Int
    BY <1>3
  <2>3. f \in [Ev -> Int]
    <3>1. ASSUME NEW e \in Ev PROVE due[e] - adjtim \in Int
      BY <1>2, <2>2
    <3> QED BY <1>2, <3>1
  <2>4. \A e \in Ev : QueuedIn(e, tmevt_heap) => f[e] = due[e] + c
    <3>1. ASSUME NEW e \in Ev PROVE due[e] - adjtim = due[e] + c
      BY <1>2, <2>2
    <3> QED BY <3>1 DEF Queued, QueuedIn
  <2> HIDE DEF f, t0
  <2>5. Ahead(t0) \in 0 .. EVT - 1
    BY <1>2, AheadFacts
  <2>6. /\ t \in TIM /\ t.current_evttim = (t0.current_evttim + adjtim) % EVT
        /\ t.elapsed = t0.elapsed
        /\ Ahead(t) >= Ahead(t0) - adjtim /\ Ahead(t) <= 2 * TMAX_ADJTIM
    <3>1. CASE adjtim > 0
      <4>1. t = Advance(t0, adjtim)
        BY <3>1
      <4>2. adjtim \in 0 .. EVT - 1
        BY <1>3, <3>1
      <4>3. Advanced(t0, t, adjtim)
        BY <1>2, <4>1, <4>2, AdvanceAhead
      <4>4. /\ t \in TIM /\ t.elapsed = t0.elapsed
            /\ t.current_evttim = (t0.current_evttim + adjtim) % EVT
            /\ Ahead(t) = IF Ahead(t0) < adjtim THEN 0 ELSE Ahead(t0) - adjtim
        BY <4>3 DEF Advanced
      <4> HIDE DEF t
      <4> QED BY <1>2, <1>3, <2>2, <2>5, <3>1, <4>4
    <3>2. CASE ~(adjtim > 0)
      <4>1. t = [t0 EXCEPT !.current_evttim = (@ + adjtim) % EVT]
        BY <3>2
      <4>2. Ahead(t0) < TMAX_ADJTIM
        <5>1. ~(Ahead(t0) >= TMAX_ADJTIM)
          BY <1>6, <3>2 DEF check_adjtim, Ahead
        <5> QED BY <1>3, <2>5, <5>1
      <4>3. adjtim <= 0 /\ -adjtim <= TMAX_ADJTIM
        BY <1>3, <2>2, <3>2
      <4>4. Ahead(t0) - adjtim < EVT /\ Ahead(t0) - adjtim <= 2 * TMAX_ADJTIM
        BY <1>3, <2>2, <2>5, <4>2, <4>3
      <4>5. /\ t \in TIM /\ t.elapsed = t0.elapsed
            /\ t.current_evttim = (t0.current_evttim + adjtim) % EVT
            /\ Ahead(t) = Ahead(t0) - adjtim
        BY <1>2, <2>2, <4>1, <4>3, <4>4, BackFacts
      <4> HIDE DEF t
      <4> QED BY <2>2, <2>5, <4>4, <4>5
    <3> QED BY <3>1, <3>2
  <2> HIDE DEF t
  <2>7. t.elapsed + c = t0.elapsed - adjtim
    BY <1>1, <2>2, <2>6
  <2> HIDE DEF c
  <2>8. Consistent(t, evttim, tmevt_heap, f)
    BY <1>1, <2>2, <2>3, <2>4, <2>6, <2>7, ShiftConsistent
  <2>9. ConsistentNow'
    BY <1>4, <2>1, <2>8 DEF ConsistentNow
  <2> QED BY <1>1, <2>1, <2>6, <2>9
<1> QED BY <1>5, <1>6

\* The comparison with the current event time says whether the time of an event
\* has come.
LEMMA DueIs ==
    ASSUME HeapAssumption, TimeAssumption,
           NEW t \in TIM, Ahead(t) <= 2 * TMAX_ADJTIM, NEW ev \in [Ev -> EvtTim],
           NEW d \in [Ev -> Int], NEW e \in Ev, Timed(t, ev, d, e), NotLate(d, e)
    PROVE  EVTTIM_LE(ev[e], t.current_evttim, boundary_evttim(t)) <=> t.elapsed + d[e] <= 0
<1> DEFINE b == boundary_evttim(t)
           m == BOUNDARY_MARGIN
           z == 0
<1>1. m \in Nat /\ EVT \in Nat \ {0} /\ m < EVT
  <2>1. /\ m \in Nat /\ EVT \in Nat \ {0} /\ TSTEP_HRTCNT \in Nat /\ TMAX_RELTIM \in Nat
        /\ TMAX_ADJTIM \in Nat
        /\ TMAX_RELTIM + TSTEP_HRTCNT + 2 * TMAX_ADJTIM + m < EVT
    BY Params
  <2> HIDE DEF m
  <2> QED BY <2>1
<1>2. (ev[e] - b) % EVT = d[e] + (t.elapsed + m)
  <2>1. Key(ev, b)[e] = d[e] + (t.elapsed + m)
    BY TimedKey
  <2> QED BY <2>1 DEF Key
<1>3. (t.current_evttim - b) % EVT = m
  <2>1. z \in Int /\ z + m \in 0 .. EVT - 1 /\ z + m = m
    BY <1>1
  <2>2. t.current_evttim = (t.current_evttim + z) % EVT
    BY SameCurrent
  <2> HIDE DEF z, b
  <2>3. (((t.current_evttim + z) % EVT) - boundary_evttim(t)) % EVT = z + BOUNDARY_MARGIN
    BY <2>1, KeyIs DEF m
  <2> HIDE DEF m
  <2>4. (t.current_evttim - b) % EVT = z + m
    BY <2>2, <2>3 DEF b, m
  <2> QED BY <2>1, <2>4
<1> HIDE DEF b, m
<1>4. EVTTIM_LE(ev[e], t.current_evttim, b) <=> d[e] + (t.elapsed + m) <= m
  BY <1>2, <1>3 DEF EVTTIM_LE
<1>5. d[e] + (t.elapsed + m) <= m <=> t.elapsed + d[e] <= 0
  <2>1. d[e] \in Int /\ t.elapsed \in Int
    BY TimFields
  <2> QED BY <1>1, <2>1
<1> QED BY <1>4, <1>5 DEF b

\* What signal_time sees: the first event of the heap is an event whose time has
\* come.
LEMMA FirstIsDue ==
    ASSUME HeapAssumption, TimeAssumption, OnTime, NEW t, NEW p \in Tepp,
           Consistent(t, evttim, tmevt_heap, due), IsDue(p, t)
    PROVE  LET e == tmevt_heap[p][1]
           IN  /\ e \in Range(tmevt_heap[p]) /\ e \in Ev
               /\ Timed(t, evttim, due, e) /\ NotLate(due, e)
               /\ t.elapsed + due[e] <= 0 /\ due[e] <= 0
<1> DEFINE h == tmevt_heap[p]
           e == h[1]
<1>1. /\ t \in TIM /\ Ahead(t) <= 2 * TMAX_ADJTIM /\ evttim \in [Ev -> EvtTim]
      /\ due \in [Ev -> Int] /\ h \in Seq(Ev)
  BY DEF Consistent
<1>2. h # << >> /\ EVTTIM_LE(evttim[e], t.current_evttim, boundary_evttim(t))
  BY DEF IsDue
<1> HIDE DEF h
<1>3. Len(h) \in Nat \ {0}
  BY <1>1, <1>2, FrontFacts
<1>4. e \in Range(h) /\ e \in Ev
  <2>1. 1 \in 1 .. Len(h) /\ DOMAIN h = 1 .. Len(h) /\ \A i \in 1 .. Len(h) : h[i] \in Ev
    BY <1>1, <1>3, LenProperties
  <2> QED BY <2>1 DEF Range
<1> HIDE DEF e
<1>5. QueuedIn(e, tmevt_heap)
  BY <1>4 DEF QueuedIn, h
<1>6. Timed(t, evttim, due, e) /\ NotLate(due, e)
  BY <1>4, <1>5, OnTimeFacts DEF Consistent, AllNotLate
<1>7. t.elapsed + due[e] <= 0
  BY <1>1, <1>2, <1>4, <1>6, DueIs
<1>8. due[e] <= 0
  <2>1. t.elapsed \in Nat /\ due[e] \in Int
    BY <1>1, <1>4, TimFields
  <2> QED BY <1>7, <2>1
<1> QED BY <1>4, <1>6, <1>7, <1>8 DEF e, h

\* signal_time takes the first event; that of a cyclic notification comes back with a
\* later time.
LEMMA CallbackStep ==
    ASSUME HeapAssumption, TimeAssumption, OnTime, ConsistentNow, NEW t, NEW p \in Tepp,
           Consistent(t, evttim, tmevt_heap, due), IsDue(p, t), Callback(p, t)
    PROVE  ConsistentNow'
<1> DEFINE h == tmevt_heap[p]
           e == h[1]
           b == boundary_evttim(t)
           rest == tmevtb_delete_top(h, evttim, b)
           hs == [tmevt_heap EXCEPT ![p] = rest]
<1>1. /\ t \in TIM /\ Ahead(t) <= 2 * TMAX_ADJTIM /\ evttim \in [Ev -> EvtTim]
      /\ due \in [Ev -> Int] /\ tmevt_heap \in [Tepp -> Seq(Ev)]
  BY DEF Consistent
<1>2. /\ e \in Range(h) /\ e \in Ev
      /\ Timed(t, evttim, due, e) /\ NotLate(due, e)
      /\ t.elapsed + due[e] <= 0 /\ due[e] <= 0
  BY FirstIsDue
<1>3. OrderedHeap(h, evttim, b) /\ b \in Int /\ evttim \in [Ev -> Int]
  BY OnTimeFacts, ConsistentHeap DEF AllNotLate
<1>4. h # << >>
  BY DEF IsDue
<1>5. OrderedHeap(rest, evttim, b) /\ Range(rest) = Range(h) \ {e}
  <2> HIDE DEF b, h
  <2> QED BY <1>3, <1>4, DeleteTopCorrect
<1>6. rest \in Seq(Ev)
  BY <1>5 DEF OrderedHeap
<1>7. /\ tim' = t
      /\ \/ tmevt_heap' = hs /\ Forget({e})
         \/ \E cyctim \in RelTimes \ {0} :
               /\ evttim' = [evttim EXCEPT ![e] = (@ + cyctim) % EVT]
               /\ due' = [due EXCEPT ![e] = @ + cyctim]
               /\ tmevt_heap' = [tmevt_heap EXCEPT ![p] =
                                    tmevtb_insert(rest, e, evttim', b)]
  BY DEF Callback
<1> HIDE DEF rest
<1>8. CASE tmevt_heap' = hs /\ Forget({e})
  <2>1. /\ evttim' \in [Ev -> EvtTim] /\ due' \in [Ev -> Int]
        /\ Others(evttim, evttim', e) /\ Others(due, due', e)
    BY <1>2, <1>8, ForgetFacts
  <2> HIDE DEF e
  <2>2. Consistent(t, evttim', hs, due')
    BY <1>2, <1>5, <2>1, OnTimeFacts, EventRemoved
  <2> QED BY <1>7, <1>8, <2>2 DEF ConsistentNow
<1>9. ASSUME NEW cyctim \in RelTimes \ {0},
             evttim' = [evttim EXCEPT ![e] = (@ + cyctim) % EVT],
             due' = [due EXCEPT ![e] = @ + cyctim],
             tmevt_heap' = [tmevt_heap EXCEPT ![p] = tmevtb_insert(rest, e, evttim', b)]
      PROVE  ConsistentNow'
  <2> HIDE DEF e
  <2>1. Others(evttim, evttim, e) /\ Others(due, due, e)
    BY DEF Others
  <2>2. Consistent(t, evttim, hs, due) /\ ~QueuedIn(e, hs) /\ AllNotLate(hs, due)
    BY <1>1, <1>2, <1>5, <2>1, OnTimeFacts, EventRemoved
  <2>3. /\ cyctim \in Nat /\ cyctim <= TMAX_RELTIM /\ EVT \in Nat \ {0}
        /\ TSTEP_HRTCNT \in Nat /\ TMAX_RELTIM \in Nat /\ BOUNDARY_MARGIN \in Nat
    BY Params
  <2> DEFINE x == t.current_evttim + (t.elapsed + due[e])
             old == evttim[e]
             new == (old + cyctim) % EVT
  <2>4. /\ t.current_evttim \in Int /\ t.elapsed \in Nat /\ due[e] \in Int
        /\ x \in Int /\ old \in Int
    BY <1>1, <1>2, <1>3, <2>3, TimFields
  <2>5. old = x % EVT
    BY <1>2 DEF Timed
  <2>6. new = (x + cyctim) % EVT
    <3>1. EVT \in Nat \ {0} /\ x \in Int /\ cyctim \in Int
      BY <2>3, <2>4
    <3> HIDE DEF x, old
    <3>2. ((x % EVT) + cyctim) % EVT = (x + cyctim) % EVT
      BY <3>1, ModSum
    <3> QED BY <2>5, <3>2
  <2>7. x + cyctim = t.current_evttim + (t.elapsed + (due[e] + cyctim))
    BY <2>3, <2>4
  <2>8. new = (t.current_evttim + (t.elapsed + (due[e] + cyctim))) % EVT
    <3> HIDE DEF x, new
    <3> QED BY <2>6, <2>7
  <2>9. new \in EvtTim
    <3> DEFINE y == old + cyctim
    <3>1. y \in Int
      BY <2>3, <2>4
    <3> HIDE DEF y
    <3>2. y % EVT \in 0 .. EVT - 1
      BY <2>3, <3>1, ModFacts
    <3> QED BY <3>2 DEF y, EvtTim
  <2> HIDE DEF new
  <2>10. evttim' = [evttim EXCEPT ![e] = new]
    BY <1>1, <1>2, <1>9 DEF new
  <2>11. evttim' \in [Ev -> EvtTim] /\ evttim'[e] = new /\ Others(evttim, evttim', e)
    BY <1>1, <1>2, <2>9, <2>10 DEF Others
  <2>12. due[e] + cyctim \in Int
    BY <2>3, <2>4
  <2>13. due' \in [Ev -> Int] /\ due'[e] = due[e] + cyctim /\ Others(due, due', e)
    <3>1. due' = [due EXCEPT ![e] = due[e] + cyctim]
      BY <1>1, <1>2, <1>9
    <3> QED BY <1>1, <1>2, <2>12, <3>1 DEF Others
  <2>14. Timed(t, evttim', due', e)
    <3>1. Ahead(t) \in 0 .. EVT - 1
      BY <1>1, AheadFacts
    <3>2. t.elapsed + (due[e] + cyctim) <= TSTEP_HRTCNT + TMAX_RELTIM + Ahead(t)
      BY <1>2, <2>3, <2>4, <3>1
    <3> QED BY <2>8, <2>11, <2>13, <3>2 DEF Timed
  <2>15. NotLate(due', e)
    <3>1. due[e] >= -BOUNDARY_MARGIN
      BY <1>2 DEF NotLate
    <3>2. due[e] + cyctim >= -BOUNDARY_MARGIN
      BY <2>3, <2>4, <3>1
    <3> QED BY <2>13, <3>2 DEF NotLate
  <2>16. hs[p] = rest
    BY <1>1
  <2> DEFINE g == tmevtb_insert(hs[p], e, evttim', boundary_evttim(t))
  <2>17. Consistent(t, evttim', [hs EXCEPT ![p] = g], due')
    <3> HIDE DEF hs
    <3> QED BY <1>2, <2>2, <2>11, <2>13, <2>14, <2>15, EventAdded
  <2>18. g = tmevtb_insert(rest, e, evttim', b)
    BY <2>16
  <2>19. tmevt_heap' = [tmevt_heap EXCEPT ![p] = g]
    <3> HIDE DEF g, b
    <3> QED BY <1>9, <2>18
  <2>20. [hs EXCEPT ![p] = g] = [tmevt_heap EXCEPT ![p] = g]
    <3> HIDE DEF g
    <3> QED BY <1>1
  <2> HIDE DEF g, hs
  <2> QED BY <1>7, <2>17, <2>19, <2>20 DEF ConsistentNow
<1> QED BY <1>7, <1>8, <1>9

LEMMA UpdatedNow ==
    ASSUME HeapAssumption, TimeAssumption, ConsistentNow, OnTime
    PROVE  /\ Consistent(update_current_evttim(tim), evttim, tmevt_heap, due)
           /\ update_current_evttim(tim).elapsed = 0
BY OnTimeFacts, UpdateConsistent DEF ConsistentNow

LEMMA SignalStep ==
    ASSUME HeapAssumption, TimeAssumption, ConsistentNow, OnTime, NEW p \in Tepp, SignalTime(p)
    PROVE  ConsistentNow'
<1> DEFINE t == update_current_evttim(tim)
<1>1. Consistent(t, evttim, tmevt_heap, due)
  BY UpdatedNow
<1>2. IF IsDue(p, t) THEN Callback(p, t) ELSE Finish(p, t)
  BY DEF SignalTime
<1> HIDE DEF t
<1>3. CASE IsDue(p, t)
  BY <1>1, <1>2, <1>3, CallbackStep
<1>4. CASE ~IsDue(p, t)
  BY <1>1, <1>2, <1>4, FinishStep
<1> QED BY <1>3, <1>4

LEMMA ContinueStep ==
    ASSUME HeapAssumption, TimeAssumption, ConsistentNow, OnTime, NEW p \in Tepp,
           SignalTimeContinues(p)
    PROVE  ConsistentNow'
<1> DEFINE t == IF IsDue(p, tim) THEN tim ELSE update_current_evttim(tim)
<1>1. Consistent(t, evttim, tmevt_heap, due)
  BY UpdatedNow DEF ConsistentNow
<1>2. IF IsDue(p, t) THEN Callback(p, t) ELSE Finish(p, t)
  BY DEF SignalTimeContinues
<1> HIDE DEF t
<1>3. CASE IsDue(p, t)
  BY <1>1, <1>2, <1>3, CallbackStep
<1>4. CASE ~IsDue(p, t)
  BY <1>1, <1>2, <1>4, FinishStep
<1> QED BY <1>3, <1>4

LEMMA ConsistentInit ==
    ASSUME HeapAssumption, TimeAssumption, Init
    PROVE  ConsistentNow
<1>1. EVT \in Nat \ {0} /\ TMAX_ADJTIM \in Nat
  BY Params
<1>2. tim = [current_evttim |-> 0, monotonic_evttim |-> 0, systim_offset |-> 0, elapsed |-> 0]
  BY DEF Init
<1>3. 0 \in EvtTim /\ 0 \in 0 .. 2 * EVT - 1 /\ 0 \in Nat
  BY <1>1 DEF EvtTim
<1>4. tim \in TIM
  BY <1>2, <1>3 DEF TIM
<1>5. Ahead(tim) <= 2 * TMAX_ADJTIM
  <2>1. Ahead(tim) = (0 - 0) % EVT
    BY <1>2 DEF Ahead
  <2>2. 0 - 0 = 0 /\ 0 \in 0 .. EVT - 1
    BY <1>1
  <2>3. Ahead(tim) = 0
    BY <1>1, <2>1, <2>2, ModSmall
  <2> QED BY <1>1, <2>3
<1>6. /\ evttim \in [Ev -> EvtTim] /\ due \in [Ev -> Int]
  BY <1>3 DEF Init
<1>7. tmevt_heap = [p \in Tepp |-> << >>]
  BY DEF Init
<1>8. tmevt_heap \in [Tepp -> Seq(Ev)]
  BY <1>7
<1>9. ASSUME NEW p \in Tepp
      PROVE  /\ tmevt_heap[p] \in Seq(Ev) /\ Range(tmevt_heap[p]) = {}
             /\ IsInjective(tmevt_heap[p]) /\ HeapOrdered(tmevt_heap[p], due)
  BY <1>7 DEF Range, IsInjective, HeapOrdered
<1>10. HeapsOf(tmevt_heap, due)
  BY <1>9 DEF HeapsOf
<1>11. \A e \in Ev : ~QueuedIn(e, tmevt_heap)
  BY <1>9 DEF QueuedIn
<1> QED BY <1>4, <1>5, <1>6, <1>8, <1>10, <1>11 DEF ConsistentNow, Consistent

LEMMA ConsistentStep ==
    ASSUME HeapAssumption, TimeAssumption, ConsistentNow, OnTime, [Next]_vars
    PROVE  ConsistentNow'
<1>1. CASE Tick
  BY <1>1, TickStep
<1>2. ASSUME NEW p \in Tepp, SignalTime(p) PROVE ConsistentNow'
  BY <1>2, SignalStep
<1>3. ASSUME NEW p \in Tepp, SignalTimeContinues(p) PROVE ConsistentNow'
  BY <1>3, ContinueStep
<1>4. ASSUME NEW p \in Tepp, set_hrt_event_handler(p) PROVE ConsistentNow'
  BY <1>4, HandlerStep
<1>5. ASSUME NEW self \in Prc, NEW e \in Ev, NEW p \in Prc, NEW time \in RelTimes,
             tmevtb_enqueue_reltim(self, p, e, time)
      PROVE  ConsistentNow'
  BY <1>5, EnqueueStep
<1>6. ASSUME NEW self \in Prc, NEW e \in Ev, NEW q \in Tepp, tmevtb_dequeue(self, q, e)
      PROVE  ConsistentNow'
  BY <1>6, DequeueStep
<1>7. ASSUME NEW self \in Prc, NEW e \in Ev, NEW p \in Prc, mig_tsk(self, p, e)
      PROVE  ConsistentNow'
  BY <1>7, MigrateStep
<1>8. ASSUME NEW self \in Tepp, NEW adjtim \in {TMAX_ADJTIM, -TMAX_ADJTIM}, adj_tim(self, adjtim)
      PROVE  ConsistentNow'
  BY <1>8, AdjustStep
<1>9. ASSUME NEW systim \in {0, EVT - 1}, set_tim(systim) PROVE ConsistentNow'
  BY <1>9, SetStep
<1>10. CASE get_tim
  BY <1>10, ReadStep
<1>11. CASE UNCHANGED vars
  BY <1>11 DEF vars, ConsistentNow
<1> QED BY <1>1, <1>2, <1>3, <1>4, <1>5, <1>6, <1>7, <1>8, <1>9, <1>10, <1>11 DEF Next

LEMMA ConsistentAlways ==
    ASSUME HeapAssumption, TimeAssumption
    PROVE  Spec /\ []OnTime => []ConsistentNow
<1>1. Init => ConsistentNow
  BY ConsistentInit
<1>2. ConsistentNow /\ OnTime /\ [Next]_vars => ConsistentNow'
  BY ConsistentStep
<1> QED BY <1>1, <1>2, PTL DEF Spec

\* The heaps keep the order of the real times and an event stays in one heap, as
\* long as no event is late by more than the margin and the counter is read in time:
\* the comparisons modulo 2^32 are then those of the real times
\* (time_event.c:99-104, :181-368).
THEOREM RealOrderHolds ==
    ASSUME HeapAssumption, TimeAssumption
    PROVE  Spec /\ []OnTime => []RealOrder
<1>1. ConsistentNow => RealOrder
  <2> SUFFICES ASSUME ConsistentNow PROVE RealOrder
    OBVIOUS
  <2>1. /\ tmevt_heap \in [Tepp -> Seq(Ev)] /\ DOMAIN tmevt_heap = Tepp
        /\ HeapsOf(tmevt_heap, due)
    BY DEF ConsistentNow, Consistent
  <2>2. ASSUME NEW p \in Tepp, NEW n \in DOMAIN tmevt_heap[p] \ {1}
        PROVE  due[tmevt_heap[p][PARENT(n)]] <= due[tmevt_heap[p][n]]
    <3>1. tmevt_heap[p] \in Seq(Ev) /\ HeapOrdered(tmevt_heap[p], due)
      BY <2>1 DEF HeapsOf
    <3>2. n \in 2 .. Len(tmevt_heap[p])
      BY <2>2, <3>1, LenProperties
    <3> QED BY <3>1, <3>2 DEF HeapOrdered
  <2> QED BY <2>1, <2>2 DEF RealOrder, HeapsOf
<1> QED BY <1>1, ConsistentAlways, PTL

----------------------------------------------------------------------------
\* The timers: the types of their variables

RunTypes ==
    /\ running \in [Tepp -> Ev \cup {NULL}]
    /\ hrt \in [Tepp -> 0 .. HRTCNT_BOUND \cup {NULL}]
    /\ request \in [Tepp -> BOOLEAN]
    /\ late \in [Tepp -> 0 .. Latency]

LEMMA MinOfTwo ==
    ASSUME NEW a \in Int, NEW b \in Int
    PROVE  /\ a <= b => Min({a, b}) = a
           /\ b <= a => Min({a, b}) = b
<1>1. CASE a <= b
  <2>1. a \in {a, b} /\ \A y \in {a, b} : a <= y
    BY <1>1
  <2>2. \A x \in {a, b} : (\A y \in {a, b} : x <= y) => x = a
    BY <1>1
  <2>3. Min({a, b}) = a
    BY <2>1, <2>2 DEF Min
  <2> QED BY <1>1, <2>3
<1>2. CASE b <= a
  <2>1. b \in {a, b} /\ \A y \in {a, b} : b <= y
    BY <1>2
  <2>2. \A x \in {a, b} : (\A y \in {a, b} : x <= y) => x = b
    BY <1>2
  <2>3. Min({a, b}) = b
    BY <2>1, <2>2 DEF Min
  <2> QED BY <1>2, <2>3
<1> QED BY <1>1, <1>2

LEMMA HrtEventTypes ==
    ASSUME HeapAssumption, TimeAssumption, NEW p \in Tepp, NEW h \in Seq(Ev),
           NEW ev \in [Ev -> EvtTim], NEW t \in TIM
    PROVE  HrtEvent(p, h, ev, t) \in 0 .. HRTCNT_BOUND \cup {NULL}
<1>1. HRTCNT_BOUND \in Nat \ {0} /\ EVT \in Nat \ {0}
  BY Params
<1>2. CASE h = << >>
  BY <1>1, <1>2 DEF HrtEvent
<1>3. CASE h # << >>
  <2> DEFINE x == (ev[h[1]] - t.current_evttim) % EVT
  <2>1. h[1] \in Ev
    BY <1>3
  <2>2. ev[h[1]] \in 0 .. EVT - 1 /\ t.current_evttim \in 0 .. EVT - 1
    BY <2>1, TimFields DEF EvtTim
  <2>3. x \in 0 .. EVT - 1
    <3> DEFINE y == ev[h[1]] - t.current_evttim
    <3>1. y \in Int
      BY <1>1, <2>2
    <3> HIDE DEF y
    <3>2. y % EVT \in 0 .. EVT - 1
      BY <1>1, <3>1, ModFacts
    <3> QED BY <3>2 DEF y
  <2> HIDE DEF x
  <2>4. Min({HRTCNT_BOUND, x}) \in 0 .. HRTCNT_BOUND
    <3>1. x \in Int /\ x >= 0 /\ HRTCNT_BOUND \in Int
      BY <1>1, <2>3
    <3>2. CASE HRTCNT_BOUND <= x
      <4>1. Min({HRTCNT_BOUND, x}) = HRTCNT_BOUND
        BY <3>1, <3>2, MinOfTwo
      <4> QED BY <1>1, <4>1
    <3>3. CASE x <= HRTCNT_BOUND
      <4>1. Min({HRTCNT_BOUND, x}) = x
        BY <3>1, <3>3, MinOfTwo
      <4> QED BY <3>1, <3>3, <4>1
    <3> QED BY <3>1, <3>2, <3>3
  <2>5. HrtEvent(p, h, ev, t) \in {0, Min({HRTCNT_BOUND, x})}
    BY <1>3 DEF HrtEvent, x
  <2> QED BY <1>1, <2>4, <2>5
<1> QED BY <1>2, <1>3

LEMMA SetHrtTypes ==
    ASSUME HeapAssumption, TimeAssumption, RunTypes,
           NEW self, NEW set, NEW heaps \in [Tepp -> Seq(Ev)], NEW ev \in [Ev -> EvtTim],
           NEW t \in TIM, set_hrt_event(self, set, heaps, ev, t),
           UNCHANGED <<running, late>>
    PROVE  RunTypes'
<1>1. ASSUME NEW p \in Tepp
      PROVE  /\ HrtEvent(p, heaps[p], ev, t) \in 0 .. HRTCNT_BOUND \cup {NULL}
             /\ hrt[p] \in 0 .. HRTCNT_BOUND \cup {NULL}
  BY HrtEventTypes DEF RunTypes
<1>2. hrt' \in [Tepp -> 0 .. HRTCNT_BOUND \cup {NULL}]
  BY <1>1 DEF set_hrt_event
<1>3. request' \in [Tepp -> BOOLEAN]
  BY DEF set_hrt_event, RunTypes
<1> QED BY <1>2, <1>3 DEF RunTypes

LEMMA FinishTypes ==
    ASSUME HeapAssumption, TimeAssumption, RunTypes, NEW p \in Tepp, NEW t,
           Consistent(t, evttim, tmevt_heap, due), Finish(p, t)
    PROVE  RunTypes'
<1>1. /\ t \in TIM /\ tmevt_heap[p] \in Seq(Ev) /\ evttim \in [Ev -> EvtTim]
      /\ Latency \in Nat
  BY Params DEF Consistent
<1>2. HrtEvent(p, tmevt_heap[p], evttim, t) \in 0 .. HRTCNT_BOUND \cup {NULL}
  BY <1>1, HrtEventTypes
<1>3. running' = [running EXCEPT ![p] = NULL] /\ late' = [late EXCEPT ![p] = 0]
      /\ hrt' = [hrt EXCEPT ![p] = HrtEvent(p, tmevt_heap[p], evttim, t)] /\ request' = request
  BY DEF Finish
<1>4. 0 \in 0 .. Latency
  BY <1>1
<1> QED BY <1>2, <1>3, <1>4 DEF RunTypes

LEMMA CallbackTypes ==
    ASSUME HeapAssumption, TimeAssumption, RunTypes, OnTime, NEW p \in Tepp, NEW t,
           Consistent(t, evttim, tmevt_heap, due), IsDue(p, t), Callback(p, t),
           hrt' = [hrt EXCEPT ![p] = NULL] \/ UNCHANGED hrt, late' = [late EXCEPT ![p] = 0]
    PROVE  RunTypes'
<1>1. tmevt_heap[p][1] \in Ev /\ Latency \in Nat
  BY FirstIsDue, Params
<1>2. running' = [running EXCEPT ![p] = tmevt_heap[p][1]] /\ request' = request
  BY DEF Callback
<1>3. 0 \in 0 .. Latency
  BY <1>1
<1> QED BY <1>1, <1>2, <1>3 DEF RunTypes

LEMMA TickTypes ==
    ASSUME HeapAssumption, TimeAssumption, RunTypes, Tick
    PROVE  RunTypes'
<1>1. HRTCNT_BOUND \in Nat /\ NULL \notin Nat /\ Latency \in Nat
  BY Params
<1>2. /\ \A p \in Tepp : Pending(p) => late[p] < Latency
      /\ hrt' = [p \in Tepp |-> IF hrt[p] \in {0, NULL} THEN hrt[p] ELSE hrt[p] - 1]
      /\ late' = [p \in Tepp |-> IF Pending(p) THEN late[p] + 1 ELSE 0]
      /\ running' = running /\ request' = request
  BY DEF Tick
<1>3. ASSUME NEW p \in Tepp
      PROVE  /\ (IF hrt[p] \in {0, NULL} THEN hrt[p] ELSE hrt[p] - 1)
                    \in 0 .. HRTCNT_BOUND \cup {NULL}
             /\ (IF Pending(p) THEN late[p] + 1 ELSE 0) \in 0 .. Latency
  <2>1. hrt[p] \in 0 .. HRTCNT_BOUND \cup {NULL} /\ late[p] \in 0 .. Latency
    BY DEF RunTypes
  <2>2. hrt[p] \notin {0, NULL} => hrt[p] - 1 \in 0 .. HRTCNT_BOUND
    BY <1>1, <2>1
  <2>3. Pending(p) => late[p] + 1 \in 0 .. Latency
    BY <1>1, <1>2, <2>1
  <2> QED BY <1>1, <2>1, <2>2, <2>3
<1> HIDE DEF Pending
<1>4. hrt' \in [Tepp -> 0 .. HRTCNT_BOUND \cup {NULL}] /\ late' \in [Tepp -> 0 .. Latency]
  BY <1>2, <1>3
<1> QED BY <1>2, <1>4 DEF RunTypes

LEMMA TypesStep ==
    ASSUME HeapAssumption, TimeAssumption, ConsistentNow, ConsistentNow', OnTime, RunTypes,
           [Next]_vars
    PROVE  RunTypes'
<1>1. /\ tim' \in TIM /\ tmevt_heap' \in [Tepp -> Seq(Ev)] /\ evttim' \in [Ev -> EvtTim]
      /\ evttim \in [Ev -> EvtTim]
  BY DEF ConsistentNow, Consistent
<1>2. Consistent(update_current_evttim(tim), evttim, tmevt_heap, due)
      /\ Consistent(tim, evttim, tmevt_heap, due)
  BY UpdatedNow DEF ConsistentNow
<1>3. CASE Tick
  BY <1>3, TickTypes
<1>4. ASSUME NEW p \in Tepp, SignalTime(p) PROVE RunTypes'
  <2> DEFINE t == update_current_evttim(tim)
  <2>1. CASE IsDue(p, t)
    <3>1. Callback(p, t) /\ hrt' = [hrt EXCEPT ![p] = NULL] /\ late' = [late EXCEPT ![p] = 0]
      BY <1>4, <2>1 DEF SignalTime
    <3> HIDE DEF t
    <3> QED BY <1>2, <2>1, <3>1, CallbackTypes DEF t
  <2>2. CASE ~IsDue(p, t)
    <3>1. Finish(p, t)
      BY <1>4, <2>2 DEF SignalTime
    <3> QED BY <1>2, <3>1, FinishTypes
  <2> QED BY <2>1, <2>2
<1>5. ASSUME NEW p \in Tepp, SignalTimeContinues(p) PROVE RunTypes'
  <2> DEFINE t == IF IsDue(p, tim) THEN tim ELSE update_current_evttim(tim)
  <2>1. Consistent(t, evttim, tmevt_heap, due)
    BY <1>2
  <2>2. CASE IsDue(p, t)
    <3>1. Callback(p, t) /\ hrt' = hrt /\ late' = [late EXCEPT ![p] = 0]
      BY <1>5, <2>2 DEF SignalTimeContinues
    <3> HIDE DEF t
    <3> QED BY <2>1, <2>2, <3>1, CallbackTypes
  <2>3. CASE ~IsDue(p, t)
    <3>1. Finish(p, t)
      BY <1>5, <2>3 DEF SignalTimeContinues
    <3> HIDE DEF t
    <3> QED BY <2>1, <3>1, FinishTypes
  <2> QED BY <2>2, <2>3
<1>6. ASSUME NEW p \in Tepp, set_hrt_event_handler(p) PROVE RunTypes'
  <2>1. tim \in TIM /\ tmevt_heap[p] \in Seq(Ev) /\ Latency \in Nat
    BY <1>2, Params DEF Consistent
  <2>2. HrtEvent(p, tmevt_heap[p], evttim, tim) \in 0 .. HRTCNT_BOUND \cup {NULL}
    BY <1>1, <2>1, HrtEventTypes
  <2>3. /\ request' = [request EXCEPT ![p] = FALSE]
        /\ hrt' = [hrt EXCEPT ![p] = HrtEvent(p, tmevt_heap[p], evttim, tim)]
        /\ late' = [late EXCEPT ![p] = 0] /\ running' = running
    BY <1>6 DEF set_hrt_event_handler
  <2>4. 0 \in 0 .. Latency
    BY <2>1
  <2> QED BY <2>2, <2>3, <2>4 DEF RunTypes
<1>7. ASSUME NEW self \in Prc, NEW e \in Ev, NEW p \in Prc, NEW time \in RelTimes,
             tmevtb_enqueue_reltim(self, p, e, time)
      PROVE  RunTypes'
  <2>1. /\ \E set : set_hrt_event(self, set, tmevt_heap', evttim', tim')
        /\ UNCHANGED <<running, late>>
    BY <1>7 DEF tmevtb_enqueue_reltim
  <2> QED BY <1>1, <2>1, SetHrtTypes
<1>8. ASSUME NEW self \in Prc, NEW e \in Ev, NEW q \in Tepp, tmevtb_dequeue(self, q, e)
      PROVE  RunTypes'
  <2>1. /\ \E set : set_hrt_event(self, set, tmevt_heap', evttim, tim')
        /\ UNCHANGED <<running, late>>
    BY <1>8 DEF tmevtb_dequeue
  <2> QED BY <1>1, <2>1, SetHrtTypes
<1>9. ASSUME NEW self \in Prc, NEW e \in Ev, NEW p \in Prc, mig_tsk(self, p, e)
      PROVE  RunTypes'
  <2>1. /\ \E set : set_hrt_event(self, set, tmevt_heap', evttim, tim')
        /\ UNCHANGED <<running, late>>
    BY <1>9 DEF mig_tsk
  <2> QED BY <1>1, <2>1, SetHrtTypes
<1>10. ASSUME NEW self \in Tepp, NEW adjtim \in {TMAX_ADJTIM, -TMAX_ADJTIM},
              adj_tim(self, adjtim)
       PROVE  RunTypes'
  <2>1. /\ UNCHANGED <<hrt, request>> \/ \E set : set_hrt_event(self, set, tmevt_heap', evttim, tim')
        /\ UNCHANGED <<running, late>>
    BY <1>10 DEF adj_tim
  <2>2. CASE UNCHANGED <<hrt, request>>
    BY <2>1, <2>2 DEF RunTypes
  <2> QED BY <1>1, <2>1, <2>2, SetHrtTypes
<1>11. ASSUME NEW systim \in {0, EVT - 1}, set_tim(systim) PROVE RunTypes'
  BY <1>11 DEF set_tim, RunTypes
<1>12. CASE get_tim
  BY <1>12 DEF get_tim, RunTypes
<1>13. CASE UNCHANGED vars
  BY <1>13 DEF vars, RunTypes
<1> QED BY <1>3, <1>4, <1>5, <1>6, <1>7, <1>8, <1>9, <1>10, <1>11, <1>12, <1>13 DEF Next

LEMMA TypesAlways ==
    ASSUME HeapAssumption, TimeAssumption
    PROVE  Spec /\ []OnTime => []RunTypes
<1>1. Init => RunTypes
  <2>1. HRTCNT_BOUND \in Nat /\ Latency \in Nat
    BY Params
  <2>2. 0 \in 0 .. Latency /\ HRTCNT_BOUND \in 0 .. HRTCNT_BOUND
    BY <2>1
  <2> QED BY <2>2 DEF Init, RunTypes
<1>2. ConsistentNow /\ ConsistentNow' /\ OnTime /\ RunTypes /\ [Next]_vars => RunTypes'
  BY TypesStep
<1> QED BY <1>1, <1>2, ConsistentAlways, PTL DEF Spec

\* The variables of the time keep their types: the timer is never set to more than its
\* bound (time_event.c:421-478).
THEOREM TimeTypes ==
    ASSUME HeapAssumption, TimeAssumption
    PROVE  Spec /\ []OnTime => []TypeOK
<1>1. ConsistentNow /\ RunTypes => TypeOK
  BY DEF ConsistentNow, Consistent, RunTypes, TypeOK
<1> QED BY <1>1, ConsistentAlways, TypesAlways, PTL

----------------------------------------------------------------------------
\* No event happens early

\* The steps that call an event back.
LEMMA CallsInTime ==
    ASSUME HeapAssumption, TimeAssumption, OnTime, RunTypes, NEW p \in Tepp, NEW t,
           Consistent(t, evttim, tmevt_heap, due),
           IF IsDue(p, t) THEN Callback(p, t) ELSE Finish(p, t)
    PROVE  HappensInTime
<1>1. CASE IsDue(p, t)
  <2> DEFINE e == tmevt_heap[p][1]
  <2>1. running' = [running EXCEPT ![p] = e]
    BY <1>1 DEF Callback
  <2>2. due[e] <= 0
    BY <1>1, FirstIsDue
  <2> HIDE DEF e
  <2>3. ASSUME NEW r \in Tepp, running'[r] \notin {NULL, running[r]} PROVE running'[r] = e
    BY <2>1, <2>3 DEF RunTypes
  <2> QED BY <2>2, <2>3 DEF HappensInTime
<1>2. CASE ~IsDue(p, t)
  <2>1. running' = [running EXCEPT ![p] = NULL]
    BY <1>2 DEF Finish
  <2> QED BY <2>1 DEF HappensInTime, RunTypes
<1> QED BY <1>1, <1>2

LEMMA SilentSteps ==
    ASSUME [Next]_vars,
           ~\E p \in Tepp : SignalTime(p) \/ SignalTimeContinues(p)
    PROVE  running' = running
<1>1. CASE Tick
  BY <1>1 DEF Tick
<1>2. ASSUME NEW p \in Tepp, set_hrt_event_handler(p) PROVE running' = running
  BY <1>2 DEF set_hrt_event_handler
<1>3. ASSUME NEW self \in Prc, NEW e \in Ev, NEW p \in Prc, NEW time \in RelTimes,
             tmevtb_enqueue_reltim(self, p, e, time)
      PROVE  running' = running
  BY <1>3 DEF tmevtb_enqueue_reltim
<1>4. ASSUME NEW self \in Prc, NEW e \in Ev, NEW q \in Tepp, tmevtb_dequeue(self, q, e)
      PROVE  running' = running
  BY <1>4 DEF tmevtb_dequeue
<1>5. ASSUME NEW self \in Prc, NEW e \in Ev, NEW p \in Prc, mig_tsk(self, p, e)
      PROVE  running' = running
  BY <1>5 DEF mig_tsk
<1>6. ASSUME NEW self \in Tepp, NEW adjtim \in {TMAX_ADJTIM, -TMAX_ADJTIM},
             adj_tim(self, adjtim)
      PROVE  running' = running
  BY <1>6 DEF adj_tim
<1>7. ASSUME NEW systim \in {0, EVT - 1}, set_tim(systim) PROVE running' = running
  BY <1>7 DEF set_tim
<1>8. CASE get_tim
  BY <1>8 DEF get_tim
<1>9. CASE UNCHANGED vars
  BY <1>9 DEF vars
<1> QED BY <1>1, <1>2, <1>3, <1>4, <1>5, <1>6, <1>7, <1>8, <1>9 DEF Next

\* signal_time calls an event back only when its time has come: time_event.c:742.
THEOREM NeverEarlyHolds ==
    ASSUME HeapAssumption, TimeAssumption
    PROVE  Spec /\ []OnTime => NeverEarly
<1>1. ConsistentNow /\ RunTypes /\ OnTime /\ [Next]_vars => [HappensInTime]_vars
  <2> SUFFICES ASSUME ConsistentNow, RunTypes, OnTime, [Next]_vars PROVE HappensInTime
    OBVIOUS
  <2>1. ASSUME NEW p \in Tepp, SignalTime(p) PROVE HappensInTime
    <3>1. LET t == update_current_evttim(tim)
          IN  IF IsDue(p, t) THEN Callback(p, t) ELSE Finish(p, t)
      BY <2>1 DEF SignalTime
    <3> QED BY <3>1, UpdatedNow, CallsInTime
  <2>2. ASSUME NEW p \in Tepp, SignalTimeContinues(p) PROVE HappensInTime
    <3> DEFINE t == IF IsDue(p, tim) THEN tim ELSE update_current_evttim(tim)
    <3>1. Consistent(t, evttim, tmevt_heap, due)
      BY UpdatedNow DEF ConsistentNow
    <3>2. IF IsDue(p, t) THEN Callback(p, t) ELSE Finish(p, t)
      BY <2>2 DEF SignalTimeContinues
    <3> HIDE DEF t
    <3> QED BY <3>1, <3>2, CallsInTime
  <2>3. CASE running' = running
    BY <2>3 DEF HappensInTime
  <2> QED BY <2>1, <2>2, <2>3, SilentSteps
<1> QED BY <1>1, ConsistentAlways, TypesAlways, PTL DEF Spec, NeverEarly

----------------------------------------------------------------------------
\* The timer occurs in time

LEMMA TopIn ==
    ASSUME NEW h \in Seq(Ev), h # << >>
    PROVE  h[1] \in Range(h) /\ h[1] \in Ev
<1>1. Len(h) \in Nat \ {0}
  BY FrontFacts
<1>2. 1 \in 1 .. Len(h) /\ DOMAIN h = 1 .. Len(h) /\ \A i \in 1 .. Len(h) : h[i] \in Ev
  BY <1>1, LenProperties
<1> QED BY <1>2 DEF Range

LEMMA TopFirst ==
    ASSUME NEW h \in Seq(Ev), NEW d \in [Ev -> Int], HeapOrdered(h, d), NEW e \in Range(h)
    PROVE  d[h[1]] <= d[e] /\ h # << >>
<1>1. PICK n \in 1 .. Len(h) : e = h[n]
  BY LenProperties DEF Range
<1>2. h # << >>
  BY <1>1, LenProperties
<1> QED BY <1>1, <1>2, TopLeast

\* The timer is set to no more than the time until the first event, counted from the
\* current event time.
LEMMA HrtEventSoon ==
    ASSUME HeapAssumption, TimeAssumption, NEW t, NEW ev, NEW hs, NEW d,
           Consistent(t, ev, hs, d), AllNotLate(hs, d), NEW p \in Tepp, hs[p] # << >>
    PROVE  LET v == HrtEvent(p, hs[p], ev, t)
               x == t.elapsed + d[hs[p][1]]
           IN  v \in Nat /\ x \in Int /\ (v <= x \/ v = 0)
<1> DEFINE h == hs[p]
           e == h[1]
           x == t.elapsed + d[e]
           cur == t.current_evttim
<1>1. /\ t \in TIM /\ Ahead(t) <= 2 * TMAX_ADJTIM /\ ev \in [Ev -> EvtTim] /\ d \in [Ev -> Int]
      /\ h \in Seq(Ev)
  BY DEF Consistent
<1>2. e \in Range(h) /\ e \in Ev
  BY <1>1, TopIn
<1>3. Timed(t, ev, d, e) /\ NotLate(d, e)
  BY <1>2 DEF Consistent, AllNotLate, QueuedIn
<1> HIDE DEF e
<1>4. EVTTIM_LE(ev[e], cur, boundary_evttim(t)) <=> x <= 0
  BY <1>1, <1>2, <1>3, DueIs
<1>5. /\ EVT \in Nat \ {0} /\ HRTCNT_BOUND \in Nat \ {0} /\ BOUNDARY_MARGIN \in Nat
      /\ cur \in Int /\ t.elapsed \in Nat /\ d[e] \in Int /\ x \in Int
  <2>1. t.elapsed \in Nat /\ d[e] \in Int
    BY <1>1, <1>2, TimFields
  <2>2. x \in Int
    BY <2>1
  <2>3. EVT \in Nat \ {0} /\ HRTCNT_BOUND \in Nat \ {0} /\ BOUNDARY_MARGIN \in Nat
    BY Params
  <2>4. cur \in Int
    BY <1>1, <2>3, TimFields
  <2> QED BY <2>1, <2>2, <2>3, <2>4
<1>6. x <= EVT - 1
  <2>1. d[e] + t.elapsed + BOUNDARY_MARGIN \in 0 .. EVT - 1
    BY <1>1, <1>2, <1>3, TimedKey
  <2> QED BY <1>5, <2>1
<1>7. ev[e] = (cur + x) % EVT
  BY <1>3 DEF Timed
<1> HIDE DEF x, cur
<1>8. CASE x <= 0
  <2>1. HrtEvent(p, h, ev, t) = 0
    BY <1>4, <1>8 DEF HrtEvent, e, cur
  <2> QED BY <1>5, <2>1 DEF x, e
<1>9. CASE ~(x <= 0)
  <2>1. (((cur + x) % EVT) - cur) % EVT = ((cur + x) - cur) % EVT
    <3> DEFINE y == cur + x
    <3>1. y \in Int
      BY <1>5
    <3> HIDE DEF y
    <3>2. ((y % EVT) - cur) % EVT = (y - cur) % EVT
      BY <1>5, <3>1, ModSum
    <3> QED BY <3>2 DEF y
  <2>2. (cur + x) - cur = x /\ x \in 0 .. EVT - 1
    BY <1>5, <1>6, <1>9
  <2>3. (ev[e] - cur) % EVT = x
    <3>1. x % EVT = x
      BY <1>5, <2>2, ModSmall
    <3> QED BY <1>7, <2>1, <2>2, <3>1
  <2>4. HrtEvent(p, h, ev, t) = Min({HRTCNT_BOUND, x})
    BY <1>4, <1>9, <2>3 DEF HrtEvent, e, cur
  <2>5. Min({HRTCNT_BOUND, x}) \in Nat /\ Min({HRTCNT_BOUND, x}) <= x
    <3>1. CASE HRTCNT_BOUND <= x
      <4>1. Min({HRTCNT_BOUND, x}) = HRTCNT_BOUND
        BY <1>5, <3>1, MinOfTwo
      <4> QED BY <1>5, <3>1, <4>1
    <3>2. CASE x <= HRTCNT_BOUND
      <4>1. Min({HRTCNT_BOUND, x}) = x
        BY <1>5, <3>2, MinOfTwo
      <4> QED BY <1>5, <2>2, <4>1
    <3> QED BY <1>5, <3>1, <3>2
  <2> QED BY <1>5, <2>4, <2>5 DEF x, e
<1> QED BY <1>8, <1>9

\* The timer of one processor.
Timer(p) ==
    tmevt_heap[p] # << >> /\ ~in_signal_time(p) /\ ~request[p] =>
        /\ hrt[p] # NULL
        /\ hrt[p] <= Latency + Max({0, due[tmevt_heap[p][1]]})

LEMMA MaxOrZero ==
    ASSUME NEW x \in Int
    PROVE  /\ Max({0, x}) \in Nat /\ Max({0, x}) >= x
           /\ x <= 0 => Max({0, x}) = 0
           /\ x >= 0 => Max({0, x}) = x
<1>1. CASE x <= 0
  <2>1. Max({0, x}) = 0
    BY <1>1, MaxOfTwo
  <2> QED BY <1>1, <2>1
<1>2. CASE x >= 0
  <2>1. {0, x} = {x, 0}
    OBVIOUS
  <2>2. Max({0, x}) = x
    BY <1>2, <2>1, MaxOfTwo
  <2> QED BY <1>2, <2>2
<1> QED BY <1>1, <1>2

\* The timer stays as it is, and the first event becomes no earlier.
LEMMA TimerKept ==
    ASSUME HeapAssumption, TimeAssumption, ConsistentNow, ConsistentNow', RunTypes,
           NEW p \in Tepp, Timer(p),
           hrt'[p] = hrt[p], request'[p] = request[p], running'[p] = running[p],
           tmevt_heap'[p] # << >> =>
               /\ tmevt_heap'[p][1] \in Range(tmevt_heap[p])
               /\ due'[tmevt_heap'[p][1]] = due[tmevt_heap'[p][1]]
    PROVE  Timer(p)'
<1> SUFFICES ASSUME tmevt_heap'[p] # << >>, running'[p] = NULL, ~request'[p]
             PROVE  /\ hrt'[p] # NULL
                    /\ hrt'[p] <= Latency + Max({0, due'[tmevt_heap'[p][1]]})
  BY DEF Timer, in_signal_time
<1> DEFINE old == due[tmevt_heap[p][1]]
           e == tmevt_heap'[p][1]
<1>1. /\ tmevt_heap[p] \in Seq(Ev) /\ due \in [Ev -> Int] /\ HeapOrdered(tmevt_heap[p], due)
      /\ tmevt_heap'[p] \in Seq(Ev)
  BY DEF ConsistentNow, Consistent, HeapsOf
<1>2. e \in Range(tmevt_heap[p]) /\ e \in Ev /\ due'[e] = due[e]
  BY <1>1, TopIn
<1> HIDE DEF e
<1>3. old <= due[e] /\ tmevt_heap[p] # << >>
  BY <1>1, <1>2, TopFirst
<1>4. old \in Int /\ due[e] \in Int
  BY <1>1, <1>2, <1>3, TopIn
<1>5. hrt[p] # NULL /\ hrt[p] <= Latency + Max({0, old})
  BY <1>3 DEF Timer, in_signal_time
<1>6. hrt[p] \in Nat /\ Latency \in Nat
  <2>1. hrt[p] \in 0 .. HRTCNT_BOUND \cup {NULL}
    BY DEF RunTypes
  <2> QED BY <1>5, <2>1, Params
<1> HIDE DEF old
<1>7. Max({0, old}) <= Max({0, due[e]}) /\ Max({0, old}) \in Nat /\ Max({0, due[e]}) \in Nat
  BY <1>3, <1>4, MaxOrZero
<1>8. hrt[p] <= Latency + Max({0, due[e]})
  BY <1>5, <1>6, <1>7
<1> QED BY <1>2, <1>5, <1>8 DEF e

\* The timer is set.
LEMMA TimerSet ==
    ASSUME HeapAssumption, TimeAssumption, ConsistentNow', OnTime', NEW p \in Tepp,
           NEW ev, hrt'[p] = HrtEvent(p, tmevt_heap'[p], ev, tim'),
           tmevt_heap'[p] # << >> =>
               /\ ev[tmevt_heap'[p][1]] = evttim'[tmevt_heap'[p][1]]
               /\ running'[p] = NULL => tim'.elapsed <= Latency
    PROVE  Timer(p)'
<1> SUFFICES ASSUME tmevt_heap'[p] # << >>, running'[p] = NULL
             PROVE  /\ hrt'[p] # NULL
                    /\ hrt'[p] <= Latency + Max({0, due'[tmevt_heap'[p][1]]})
  BY DEF Timer, in_signal_time
<1> DEFINE v == HrtEvent(p, tmevt_heap'[p], evttim', tim')
           y == due'[tmevt_heap'[p][1]]
           el == tim'.elapsed
<1>1. hrt'[p] = v
  BY DEF HrtEvent
<1>2. /\ Consistent(tim', evttim', tmevt_heap', due')
      /\ AllNotLate(tmevt_heap', due')
  BY DEF ConsistentNow, OnTime, AllNotLate, NotLate, Queued, QueuedIn
<1>3. v \in Nat /\ (v <= el + y \/ v = 0)
  BY <1>2, HrtEventSoon
<1>4. el \in Nat /\ y \in Int /\ Latency \in Nat /\ NULL \notin Nat /\ el <= Latency
  <2>1. /\ tim' \in TIM /\ due' \in [Ev -> Int] /\ tmevt_heap'[p] \in Seq(Ev)
    BY <1>2 DEF Consistent
  <2>2. tmevt_heap'[p][1] \in Ev
    BY <2>1, TopIn
  <2>3. el \in Nat
    BY <2>1 DEF TIM
  <2> QED BY <2>1, <2>2, <2>3, Params
<1> HIDE DEF v, y, el
<1>5. Max({0, y}) \in Nat /\ Max({0, y}) >= y
  BY <1>4, MaxOrZero
<1>6. v <= Latency + Max({0, y})
  BY <1>3, <1>4, <1>5
<1> QED BY <1>1, <1>3, <1>4, <1>6 DEF y

\* A processor that has been requested to set its timer does it before the current
\* event time is older than the delay of an interrupt.
RequestInTime == \A p \in Tepp : request[p] /\ ~in_signal_time(p) => tim.elapsed <= late[p]

TimersInTime == RequestInTime /\ \A p \in Tepp : Timer(p)

LEMMA JustRead ==
    ASSUME HeapAssumption, TimeAssumption, RunTypes', tim'.elapsed = 0
    PROVE  RequestInTime' /\ tim'.elapsed <= Latency
<1>1. \A p \in Tepp : late'[p] \in 0 .. Latency
  BY DEF RunTypes
<1>2. Latency \in Nat
  BY Params
<1> QED BY <1>1, <1>2 DEF RequestInTime

LEMMA SetHrtFacts ==
    ASSUME RunTypes, NEW self, NEW set, NEW heaps, NEW ev, NEW t,
           set_hrt_event(self, set, heaps, ev, t), NEW r \in Tepp
    PROVE  /\ r \notin set => hrt'[r] = hrt[r] /\ request'[r] = request[r]
           /\ r \in set /\ r = self => hrt'[r] = HrtEvent(r, heaps[r], ev, t)
           /\ r \in set /\ r # self => request'[r]
           /\ request'[r] => request[r] \/ (r # self /\ r \in set)
BY DEF set_hrt_event, RunTypes

\* Another heap than the one that a call changes.
LEMMA OtherHeap ==
    ASSUME HeapAssumption, TimeAssumption, ConsistentNow, ConsistentNow', RunTypes,
           NEW q \in Tepp, NEW r \in Tepp \ {q}, Timer(r), NEW e \in Ev, Others(due, due', e),
           e \in Range(tmevt_heap[q]) \/ e \in Range(tmevt_heap'[q]),
           tmevt_heap'[r] = tmevt_heap[r],
           hrt'[r] = hrt[r], request'[r] = request[r], running'[r] = running[r]
    PROVE  Timer(r)'
<1>1. tmevt_heap[r] \in Seq(Ev)
  BY DEF ConsistentNow, Consistent
<1>2. e \notin Range(tmevt_heap[r])
  BY DEF ConsistentNow, Consistent, HeapsOf
<1>3. ASSUME tmevt_heap'[r] # << >>
      PROVE  /\ tmevt_heap'[r][1] \in Range(tmevt_heap[r])
             /\ due'[tmevt_heap'[r][1]] = due[tmevt_heap'[r][1]]
  BY <1>1, <1>2, <1>3, TopIn DEF Others
<1> QED BY <1>3, TimerKept

LEMMA EnqueueTimer ==
    ASSUME HeapAssumption, TimeAssumption, ConsistentNow, OnTime, OnTime', RunTypes, RunTypes',
           TimersInTime,
           NEW self \in Prc, NEW p \in Prc, NEW e \in Ev, NEW time \in RelTimes,
           tmevtb_enqueue_reltim(self, p, e, time)
    PROVE  TimersInTime'
<1> DEFINE q == HeapOwner(p)
           set == IF ~in_signal_time(q) /\ tmevt_heap'[q][1] = e THEN {q} ELSE {}
<1>1. /\ ConsistentNow' /\ tim'.elapsed = 0 /\ Others(due, due', e) /\ q \in Tepp
      /\ \A r \in Tepp \ {q} : tmevt_heap'[r] = tmevt_heap[r]
      /\ Range(tmevt_heap'[q]) = Range(tmevt_heap[q]) \cup {e}
  BY EnqueueStep
<1>2. set_hrt_event(self, set, tmevt_heap', evttim', tim') /\ UNCHANGED <<running, late>>
  BY DEF tmevtb_enqueue_reltim
<1>3. RequestInTime' /\ tim'.elapsed <= Latency
  BY <1>1, JustRead
<1> HIDE DEF q
<1>4. ASSUME NEW r \in Tepp PROVE Timer(r)'
  <2>1. CASE r # q
    <3>1. r \notin set
      BY <2>1
    <3>2. hrt'[r] = hrt[r] /\ request'[r] = request[r] /\ running'[r] = running[r]
      BY <1>2, <3>1, SetHrtFacts
    <3>3. Timer(r)
      BY DEF TimersInTime
    <3> QED BY <1>1, <2>1, <3>2, <3>3, OtherHeap
  <2>2. CASE r = q /\ r \in set
    <3>1. CASE r = self
      <4>1. hrt'[r] = HrtEvent(r, tmevt_heap'[r], evttim', tim')
        BY <1>2, <2>2, <3>1, SetHrtFacts
      <4> QED BY <1>1, <1>3, <4>1, TimerSet
    <3>2. CASE r # self
      <4>1. request'[r]
        BY <1>2, <2>2, <3>2, SetHrtFacts
      <4> QED BY <4>1 DEF Timer
    <3> QED BY <3>1, <3>2
  <2>3. CASE r = q /\ r \notin set
    <3>1. hrt'[r] = hrt[r] /\ request'[r] = request[r] /\ running'[r] = running[r]
      BY <1>2, <2>3, SetHrtFacts
    <3>2. Timer(r)
      BY DEF TimersInTime
    <3>3. CASE in_signal_time(r)
      BY <3>1, <3>3 DEF Timer, in_signal_time
    <3>4. CASE ~in_signal_time(r)
      <4>1. tmevt_heap'[r][1] # e
        BY <2>3, <3>4
      <4>2. ASSUME tmevt_heap'[r] # << >>
            PROVE  /\ tmevt_heap'[r][1] \in Range(tmevt_heap[r])
                   /\ due'[tmevt_heap'[r][1]] = due[tmevt_heap'[r][1]]
        <5>1. tmevt_heap'[r] \in Seq(Ev)
          BY <1>1 DEF ConsistentNow, Consistent
        <5>2. tmevt_heap'[r][1] \in Range(tmevt_heap'[r]) /\ tmevt_heap'[r][1] \in Ev
          BY <4>2, <5>1, TopIn
        <5> QED BY <1>1, <2>3, <4>1, <5>2 DEF Others
      <4> QED BY <1>1, <3>1, <3>2, <4>2, TimerKept
    <3> QED BY <3>3, <3>4
  <2> QED BY <2>1, <2>2, <2>3
<1> QED BY <1>3, <1>4 DEF TimersInTime

LEMMA DequeueTimer ==
    ASSUME HeapAssumption, TimeAssumption, ConsistentNow, OnTime, OnTime', RunTypes, RunTypes',
           TimersInTime,
           NEW self \in Prc, NEW q \in Tepp, NEW e \in Ev, tmevtb_dequeue(self, q, e)
    PROVE  TimersInTime'
<1> DEFINE top == tmevt_heap[q][1] = e /\ ~in_signal_time(q)
           set == IF top THEN {q} ELSE {}
<1>1. /\ ConsistentNow' /\ Others(evttim, evttim', e) /\ Others(due, due', e)
      /\ \A r \in Tepp \ {q} : tmevt_heap'[r] = tmevt_heap[r]
      /\ Range(tmevt_heap'[q]) = Range(tmevt_heap[q]) \ {e}
      /\ ~QueuedIn(e, tmevt_heap')
  BY DequeueStep
<1>2. /\ set_hrt_event(self, set, tmevt_heap', evttim, tim') /\ UNCHANGED <<running, late>>
      /\ e \in Range(tmevt_heap[q])
      /\ tim' = IF top THEN update_current_evttim(tim) ELSE tim
  BY DEF tmevtb_dequeue
<1>3. top => tim'.elapsed = 0
  BY <1>2, UpdatedNow
<1> HIDE DEF top
<1>4. RequestInTime'
  <2>1. CASE top
    BY <1>3, <2>1, JustRead
  <2>2. CASE ~top
    <3>1. ASSUME NEW r \in Tepp PROVE request'[r] => request[r]
      BY <1>2, <2>2, SetHrtFacts
    <3> QED BY <1>2, <2>2, <3>1 DEF TimersInTime, RequestInTime, in_signal_time
  <2> QED BY <2>1, <2>2
<1>5. ASSUME NEW r \in Tepp, tmevt_heap'[r] # << >>
      PROVE  /\ tmevt_heap'[r][1] \in Range(tmevt_heap'[r]) /\ tmevt_heap'[r][1] \in Ev
             /\ tmevt_heap'[r][1] # e
  <2>1. tmevt_heap'[r] \in Seq(Ev)
    BY <1>1 DEF ConsistentNow, Consistent
  <2>2. tmevt_heap'[r][1] \in Range(tmevt_heap'[r]) /\ tmevt_heap'[r][1] \in Ev
    BY <1>5, <2>1, TopIn
  <2> QED BY <1>1, <2>2 DEF QueuedIn
<1>6. ASSUME NEW r \in Tepp PROVE Timer(r)'
  <2>1. CASE r # q
    <3>1. r \notin set
      BY <2>1
    <3>2. hrt'[r] = hrt[r] /\ request'[r] = request[r] /\ running'[r] = running[r]
      BY <1>2, <3>1, SetHrtFacts
    <3>3. Timer(r)
      BY DEF TimersInTime
    <3> QED BY <1>1, <1>2, <2>1, <3>2, <3>3, OtherHeap
  <2>2. CASE r = q /\ r \in set
    <3>1. CASE r = self
      <4>1. hrt'[r] = HrtEvent(r, tmevt_heap'[r], evttim, tim')
        BY <1>2, <2>2, <3>1, SetHrtFacts
      <4>2. tmevt_heap'[r] # << >> => evttim[tmevt_heap'[r][1]] = evttim'[tmevt_heap'[r][1]]
        BY <1>1, <1>5 DEF Others
      <4>3. tim'.elapsed <= Latency
        BY <1>3, <2>2, JustRead
      <4> QED BY <1>1, <4>1, <4>2, <4>3, TimerSet
    <3>2. CASE r # self
      <4>1. request'[r]
        BY <1>2, <2>2, <3>2, SetHrtFacts
      <4> QED BY <4>1 DEF Timer
    <3> QED BY <3>1, <3>2
  <2>3. CASE r = q /\ r \notin set
    <3>1. hrt'[r] = hrt[r] /\ request'[r] = request[r] /\ running'[r] = running[r]
      BY <1>2, <2>3, SetHrtFacts
    <3>2. Timer(r)
      BY DEF TimersInTime
    <3>3. ASSUME tmevt_heap'[r] # << >>
          PROVE  /\ tmevt_heap'[r][1] \in Range(tmevt_heap[r])
                 /\ due'[tmevt_heap'[r][1]] = due[tmevt_heap'[r][1]]
      BY <1>1, <1>5, <2>3, <3>3 DEF Others
    <3> QED BY <1>1, <3>1, <3>2, <3>3, TimerKept
  <2> QED BY <2>1, <2>2, <2>3
<1> QED BY <1>4, <1>6 DEF TimersInTime

LEMMA SameTimer ==
    ASSUME NEW p \in Tepp, Timer(p), UNCHANGED <<tmevt_heap, due>>,
           hrt'[p] = hrt[p], request'[p] = request[p], running'[p] = running[p]
    PROVE  Timer(p)'
BY DEF Timer, in_signal_time

LEMMA AdjustTimer ==
    ASSUME HeapAssumption, TimeAssumption, ConsistentNow, OnTime, OnTime', RunTypes, RunTypes',
           TimersInTime,
           NEW self \in Tepp, NEW adjtim \in {TMAX_ADJTIM, -TMAX_ADJTIM}, adj_tim(self, adjtim)
    PROVE  TimersInTime'
<1>1. ConsistentNow' /\ tim'.elapsed = 0
  BY AdjustStep
<1>2. RequestInTime' /\ tim'.elapsed <= Latency
  BY <1>1, JustRead
<1>3. UNCHANGED <<evttim, tmevt_heap, running, late>>
  BY DEF adj_tim
<1>4. CASE UNCHANGED <<hrt, request, due>>
  <2>1. ASSUME NEW r \in Tepp PROVE Timer(r)'
    <3>1. Timer(r)
      BY DEF TimersInTime
    <3> QED BY <1>3, <1>4, <3>1, SameTimer
  <2> QED BY <1>2, <2>1 DEF TimersInTime
<1>5. CASE set_hrt_event(self, {p \in Tepp : ~in_signal_time(p)}, tmevt_heap', evttim, tim')
  <2> DEFINE set == {p \in Tepp : ~in_signal_time(p)}
  <2>1. ASSUME NEW r \in Tepp PROVE Timer(r)'
    <3>1. CASE in_signal_time(r)
      BY <1>3, <3>1 DEF Timer, in_signal_time
    <3>2. CASE ~in_signal_time(r) /\ r = self
      <4>1. r \in set /\ set_hrt_event(self, set, tmevt_heap', evttim, tim')
        BY <1>5, <3>2
      <4> HIDE DEF set
      <4>2. hrt'[r] = HrtEvent(r, tmevt_heap'[r], evttim, tim')
        BY <3>2, <4>1, SetHrtFacts
      <4> QED BY <1>1, <1>2, <1>3, <4>2, TimerSet
    <3>3. CASE ~in_signal_time(r) /\ r # self
      <4>1. r \in set /\ set_hrt_event(self, set, tmevt_heap', evttim, tim')
        BY <1>5, <3>3
      <4> HIDE DEF set
      <4>2. request'[r]
        BY <3>3, <4>1, SetHrtFacts
      <4> QED BY <4>2 DEF Timer
    <3> QED BY <3>1, <3>2, <3>3
  <2> QED BY <1>2, <2>1 DEF TimersInTime
<1>6. UNCHANGED <<hrt, request, due>>
      \/ set_hrt_event(self, {p \in Tepp : ~in_signal_time(p)}, tmevt_heap', evttim, tim')
  BY DEF adj_tim
<1> QED BY <1>4, <1>5, <1>6

LEMMA SystimTimer ==
    ASSUME HeapAssumption, TimeAssumption, RunTypes', TimersInTime, tim'.elapsed = 0,
           UNCHANGED <<evttim, tmevt_heap, running, hrt, request, late, due>>
    PROVE  TimersInTime'
<1>1. ASSUME NEW r \in Tepp PROVE Timer(r)'
  <2>1. Timer(r)
    BY DEF TimersInTime
  <2> QED BY <2>1, SameTimer
<1>2. RequestInTime'
  BY JustRead
<1> QED BY <1>1, <1>2 DEF TimersInTime

LEMMA HandlerTimer ==
    ASSUME HeapAssumption, TimeAssumption, ConsistentNow, OnTime', RunTypes, TimersInTime,
           NEW p \in Tepp, set_hrt_event_handler(p)
    PROVE  TimersInTime'
<1>1. /\ request[p] /\ request' = [request EXCEPT ![p] = FALSE]
      /\ hrt' = [hrt EXCEPT ![p] = HrtEvent(p, tmevt_heap[p], evttim, tim)]
      /\ late' = [late EXCEPT ![p] = 0]
      /\ UNCHANGED <<tim, evttim, tmevt_heap, running, due>>
  BY DEF set_hrt_event_handler
<1>2. ConsistentNow'
  BY HandlerStep
<1>3. ASSUME NEW r \in Tepp, r # p
      PROVE  hrt'[r] = hrt[r] /\ request'[r] = request[r] /\ late'[r] = late[r]
  BY <1>1, <1>3 DEF RunTypes
<1>4. ~request'[p] /\ hrt'[p] = HrtEvent(p, tmevt_heap'[p], evttim, tim')
  BY <1>1 DEF RunTypes
<1>5. RequestInTime'
  BY <1>1, <1>3, <1>4 DEF TimersInTime, RequestInTime, in_signal_time
<1>6. running'[p] = NULL => tim'.elapsed <= Latency
  <2>1. ASSUME running[p] = NULL PROVE tim.elapsed <= Latency
    <3>1. tim.elapsed <= late[p]
      BY <1>1, <2>1 DEF TimersInTime, RequestInTime, in_signal_time
    <3>2. late[p] \in 0 .. Latency /\ Latency \in Nat
      BY Params DEF RunTypes
    <3>3. tim.elapsed \in Nat
      BY TimFields DEF ConsistentNow, Consistent
    <3> QED BY <3>1, <3>2, <3>3
  <2> QED BY <1>1, <2>1
<1>7. Timer(p)'
  BY <1>1, <1>2, <1>4, <1>6, TimerSet
<1>8. ASSUME NEW r \in Tepp, r # p PROVE Timer(r)'
  <2>1. Timer(r)
    BY DEF TimersInTime
  <2> QED BY <1>1, <1>3, <1>8, <2>1, SameTimer
<1> QED BY <1>5, <1>7, <1>8 DEF TimersInTime

LEMMA FinishTimer ==
    ASSUME HeapAssumption, TimeAssumption, OnTime', RunTypes, RunTypes', TimersInTime,
           NEW p \in Tepp, NEW t, Consistent(t, evttim, tmevt_heap, due), t.elapsed = 0, Finish(p, t)
    PROVE  TimersInTime'
<1>1. /\ tim' = t /\ hrt' = [hrt EXCEPT ![p] = HrtEvent(p, tmevt_heap[p], evttim, t)]
      /\ running' = [running EXCEPT ![p] = NULL]
      /\ UNCHANGED <<evttim, tmevt_heap, request, due>>
  BY DEF Finish
<1>2. ConsistentNow' /\ tim'.elapsed <= Latency /\ RequestInTime'
  BY <1>1, FinishStep, JustRead
<1>3. hrt'[p] = HrtEvent(p, tmevt_heap'[p], evttim, tim')
  BY <1>1 DEF RunTypes
<1>4. Timer(p)'
  BY <1>1, <1>2, <1>3, TimerSet
<1>5. ASSUME NEW r \in Tepp, r # p PROVE Timer(r)'
  <2>1. Timer(r)
    BY DEF TimersInTime
  <2>2. hrt'[r] = hrt[r] /\ request'[r] = request[r] /\ running'[r] = running[r]
    BY <1>1, <1>5 DEF RunTypes
  <2> QED BY <1>1, <2>1, <2>2, SameTimer
<1> QED BY <1>2, <1>4, <1>5 DEF TimersInTime

\* The timers of the other processors do not depend on the callback, and that of the
\* processor itself is set when signal_time has finished.
LEMMA CallbackTimer ==
    ASSUME HeapAssumption, TimeAssumption, ConsistentNow, OnTime, RunTypes, RunTypes', TimersInTime,
           NEW p \in Tepp, NEW t, Consistent(t, evttim, tmevt_heap, due), IsDue(p, t),
           Callback(p, t), hrt' = [hrt EXCEPT ![p] = NULL] \/ UNCHANGED hrt,
           late' = [late EXCEPT ![p] = 0], t.elapsed = 0 \/ t = tim
    PROVE  TimersInTime'
<1> DEFINE e == tmevt_heap[p][1]
<1>1. ConsistentNow'
  BY CallbackStep
<1>2. e \in Range(tmevt_heap[p]) /\ e \in Ev /\ NULL \notin Ev
  BY FirstIsDue, Params
<1>3. running' = [running EXCEPT ![p] = e] /\ tim' = t /\ request' = request
  BY DEF Callback
<1>4. Others(due, due', e) /\ \A r \in Tepp \ {p} : tmevt_heap'[r] = tmevt_heap[r]
  <2>1. \/ Forget({e})
        \/ \E c : due' = [due EXCEPT ![e] = @ + c]
    BY DEF Callback
  <2>2. due \in [Ev -> Int] /\ tmevt_heap \in [Tepp -> Seq(Ev)]
    BY DEF ConsistentNow, Consistent
  <2>3. \E g : tmevt_heap' = [tmevt_heap EXCEPT ![p] = g]
    BY DEF Callback
  <2>4. Others(due, due', e)
    BY <2>1, <2>2 DEF Forget, Others
  <2> QED BY <2>2, <2>3, <2>4
<1> HIDE DEF e
<1>5. running'[p] = e /\ e # NULL
  BY <1>2, <1>3 DEF RunTypes
<1>6. ASSUME NEW r \in Tepp, r # p
      PROVE  /\ hrt'[r] = hrt[r] /\ request'[r] = request[r] /\ running'[r] = running[r]
             /\ late'[r] = late[r]
  BY <1>3, <1>6 DEF RunTypes
<1>7. Timer(p)'
  BY <1>5 DEF Timer, in_signal_time
<1>8. ASSUME NEW r \in Tepp, r # p PROVE Timer(r)'
  <2>1. Timer(r)
    BY DEF TimersInTime
  <2> QED BY <1>1, <1>2, <1>4, <1>6, <1>8, <2>1, OtherHeap
<1>9. RequestInTime'
  <2>1. CASE t.elapsed = 0
    BY <1>3, <2>1, JustRead
  <2>2. CASE t = tim
    BY <1>3, <1>5, <1>6, <2>2 DEF TimersInTime, RequestInTime, in_signal_time
  <2> QED BY <2>1, <2>2
<1> QED BY <1>7, <1>8, <1>9 DEF TimersInTime

LEMMA TickTimer ==
    ASSUME HeapAssumption, TimeAssumption, ConsistentNow, OnTime, RunTypes, TimersInTime, Tick
    PROVE  TimersInTime'
<1>1. /\ tim' = [tim EXCEPT !.elapsed = @ + 1]
      /\ hrt' = [p \in Tepp |-> IF hrt[p] \in {0, NULL} THEN hrt[p] ELSE hrt[p] - 1]
      /\ late' = [p \in Tepp |-> IF Pending(p) THEN late[p] + 1 ELSE 0]
      /\ due' = [e \in Ev |-> IF Queued(e) THEN Max({due[e] - 1, -MaxLate}) ELSE due[e]]
      /\ UNCHANGED <<tmevt_heap, running, request>>
  BY DEF Tick
<1>2. /\ tim \in TIM /\ due \in [Ev -> Int] /\ tmevt_heap \in [Tepp -> Seq(Ev)]
      /\ Latency \in Nat /\ NULL \notin Nat
  BY Params DEF ConsistentNow, Consistent
<1>3. RequestInTime'
  <2>1. ASSUME NEW p \in Tepp, request[p], ~in_signal_time(p) PROVE tim'.elapsed <= late'[p]
    <3>1. tim.elapsed <= late[p]
      BY <2>1 DEF TimersInTime, RequestInTime
    <3>2. late'[p] = late[p] + 1
      BY <1>1, <2>1 DEF Pending
    <3>3. tim'.elapsed = tim.elapsed + 1 /\ tim.elapsed \in Nat
      BY <1>1, <1>2 DEF TIM
    <3>4. late[p] \in Nat
      BY <1>2 DEF RunTypes
    <3> QED BY <3>1, <3>2, <3>3, <3>4
  <2> QED BY <1>1, <2>1 DEF RequestInTime, in_signal_time
<1>4. ASSUME NEW p \in Tepp PROVE Timer(p)'
  <2> SUFFICES ASSUME tmevt_heap[p] # << >>, ~in_signal_time(p), ~request[p]
               PROVE  /\ hrt'[p] # NULL
                      /\ hrt'[p] <= Latency + Max({0, due'[tmevt_heap[p][1]]})
    BY <1>1 DEF Timer, in_signal_time
  <2> DEFINE e == tmevt_heap[p][1]
             x == due[e]
  <2>1. e \in Range(tmevt_heap[p]) /\ e \in Ev
    BY <1>2, TopIn
  <2>2. Queued(e) /\ x \in Int
    BY <1>2, <2>1 DEF Queued
  <2>3. hrt[p] # NULL /\ hrt[p] <= Latency + Max({0, x})
    BY DEF TimersInTime, Timer
  <2> HIDE DEF e
  <2>4. due'[e] = x - 1
    <3>1. due'[e] = Max({x - 1, -MaxLate})
      BY <1>1, <2>1, <2>2
    <3>2. x >= -BOUNDARY_MARGIN
      BY <2>1, <2>2 DEF OnTime
    <3>3. /\ EVT \in Nat /\ BOUNDARY_MARGIN \in Nat /\ TMAX_RELTIM \in Nat /\ TSTEP_HRTCNT \in Nat
          /\ TMAX_ADJTIM \in Nat
          /\ TMAX_RELTIM + TSTEP_HRTCNT + 2 * TMAX_ADJTIM + BOUNDARY_MARGIN < EVT
      BY Params
    <3> HIDE DEF x
    <3>4. x - 1 \in Int /\ -MaxLate \in Int /\ x - 1 >= -MaxLate
      BY <2>2, <3>2, <3>3 DEF MaxLate
    <3> QED BY <3>1, <3>4, MaxOfTwo
  <2>5. hrt[p] \in Nat
    <3>1. hrt[p] \in 0 .. HRTCNT_BOUND \cup {NULL}
      BY DEF RunTypes
    <3> QED BY <2>3, <3>1, Params
  <2>6. hrt'[p] = IF hrt[p] = 0 THEN 0 ELSE hrt[p] - 1
    BY <1>1, <2>3, <2>5
  <2> HIDE DEF x
  <2>7. /\ Max({0, x}) \in Nat /\ Max({0, x - 1}) \in Nat
        /\ Max({0, x}) <= 1 + Max({0, x - 1}) /\ (x <= 0 => Max({0, x}) = 0)
    <3>1. x - 1 \in Int
      BY <2>2
    <3>2. /\ Max({0, x}) \in Nat /\ (x <= 0 => Max({0, x}) = 0) /\ (x >= 0 => Max({0, x}) = x)
      BY <2>2, MaxOrZero
    <3>3. Max({0, x - 1}) \in Nat /\ Max({0, x - 1}) >= x - 1
      BY <3>1, MaxOrZero
    <3> QED BY <2>2, <3>2, <3>3
  <2>8. hrt'[p] \in Nat /\ hrt'[p] <= Latency + Max({0, x - 1})
    BY <1>2, <2>3, <2>5, <2>6, <2>7
  <2> QED BY <1>2, <2>4, <2>8 DEF e
<1> QED BY <1>3, <1>4 DEF TimersInTime

LEMMA TimerStep ==
    ASSUME HeapAssumption, TimeAssumption, "mig_tsk" \notin Calls,
           ConsistentNow, OnTime, OnTime', RunTypes, RunTypes', TimersInTime, [Next]_vars
    PROVE  TimersInTime'
<1>1. CASE Tick
  BY <1>1, TickTimer
<1>2. ASSUME NEW p \in Tepp, SignalTime(p) PROVE TimersInTime'
  <2> DEFINE t == update_current_evttim(tim)
  <2>1. Consistent(t, evttim, tmevt_heap, due) /\ t.elapsed = 0
    BY UpdatedNow
  <2>2. CASE IsDue(p, t)
    <3>1. Callback(p, t) /\ hrt' = [hrt EXCEPT ![p] = NULL] /\ late' = [late EXCEPT ![p] = 0]
      BY <1>2, <2>2 DEF SignalTime
    <3> HIDE DEF t
    <3> QED BY <2>1, <2>2, <3>1, CallbackTimer
  <2>3. CASE ~IsDue(p, t)
    <3>1. Finish(p, t)
      BY <1>2, <2>3 DEF SignalTime
    <3> HIDE DEF t
    <3> QED BY <2>1, <3>1, FinishTimer
  <2> QED BY <2>2, <2>3
<1>3. ASSUME NEW p \in Tepp, SignalTimeContinues(p) PROVE TimersInTime'
  <2> DEFINE t == IF IsDue(p, tim) THEN tim ELSE update_current_evttim(tim)
  <2>1. /\ Consistent(t, evttim, tmevt_heap, due)
        /\ t.elapsed = 0 \/ t = tim
    BY UpdatedNow DEF ConsistentNow
  <2>2. CASE IsDue(p, t)
    <3>1. Callback(p, t) /\ hrt' = hrt /\ late' = [late EXCEPT ![p] = 0]
      BY <1>3, <2>2 DEF SignalTimeContinues
    <3> HIDE DEF t
    <3> QED BY <2>1, <2>2, <3>1, CallbackTimer
  <2>3. CASE ~IsDue(p, t)
    <3>1. Finish(p, t)
      BY <1>3, <2>3 DEF SignalTimeContinues
    <3>2. t = update_current_evttim(tim)
      BY <2>3
    <3>3. t.elapsed = 0
      BY <3>2, UpdatedNow
    <3> HIDE DEF t
    <3> QED BY <2>1, <3>1, <3>3, FinishTimer
  <2> QED BY <2>2, <2>3
<1>4. ASSUME NEW p \in Tepp, set_hrt_event_handler(p) PROVE TimersInTime'
  BY <1>4, HandlerTimer
<1>5. ASSUME NEW self \in Prc, NEW e \in Ev, NEW p \in Prc, NEW time \in RelTimes,
             tmevtb_enqueue_reltim(self, p, e, time)
      PROVE  TimersInTime'
  BY <1>5, EnqueueTimer
<1>6. ASSUME NEW self \in Prc, NEW e \in Ev, NEW q \in Tepp, tmevtb_dequeue(self, q, e)
      PROVE  TimersInTime'
  BY <1>6, DequeueTimer
<1>7. ASSUME NEW self \in Tepp, NEW adjtim \in {TMAX_ADJTIM, -TMAX_ADJTIM}, adj_tim(self, adjtim)
      PROVE  TimersInTime'
  BY <1>7, AdjustTimer
<1>8. ASSUME NEW systim \in {0, EVT - 1}, set_tim(systim) PROVE TimersInTime'
  <2>1. tim'.elapsed = 0 /\ UNCHANGED <<evttim, tmevt_heap, running, hrt, request, late, due>>
    BY <1>8, SetStep DEF set_tim
  <2> QED BY <2>1, SystimTimer
<1>9. CASE get_tim
  <2>1. tim'.elapsed = 0 /\ UNCHANGED <<evttim, tmevt_heap, running, hrt, request, late, due>>
    BY <1>9, UpdatedNow DEF get_tim
  <2> QED BY <2>1, SystimTimer
<1>10. CASE UNCHANGED vars
  BY <1>10 DEF vars, TimersInTime, RequestInTime, Timer, in_signal_time
<1> QED BY <1>1, <1>2, <1>3, <1>4, <1>5, <1>6, <1>7, <1>8, <1>9, <1>10 DEF Next

\* Without the migration of tasks that wait with a time-out, the timer of every
\* processor occurs in time for its first event, also after an interrupt of another
\* processor that is delayed, and after signal_time
\* (time_event.c:421-478, :558-562, :602-606, :641-645, :762-767).
THEOREM TimerInTimeHolds ==
    ASSUME HeapAssumption, TimeAssumption, "mig_tsk" \notin Calls
    PROVE  Spec /\ []OnTime => []TimerInTime
<1>1. Init => TimersInTime
  <2>1. ASSUME Init, NEW p \in Tepp PROVE Timer(p)
    BY <2>1 DEF Init, Timer
  <2>2. ASSUME Init PROVE RequestInTime
    BY <2>2 DEF Init, RequestInTime
  <2> QED BY <2>1, <2>2 DEF TimersInTime
<1>2. ConsistentNow /\ OnTime /\ OnTime' /\ RunTypes /\ RunTypes' /\ TimersInTime /\ [Next]_vars
         => TimersInTime'
  BY TimerStep
<1>3. TimersInTime => TimerInTime
  BY DEF TimersInTime, TimerInTime, Timer
<1> QED BY <1>1, <1>2, <1>3, ConsistentAlways, TypesAlways, PTL DEF Spec

----------------------------------------------------------------------------
\* The system time

\* The system time has advanced by n at most.
Moved(t, u, n) == \E k \in 0 .. n : Systim(u) = (Systim(t) + k) % (2 * EVT)

LEMMA SystimTypes ==
    ASSUME HeapAssumption, TimeAssumption, NEW t \in TIM
    PROVE  Systim(t) \in 0 .. 2 * EVT - 1 /\ 2 * EVT \in Nat \ {0}
<1> DEFINE x == t.systim_offset + t.monotonic_evttim
           M == 2 * EVT
<1>1. EVT \in Nat \ {0}
  BY Params
<1>2. x \in Int /\ M \in Nat \ {0}
  BY <1>1, TimFields
<1> HIDE DEF x, M
<1>3. x % M \in 0 .. M - 1
  BY <1>2, ModFacts
<1> QED BY <1>2, <1>3 DEF x, M, Systim

LEMMA NotMoved ==
    ASSUME HeapAssumption, TimeAssumption, NEW t \in TIM, NEW u, NEW n \in Nat,
           u.systim_offset = t.systim_offset, u.monotonic_evttim = t.monotonic_evttim
    PROVE  Moved(t, u, n)
<1> DEFINE s == Systim(t)
           M == 2 * EVT
<1>1. Systim(u) = s
  BY DEF Systim
<1>2. s \in 0 .. M - 1 /\ M \in Nat \ {0}
  BY SystimTypes
<1> HIDE DEF s, M
<1>3. s + 0 = s /\ 0 \in 0 .. n
  BY <1>2
<1>4. s % M = s
  BY <1>2, ModSmall
<1>5. Systim(u) = (s + 0) % M
  BY <1>1, <1>3, <1>4
<1> QED BY <1>3, <1>5 DEF Moved, s, M

LEMMA MovedTwice ==
    ASSUME HeapAssumption, TimeAssumption, NEW t \in TIM, NEW u \in TIM, NEW w,
           NEW m \in Nat, NEW n \in Nat, Moved(t, u, m), Moved(u, w, n)
    PROVE  Moved(t, w, m + n)
<1> DEFINE M == 2 * EVT
           s == Systim(t)
<1>1. M \in Nat \ {0} /\ s \in Int
  <2>1. s \in 0 .. M - 1 /\ M \in Nat \ {0}
    BY SystimTypes
  <2> HIDE DEF s, M
  <2> QED BY <2>1
<1>2. PICK j \in 0 .. m : Systim(u) = (s + j) % M
  BY DEF Moved
<1>3. PICK k \in 0 .. n : Systim(w) = (Systim(u) + k) % M
  BY DEF Moved
<1> HIDE DEF s, M
<1> DEFINE x == s + j
<1>4. x \in Int /\ k \in Int /\ j + k \in 0 .. m + n /\ x + k = s + (j + k)
  BY <1>1
<1>5. ((x % M) + k) % M = (x + k) % M
  <2> HIDE DEF x
  <2> QED BY <1>1, <1>4, ModSum
<1>6. Systim(w) = (x + k) % M
  <2>1. Systim(u) = x % M
    BY <1>2
  <2> HIDE DEF x
  <2> QED BY <1>3, <1>5, <2>1
<1>7. Systim(w) = (s + (j + k)) % M
  <2> HIDE DEF x
  <2> QED BY <1>4, <1>6
<1> QED BY <1>4, <1>7 DEF Moved, s, M

\* However far the event times wrap around, the carry that goes to the offset keeps
\* the system time: the current event time catches up with the most advanced one, and
\* only what it advances beyond that counts.
LEMMA SystimAdvance ==
    ASSUME HeapAssumption, TimeAssumption, NEW t \in TIM, NEW d \in 0 .. EVT - 1
    PROVE  Moved(t, Advance(t, d), d)
<1> DEFINE u == Advance(t, d)
           new == (t.current_evttim + d) % EVT
           cur == t.current_evttim
           mono == t.monotonic_evttim
           off == t.systim_offset
           a == Ahead(t)
           k == d - a
           M == 2 * EVT
<1>1. /\ EVT \in Nat \ {0} /\ M \in Nat \ {0} /\ cur \in 0 .. EVT - 1 /\ mono \in 0 .. EVT - 1
      /\ off \in 0 .. M - 1 /\ a \in 0 .. EVT - 1
  BY Params, TimFields, AheadFacts
<1>2. /\ u.monotonic_evttim = IF a < d THEN new ELSE mono
      /\ u.systim_offset = IF a < d /\ new < mono THEN (off + EVT) % M ELSE off
  BY AdvanceTypes
<1>3. CASE ~(a < d)
  <2>1. u.systim_offset = off /\ u.monotonic_evttim = mono /\ d \in Nat
    BY <1>1, <1>2, <1>3
  <2> HIDE DEF u
  <2>2. Moved(t, u, d)
    BY <2>1, NotMoved
  <2> QED BY <2>2 DEF u
<1>4. CASE a < d
  <2>1. k \in 1 .. EVT - 1 /\ k \in 0 .. d
    BY <1>1, <1>4
  <2>2. new = (mono + k) % EVT
    <3> DEFINE z == mono - cur
               v == z % EVT
    <3>1. a = v /\ z \in Int
      BY <1>1 DEF Ahead
    <3>2. PICK j \in Int : z = v + EVT * j
      <4> HIDE DEF z
      <4> QED BY <1>1, <3>1, ModFacts
    <3>3. cur + d = (mono + k) + EVT * (-j)
      <4>1. EVT * (-j) = -(EVT * j) /\ EVT * j \in Int
        BY <1>1
      <4>2. mono - cur = a + EVT * j
        BY <3>1, <3>2
      <4> QED BY <1>1, <4>1, <4>2, SMTT(30)
    <3> HIDE DEF z, v
    <3> DEFINE y == mono + k
    <3>4. y \in Int /\ -j \in Int
      BY <1>1, <2>1
    <3> HIDE DEF y
    <3>5. (y + EVT * (-j)) % EVT = y % EVT
      BY <1>1, <3>4, ModSame
    <3>6. cur + d = y + EVT * (-j)
      BY <3>3 DEF y
    <3> HIDE DEF cur
    <3>7. new = (cur + d) % EVT
      BY DEF cur
    <3> HIDE DEF new
    <3>8. new = y % EVT
      BY <3>5, <3>6, <3>7
    <3> QED BY <3>8 DEF y
  <2> HIDE DEF new, k, a
  <2>3. ASSUME mono + k < EVT PROVE Systim(u) = ((off + mono) + k) % M
    <3>1. mono + k \in 0 .. EVT - 1
      BY <1>1, <2>1, <2>3
    <3>2. new = mono + k
      BY <1>1, <2>2, <3>1, ModSmall
    <3>3. ~(new < mono)
      BY <1>1, <2>1, <3>2
    <3>4. u.monotonic_evttim = mono + k /\ u.systim_offset = off
      BY <1>2, <1>4, <3>2, <3>3
    <3>5. Systim(u) = (off + (mono + k)) % M
      BY <3>4 DEF Systim
    <3>6. off + (mono + k) = (off + mono) + k
      BY <1>1, <2>1
    <3> QED BY <3>5, <3>6
  <2>4. ASSUME ~(mono + k < EVT) PROVE Systim(u) = ((off + mono) + k) % M
    <3>1. (mono + k) - EVT \in 0 .. EVT - 1 /\ (mono + k) - EVT < mono
      BY <1>1, <2>1, <2>4
    <3>2. new = (mono + k) - EVT
      <4> DEFINE y == (mono + k) - EVT
                 i == 1
      <4>1. y \in 0 .. EVT - 1 /\ i \in Int /\ y + EVT * i = mono + k
        BY <1>1, <2>1, <3>1
      <4> HIDE DEF y, i
      <4>2. (y + EVT * i) % EVT = y
        BY <1>1, <4>1, ModIs
      <4>3. new = y
        BY <2>2, <4>1, <4>2
      <4> QED BY <4>3 DEF y
    <3>3. new < mono
      BY <3>1, <3>2
    <3>4. u.monotonic_evttim = new /\ u.systim_offset = (off + EVT) % M
      BY <1>2, <1>4, <3>3
    <3>5. Systim(u) = (((off + EVT) % M) + new) % M
      BY <3>4 DEF Systim
    <3>6. (((off + EVT) % M) + new) % M = ((off + EVT) + new) % M
      <4> DEFINE x == off + EVT
      <4>1. x \in Int /\ new \in Int
        BY <1>1, <2>1, <3>2
      <4> HIDE DEF x, M
      <4>2. ((x % M) + new) % M = (x + new) % M
        BY <1>1, <4>1, ModSum
      <4> QED BY <4>2 DEF x
    <3>7. (off + EVT) + new = (off + mono) + k
      BY <1>1, <2>1, <3>2
    <3> QED BY <3>5, <3>6, <3>7
  <2>5. Systim(u) = ((off + mono) + k) % M
    BY <2>3, <2>4
  <2> DEFINE x == off + mono
  <2>6. x \in Int /\ k \in Int
    BY <1>1, <2>1
  <2>7. Systim(t) = x % M
    BY DEF Systim
  <2>8. Systim(u) = (x + k) % M
    BY <2>5
  <2> HIDE DEF x, M, u
  <2>9. ((x % M) + k) % M = (x + k) % M
    BY <1>1, <2>6, ModSum
  <2>10. Systim(u) = (Systim(t) + k) % M
    BY <2>7, <2>8, <2>9
  <2> QED BY <2>1, <2>10 DEF Moved, u, M
<1> QED BY <1>3, <1>4

LEMMA SystimUpdate ==
    ASSUME HeapAssumption, TimeAssumption, NEW t \in TIM, ReadInTime(t)
    PROVE  /\ update_current_evttim(t) \in TIM
           /\ Moved(t, update_current_evttim(t), t.elapsed)
<1> DEFINE u == update_current_evttim(t)
           n == t.elapsed
           w == Advance(t, n)
<1>1. /\ n \in 0 .. EVT - 1 /\ u \in TIM
      /\ u.monotonic_evttim = w.monotonic_evttim /\ u.systim_offset = w.systim_offset
  BY UpdateFacts
<1> HIDE DEF u, n
<1>2. Moved(t, w, n)
  BY <1>1, SystimAdvance
<1>3. Systim(u) = Systim(w)
  BY <1>1 DEF Systim
<1> HIDE DEF w
<1>4. Moved(t, u, n)
  BY <1>2, <1>3 DEF Moved
<1> QED BY <1>1, <1>4 DEF u, n

LEMMA MovedStep ==
    ASSUME HeapAssumption, TimeAssumption, NEW t \in TIM, NEW u, NEW n \in Nat, Moved(t, u, n)
    PROVE  (Systim(u) - Systim(t)) % (2 * EVT) <= n
<1> DEFINE M == 2 * EVT
           s == Systim(t)
<1>1. M \in Nat \ {0} /\ s \in Int
  <2>1. s \in 0 .. M - 1 /\ M \in Nat \ {0}
    BY SystimTypes
  <2> HIDE DEF s, M
  <2> QED BY <2>1
<1>2. PICK k \in 0 .. n : Systim(u) = (s + k) % M
  BY DEF Moved
<1> HIDE DEF s, M
<1>3. (((s + k) % M) - s) % M = k % M
  <2> DEFINE x == s + k
  <2>1. x \in Int /\ x - s = k
    BY <1>1
  <2> HIDE DEF x
  <2>2. ((x % M) - s) % M = (x - s) % M
    BY <1>1, <2>1, ModSum
  <2> QED BY <2>1, <2>2 DEF x
<1>4. k % M <= k
  <2>1. CASE k \in 0 .. M - 1
    <3>1. k % M = k
      BY <1>1, <2>1, ModSmall
    <3> QED BY <3>1
  <2>2. CASE k \notin 0 .. M - 1
    <3>1. k % M \in 0 .. M - 1
      BY <1>1, ModFacts
    <3>2. k > M - 1
      BY <1>1, <2>2
    <3> QED BY <1>1, <3>1, <3>2
  <2> QED BY <2>1, <2>2
<1>5. k % M <= n
  <2>1. k % M \in Int
    <3>1. k % M \in 0 .. M - 1
      BY <1>1, ModFacts
    <3> QED BY <1>1, <3>1
  <2> QED BY <1>4, <2>1
<1>6. (Systim(u) - s) % M = k % M
  BY <1>2, <1>3
<1> QED BY <1>5, <1>6 DEF s, M

LEMMA AdjustSystim ==
    ASSUME HeapAssumption, TimeAssumption, ConsistentNow, OnTime,
           NEW self \in Tepp, NEW adjtim \in {TMAX_ADJTIM, -TMAX_ADJTIM}, adj_tim(self, adjtim)
    PROVE  Moved(tim, tim', tim.elapsed + TMAX_ADJTIM)
<1> DEFINE t0 == update_current_evttim(tim)
           b == tim.elapsed
           t == IF adjtim > 0 THEN Advance(t0, adjtim)
                ELSE [t0 EXCEPT !.current_evttim = (@ + adjtim) % EVT]
<1>1. tim \in TIM
  BY DEF ConsistentNow, Consistent
<1>2. t0 \in TIM /\ Moved(tim, t0, b)
  BY <1>1, OnTimeFacts, SystimUpdate
<1>3. b \in Nat /\ TMAX_ADJTIM \in Nat /\ TMAX_ADJTIM < EVT /\ EVT \in Nat
  <2>1. /\ TMAX_ADJTIM \in Nat /\ EVT \in Nat \ {0} /\ BOUNDARY_MARGIN \in Nat
        /\ TMAX_RELTIM \in Nat /\ TSTEP_HRTCNT \in Nat
        /\ TMAX_RELTIM + TSTEP_HRTCNT + 2 * TMAX_ADJTIM + BOUNDARY_MARGIN < EVT
    BY Params
  <2>2. b \in Nat
    BY <1>1, TimFields
  <2> HIDE DEF b
  <2> QED BY <2>1, <2>2
<1>4. tim' = t0 \/ tim' = t
  BY DEF adj_tim
<1> HIDE DEF t0, b
<1>5. Moved(t0, tim', TMAX_ADJTIM)
  <2>1. CASE tim' = t0
    BY <1>2, <1>3, <2>1, NotMoved
  <2>2. CASE tim' = t /\ adjtim > 0
    <3>1. adjtim = TMAX_ADJTIM
      BY <1>3, <2>2
    <3>2. adjtim \in 0 .. EVT - 1
      BY <1>3, <3>1
    <3>3. Moved(t0, Advance(t0, adjtim), adjtim)
      BY <1>2, <3>2, SystimAdvance
    <3>4. tim' = Advance(t0, adjtim)
      BY <2>2
    <3> HIDE DEF t
    <3> QED BY <3>1, <3>3, <3>4
  <2>3. CASE tim' = t /\ ~(adjtim > 0)
    <3>1. tim' = [t0 EXCEPT !.current_evttim = (@ + adjtim) % EVT]
      BY <2>3
    <3>2. tim'.systim_offset = t0.systim_offset /\ tim'.monotonic_evttim = t0.monotonic_evttim
      BY <1>2, <3>1 DEF TIM
    <3> HIDE DEF t
    <3> QED BY <1>2, <1>3, <3>2, NotMoved
  <2> QED BY <1>4, <2>1, <2>2, <2>3
<1>6. Moved(tim, tim', b + TMAX_ADJTIM)
  BY <1>1, <1>2, <1>3, <1>5, MovedTwice
<1> QED BY <1>6 DEF b

LEMMA SystimOfStep ==
    ASSUME HeapAssumption, TimeAssumption, "set_tim" \notin Calls, ConsistentNow, OnTime, [Next]_vars
    PROVE  Moved(tim, tim', tim.elapsed + TMAX_ADJTIM)
<1> DEFINE b == tim.elapsed
           n == b + TMAX_ADJTIM
           t == update_current_evttim(tim)
<1>1. tim \in TIM
  BY DEF ConsistentNow, Consistent
<1>2. Moved(tim, t, b)
  BY <1>1, OnTimeFacts, SystimUpdate
<1>3. b \in Nat /\ n \in Nat /\ b <= n
  <2>1. b \in Nat /\ TMAX_ADJTIM \in Nat
    BY <1>1, TimFields, Params
  <2> HIDE DEF b
  <2> QED BY <2>1
<1>4. CASE tim' \in {tim, t}
  <2> HIDE DEF b, n, t
  <2>1. 0 .. b \subseteq 0 .. n
    BY <1>3
  <2>2. CASE tim' = t
    BY <1>2, <2>1, <2>2 DEF Moved, n, b
  <2>3. CASE tim' = tim
    <3>1. Moved(tim, tim', n)
      BY <1>1, <1>3, <2>3, NotMoved
    <3> QED BY <3>1 DEF n, b
  <2> QED BY <1>4, <2>2, <2>3
<1>5. CASE Tick
  <2>1. tim'.systim_offset = tim.systim_offset /\ tim'.monotonic_evttim = tim.monotonic_evttim
    BY <1>1, <1>5 DEF Tick, TIM
  <2> QED BY <1>1, <1>3, <2>1, NotMoved
<1>6. ASSUME NEW self \in Tepp, NEW adjtim \in {TMAX_ADJTIM, -TMAX_ADJTIM}, adj_tim(self, adjtim)
      PROVE  Moved(tim, tim', tim.elapsed + TMAX_ADJTIM)
  BY <1>6, AdjustSystim
<1>7. ASSUME NEW p \in Tepp, SignalTime(p) PROVE tim' \in {tim, t}
  BY <1>7 DEF SignalTime, Callback, Finish
<1>8. ASSUME NEW p \in Tepp, SignalTimeContinues(p) PROVE tim' \in {tim, t}
  BY <1>8 DEF SignalTimeContinues, Callback, Finish
<1>9. ASSUME NEW p \in Tepp, set_hrt_event_handler(p) PROVE tim' \in {tim, t}
  BY <1>9 DEF set_hrt_event_handler
<1>10. ASSUME NEW self \in Prc, NEW e \in Ev, NEW p \in Prc, NEW time \in RelTimes,
              tmevtb_enqueue_reltim(self, p, e, time)
       PROVE  tim' \in {tim, t}
  BY <1>10 DEF tmevtb_enqueue_reltim
<1>11. ASSUME NEW self \in Prc, NEW e \in Ev, NEW q \in Tepp, tmevtb_dequeue(self, q, e)
       PROVE  tim' \in {tim, t}
  BY <1>11 DEF tmevtb_dequeue
<1>12. ASSUME NEW self \in Prc, NEW e \in Ev, NEW p \in Prc, mig_tsk(self, p, e)
       PROVE  tim' \in {tim, t}
  BY <1>12 DEF mig_tsk
<1>13. get_tim => tim' \in {tim, t}
  BY DEF get_tim
<1>14. UNCHANGED vars => tim' \in {tim, t}
  BY DEF vars
<1> HIDE DEF t
<1> QED BY <1>4, <1>5, <1>6, <1>7, <1>8, <1>9, <1>10, <1>11, <1>12, <1>13, <1>14 DEF Next

\* Without set_tim, the system time never steps back, and never steps forward by a
\* carry too much or too few, whatever adj_tim does
\* (time_event.c:395-403, time_manage.c:176-187).
THEOREM SystimStepsHold ==
    ASSUME HeapAssumption, TimeAssumption, "set_tim" \notin Calls
    PROVE  Spec /\ []OnTime => SystimSteps
<1>1. ConsistentNow /\ OnTime /\ [Next]_vars => [SystimStep]_vars
  <2> SUFFICES ASSUME ConsistentNow, OnTime, [Next]_vars PROVE SystimStep
    OBVIOUS
  <2>1. tim \in TIM /\ tim.elapsed \in Nat /\ TMAX_ADJTIM \in Nat
    BY Params, TimFields DEF ConsistentNow, Consistent
  <2>2. Moved(tim, tim', tim.elapsed + TMAX_ADJTIM)
    BY SystimOfStep
  <2> QED BY <2>1, <2>2, MovedStep DEF SystimStep
<1> QED BY <1>1, ConsistentAlways, PTL DEF Spec, SystimSteps

----------------------------------------------------------------------------
\* Adjustments of the time while an event is late

\* An event that is late by one adjustment or more is one for which check_adjtim refuses
\* to adjust the time.
LEMMA LateIsSeen ==
    ASSUME HeapAssumption, TimeAssumption,
           NEW t \in TIM, Ahead(t) <= 2 * TMAX_ADJTIM, t.elapsed = 0, NEW ev \in [Ev -> EvtTim],
           NEW d \in [Ev -> Int], NEW e \in Ev, Timed(t, ev, d, e), NotLate(d, e),
           d[e] <= -TMAX_ADJTIM
    PROVE  EVTTIM_LE((ev[e] + TMAX_ADJTIM) % EVT, t.current_evttim, boundary_evttim(t))
<1> DEFINE b == boundary_evttim(t)
           m == BOUNDARY_MARGIN
           cur == t.current_evttim
           a == TMAX_ADJTIM
           y == cur + d[e]
           x == d[e] + a
           z == 0
<1>1. m \in Nat /\ EVT \in Nat \ {0} /\ m < EVT /\ a \in Nat
  <2>1. /\ m \in Nat /\ EVT \in Nat \ {0} /\ TSTEP_HRTCNT \in Nat /\ TMAX_RELTIM \in Nat
        /\ a \in Nat /\ TMAX_RELTIM + TSTEP_HRTCNT + 2 * a + m < EVT
    BY Params
  <2> HIDE DEF m, a
  <2> QED BY <2>1
<1>2. cur \in Int /\ d[e] \in Int /\ d[e] >= -m /\ d[e] <= -a
  BY <1>1, TimFields DEF NotLate
<1>3. y \in Int /\ x \in Int /\ x <= 0 /\ y + a = cur + x /\ x + m \in 0 .. m
  BY <1>1, <1>2
<1>4. ev[e] = y % EVT
  <2>1. ev[e] = (cur + (t.elapsed + d[e])) % EVT
    BY DEF Timed
  <2>2. cur + (t.elapsed + d[e]) = y
    BY <1>2
  <2> HIDE DEF y
  <2> QED BY <2>1, <2>2
<1>5. (ev[e] + a) % EVT = (cur + x) % EVT
  <2>1. a \in Int /\ y \in Int /\ EVT \in Nat \ {0}
    BY <1>1, <1>3
  <2> HIDE DEF y, a, x
  <2>2. ((y % EVT) + a) % EVT = (y + a) % EVT
    BY <2>1, ModSum
  <2> QED BY <1>3, <1>4, <2>2
<1>6. (((cur + x) % EVT) - b) % EVT = x + m
  <2>1. x + BOUNDARY_MARGIN \in 0 .. EVT - 1
    BY <1>1, <1>3
  <2> HIDE DEF x
  <2> QED BY <1>3, <2>1, KeyIs
<1>7. (cur - b) % EVT = m
  <2>1. z \in Int /\ z + m \in 0 .. EVT - 1 /\ z + m = m
    BY <1>1
  <2>2. cur = (cur + z) % EVT
    BY SameCurrent
  <2> HIDE DEF z, b
  <2>3. (((cur + z) % EVT) - boundary_evttim(t)) % EVT = z + BOUNDARY_MARGIN
    BY <2>1, KeyIs DEF m
  <2> HIDE DEF m, cur
  <2>4. (cur - b) % EVT = z + m
    BY <2>2, <2>3 DEF b, m
  <2> QED BY <2>1, <2>4
<1> HIDE DEF b, m, x, cur
<1>8. (((ev[e] + a) % EVT) - b) % EVT = x + m
  <2> HIDE DEF a
  <2> QED BY <1>5, <1>6
<1>9. x + m <= m
  BY <1>1, <1>3
<1>10. (((ev[e] + a) % EVT) - b) % EVT <= (cur - b) % EVT
  <2> HIDE DEF a
  <2> QED BY <1>7, <1>8, <1>9
<1> QED BY <1>10 DEF EVTTIM_LE, a, b, cur

LEMMA AdjustLate ==
    ASSUME HeapAssumption, TimeAssumption, Tepp = {TM}, ConsistentNow, OnTime,
           NEW self \in Tepp, NEW adjtim \in {TMAX_ADJTIM, -TMAX_ADJTIM}, adj_tim(self, adjtim)
    PROVE  LateStep
<1> DEFINE t0 == update_current_evttim(tim)
<1>1. /\ Consistent(t0, evttim, tmevt_heap, due) /\ t0.elapsed = 0
  BY UpdatedNow
<1>2. /\ t0 \in TIM /\ Ahead(t0) <= 2 * TMAX_ADJTIM /\ evttim \in [Ev -> EvtTim]
      /\ due \in [Ev -> Int] /\ TMAX_ADJTIM \in Nat
  BY <1>1, Params DEF Consistent
<1>3. /\ check_adjtim(self, adjtim, t0) => due' = due
      /\ ~check_adjtim(self, adjtim, t0) =>
            due' = [e \in Ev |-> IF Queued(e) THEN due[e] - adjtim ELSE due[e]]
  BY DEF adj_tim
<1> HIDE DEF t0
<1> SUFFICES ASSUME NEW e \in Ev, Queued(e), due[e] <= -TMAX_ADJTIM PROVE due'[e] >= due[e]
  BY DEF LateStep
<1>4. due[e] \in Int
  BY <1>2
<1>5. CASE check_adjtim(self, adjtim, t0)
  <2>1. due'[e] = due[e]
    BY <1>3, <1>5
  <2> QED BY <1>4, <2>1
<1>6. CASE ~check_adjtim(self, adjtim, t0)
  <2>1. due'[e] = due[e] - adjtim
    BY <1>3, <1>6
  <2>2. CASE adjtim <= 0
    BY <1>2, <1>4, <2>1, <2>2
  <2>3. CASE adjtim > 0
    <3> DEFINE h == tmevt_heap[self]
               f == h[1]
    <3>1. e \in Range(h)
      BY DEF Queued
    <3>2. h \in Seq(Ev) /\ HeapOrdered(h, due)
      BY <1>1 DEF Consistent, HeapsOf
    <3>3. h # << >> /\ due[f] <= due[e]
      BY <1>2, <3>1, <3>2, TopFirst
    <3>4. f \in Range(h) /\ f \in Ev
      BY <3>2, <3>3, TopIn
    <3>5. Timed(t0, evttim, due, f) /\ NotLate(due, f)
      <4>1. QueuedIn(f, tmevt_heap)
        BY <3>4 DEF QueuedIn
      <4> QED BY <1>1, <3>4, <4>1, OnTimeFacts DEF Consistent, AllNotLate
    <3>6. due[f] <= -TMAX_ADJTIM
      <4>1. due[f] \in Int
        BY <1>2, <3>4
      <4> QED BY <1>2, <1>4, <3>3, <4>1
    <3> HIDE DEF f
    <3>7. EVTTIM_LE((evttim[f] + TMAX_ADJTIM) % EVT, t0.current_evttim, boundary_evttim(t0))
      BY <1>1, <1>2, <3>4, <3>5, <3>6, LateIsSeen
    <3>8. check_adjtim(self, adjtim, t0)
      BY <2>3, <3>3, <3>7 DEF check_adjtim, f
    <3> QED BY <1>6, <3>8
  <2>4. adjtim <= 0 \/ adjtim > 0
    BY <1>2
  <2> QED BY <2>2, <2>3, <2>4
<1> QED BY <1>5, <1>6

LEMMA CallbackLate ==
    ASSUME HeapAssumption, TimeAssumption, ConsistentNow, OnTime, NEW p \in Tepp, NEW t,
           Consistent(t, evttim, tmevt_heap, due),
           IF IsDue(p, t) THEN Callback(p, t) ELSE Finish(p, t)
    PROVE  LateStep
<1> DEFINE e == tmevt_heap[p][1]
<1>1. due \in [Ev -> Int]
  BY DEF Consistent
<1>2. CASE IsDue(p, t)
  <2>1. due[e] <= 0 /\ e \in Ev /\ RelTimes \subseteq Nat
    BY <1>2, FirstIsDue, Params
  <2>2. Forget({e}) \/ \E c \in RelTimes : due' = [due EXCEPT ![e] = @ + c]
    BY <1>2 DEF Callback
  <2> HIDE DEF e
  <2>3. CASE Forget({e})
    BY <1>1, <2>1, <2>3 DEF Forget, LateStep
  <2>4. ASSUME NEW c \in RelTimes, due' = [due EXCEPT ![e] = @ + c] PROVE LateStep
    <3>1. ASSUME NEW x \in Ev PROVE due'[x] >= due[x]
      <4>1. due[x] \in Int /\ c \in Nat
        BY <1>1, <2>1
      <4>2. due'[x] = due[x] \/ due'[x] = due[x] + c
        BY <1>1, <2>4
      <4> QED BY <4>1, <4>2
    <3> QED BY <3>1 DEF LateStep
  <2> QED BY <2>2, <2>3, <2>4
<1>3. CASE ~IsDue(p, t)
  <2>1. due' = due
    BY <1>3 DEF Finish
  <2> QED BY <1>1, <2>1 DEF LateStep
<1> QED BY <1>2, <1>3

LEMMA LateOfStep ==
    ASSUME HeapAssumption, TimeAssumption, Tepp = {TM}, ConsistentNow, OnTime, [Next]_vars
    PROVE  LateStep
<1>1. /\ Consistent(update_current_evttim(tim), evttim, tmevt_heap, due)
      /\ Consistent(tim, evttim, tmevt_heap, due)
      /\ due \in [Ev -> Int] /\ tim \in TIM
  BY UpdatedNow DEF ConsistentNow, Consistent
<1>2. CASE due' = due
  BY <1>1, <1>2 DEF LateStep
<1>3. CASE Tick
  <2>1. tim'.elapsed # 0
    BY <1>1, <1>3 DEF Tick, TIM
  <2> QED BY <2>1 DEF LateStep
<1>4. ASSUME NEW p \in Tepp, SignalTime(p) PROVE LateStep
  <2>1. LET t == update_current_evttim(tim)
        IN  IF IsDue(p, t) THEN Callback(p, t) ELSE Finish(p, t)
    BY <1>4 DEF SignalTime
  <2> QED BY <1>1, <2>1, CallbackLate
<1>5. ASSUME NEW p \in Tepp, SignalTimeContinues(p) PROVE LateStep
  <2> DEFINE t == IF IsDue(p, tim) THEN tim ELSE update_current_evttim(tim)
  <2>1. Consistent(t, evttim, tmevt_heap, due)
    BY <1>1
  <2>2. IF IsDue(p, t) THEN Callback(p, t) ELSE Finish(p, t)
    BY <1>5 DEF SignalTimeContinues
  <2> HIDE DEF t
  <2> QED BY <2>1, <2>2, CallbackLate
<1>6. ASSUME NEW p \in Tepp, set_hrt_event_handler(p) PROVE due' = due
  BY <1>6 DEF set_hrt_event_handler
<1>7. ASSUME NEW self \in Prc, NEW e \in Ev, NEW p \in Prc, NEW time \in RelTimes,
             tmevtb_enqueue_reltim(self, p, e, time)
      PROVE  LateStep
  <2>1. Others(due, due', e) /\ ~Queued(e)
    BY <1>7, EnqueueStep DEF tmevtb_enqueue_reltim, Used
  <2> QED BY <1>1, <2>1 DEF LateStep, Others
<1>8. ASSUME NEW self \in Prc, NEW e \in Ev, NEW q \in Tepp, tmevtb_dequeue(self, q, e)
      PROVE  LateStep
  <2>1. Others(due, due', e) /\ ~Queued(e)'
    BY <1>8, DequeueStep DEF Queued, QueuedIn
  <2>2. ASSUME NEW x \in Ev, Queued(x)' PROVE due'[x] >= due[x]
    <3>1. x # e
      BY <2>1, <2>2 DEF Queued
    <3> QED BY <1>1, <2>1, <3>1 DEF Others
  <2> QED BY <2>2 DEF LateStep
<1>9. ASSUME NEW self \in Prc, NEW e \in Ev, NEW p \in Prc, mig_tsk(self, p, e) PROVE due' = due
  BY <1>9 DEF mig_tsk
<1>10. ASSUME NEW self \in Tepp, NEW adjtim \in {TMAX_ADJTIM, -TMAX_ADJTIM},
              adj_tim(self, adjtim)
       PROVE  LateStep
  BY <1>10, AdjustLate
<1>11. ASSUME NEW systim \in {0, EVT - 1}, set_tim(systim) PROVE due' = due
  BY <1>11 DEF set_tim
<1>12. get_tim => due' = due
  BY DEF get_tim
<1>13. UNCHANGED vars => due' = due
  BY DEF vars
<1> QED BY <1>2, <1>3, <1>4, <1>5, <1>6, <1>7, <1>8, <1>9, <1>10, <1>11, <1>12, <1>13 DEF Next

\* With one time event processor, the time is not adjusted forward while an event is
\* late by as much as one adjustment: check_adjtim sees it at the top of the heap
\* (time_event.c:656-661).
THEOREM LateRefusedHolds ==
    ASSUME HeapAssumption, TimeAssumption, Tepp = {TM}
    PROVE  Spec /\ []OnTime => LateRefused
<1>1. ConsistentNow /\ OnTime /\ [Next]_vars => [LateStep]_vars
  BY LateOfStep
<1> QED BY <1>1, ConsistentAlways, PTL DEF Spec, LateRefused
==============================================================================
