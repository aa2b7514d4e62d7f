---------------------------- MODULE DynIsrProofs ----------------------------
(***************************************************************************)
(* Interrupt service routines may be registered and deleted while their    *)
(* interrupts are served: for any number of blocks, queues, processors and *)
(* tasks, no block is lost or given back too early, and every execution of *)
(* call_isr calls each routine that it has to call, once.                  *)
(***************************************************************************)
EXTENDS DynIsr, QueuesProofs

----------------------------------------------------------------------------
\* The inductive invariant

\* A free block is no routine, and no processor executes it.
FreeBlocks ==
    /\ IsInjective(free)
    /\ \A i \in ToSet(free) : ~isrcb[i].exists /\ isrcb[i].running = {}

\* The queues hold the existing routines, with numbers given before.
QueuedBlocks ==
    \A q \in Que :
        /\ IsInjective(queue[q])
        /\ ToSet(queue[q]) = {i \in Isr : isrcb[i].exists /\ isrcb[i].que = q}
        /\ \A i \in ToSet(queue[q]) : isrcb[i].isrseq < isrseq[q]

\* The block that a task waits for is deleted and not free, and no other
\* task waits for it.
WaitedBlocks ==
    \A t \in Tsk : deleting[t] # NULL =>
        /\ ~isrcb[deleting[t]].exists
        /\ deleting[t] \notin ToSet(free)
        /\ \A u \in Tsk : deleting[u] = deleting[t] => u = t

\* A processor whose bit is set executes the routine.
RunningBits ==
    \A i \in Isr : \A p \in isrcb[i].running : scan[p][isrcb[i].que].isr = i

\* The queues that a processor goes through are those of its handlers.
Nested ==
    \A p \in Prc :
        /\ IsInjective(nest[p])
        /\ ToSet(nest[p]) = {q \in Que : scan[p][q].isr # NULL}
        /\ \A q \in ToSet(nest[p]) : scan[p][q].isrseq < isrseq[q]

\* The registration r is in queue q.
Registered(r, q) ==
    isrcb[r[1]].exists /\ isrcb[r[1]].que = q /\ isrcb[r[1]].isrseq = r[2]

\* What call_isr has called is not beyond its place any more, and what it has
\* to call is beyond, or has been called.
CallsSoFar(p, q) ==
    /\ IsInjective(hist[p][q].called)
    /\ \A r \in ToSet(hist[p][q].called) :
          /\ r[2] < isrseq[q]
          /\ Registered(r, q) => ~IsrKeyGt(isrcb[r[1]], scan[p][q])
    /\ \A r \in hist[p][q].due :
          \/ r \in ToSet(hist[p][q].called)
          \/ Registered(r, q) /\ IsrKeyGt(isrcb[r[1]], scan[p][q])

Calls == \A p \in Prc, q \in Que : CallsSoFar(p, q)

IInv ==
    /\ TypeOK
    /\ FreeBlocks
    /\ QueuedBlocks
    /\ QueueOrder
    /\ WaitedBlocks
    /\ BlockHeld
    /\ RunningBits
    /\ Nested
    /\ Calls

----------------------------------------------------------------------------
\* Lemmas about keys, queues and stacks

\* The keys are in a linear order.
LEMMA KeyOrder ==
    ASSUME NEW a, NEW b, NEW c,
           a.isrpri \in Nat, a.isrseq \in Nat, b.isrpri \in Nat, b.isrseq \in Nat,
           c.isrpri \in Nat, c.isrseq \in Nat
    PROVE  /\ ~IsrKeyGt(a, a)
           /\ IsrKeyGt(a, b) => ~IsrKeyGt(b, a)
           /\ IsrKeyGt(a, b) /\ IsrKeyGt(b, c) => IsrKeyGt(a, c)
           /\ ~IsrKeyGt(b, a) /\ ~IsrKeyGt(c, b) => ~IsrKeyGt(c, a)
           /\ ~IsrKeyGt(a, b) /\ IsrKeyGt(c, b) => IsrKeyGt(c, a)
BY DEF IsrKeyGt

\* The types of the blocks.
LEMMA BlockFields ==
    ASSUME TypeOK
    PROVE  /\ \A i \in Isr :
                 /\ isrcb[i].exists \in BOOLEAN /\ isrcb[i].isrpri \in IsrPri
                 /\ isrcb[i].isrpri \in Nat /\ isrcb[i].que \in Que
                 /\ isrcb[i].isrseq \in Nat /\ isrcb[i].running \in SUBSET Prc
           /\ \A p \in Prc, q \in Que :
                 /\ scan[p][q].isr \in Isr \cup {NULL} /\ scan[p][q].isrpri \in IsrPri
                 /\ scan[p][q].isrpri \in Nat /\ scan[p][q].isrseq \in Nat
                 /\ hist[p][q].due \in SUBSET (Isr \X Nat)
                 /\ hist[p][q].called \in Seq(Isr \X Nat)
           /\ \A q \in Que : queue[q] \in Seq(Isr) /\ isrseq[q] \in Nat
           /\ free \in Seq(Isr)
           /\ \A p \in Prc : nest[p] \in Seq(Que)
           /\ \A t \in Tsk : deleting[t] \in Isr \cup {NULL}
<1>1. IsrPri \subseteq Nat /\ MaxSeq \in Nat
  BY IsrAssumption
<1>2. ASSUME NEW i \in Isr
      PROVE  /\ isrcb[i].exists \in BOOLEAN /\ isrcb[i].isrpri \in IsrPri
             /\ isrcb[i].que \in Que
             /\ isrcb[i].isrseq \in Nat /\ isrcb[i].running \in SUBSET Prc
  <2>1. isrcb[i] \in ISRCB
    BY DEF TypeOK
  <2> QED
    BY <2>1 DEF ISRCB
<1>3. ASSUME NEW p \in Prc, NEW q \in Que
      PROVE  /\ scan[p][q].isr \in Isr \cup {NULL} /\ scan[p][q].isrpri \in IsrPri
             /\ scan[p][q].isrseq \in Nat
             /\ hist[p][q].due \in SUBSET (Isr \X Nat)
             /\ hist[p][q].called \in Seq(Isr \X Nat)
  <2>1. scan[p][q] \in Scan /\ hist[p][q] \in History
    BY DEF TypeOK
  <2> QED
    BY <2>1 DEF Scan, History, Registration
<1>4. /\ \A q \in Que : queue[q] \in Seq(Isr) /\ isrseq[q] \in Nat
      /\ free \in Seq(Isr)
      /\ \A p \in Prc : nest[p] \in Seq(Que)
      /\ \A t \in Tsk : deleting[t] \in Isr \cup {NULL}
  BY <1>1 DEF TypeOK
<1> QED
  BY <1>1, <1>2, <1>3, <1>4

\* The entries of a sequence.
LEMMA Entries ==
    ASSUME NEW S, NEW s \in Seq(S)
    PROVE  /\ ToSet(s) \subseteq S
           /\ Len(s) \in Nat /\ DOMAIN s = 1 .. Len(s)
           /\ \A a \in DOMAIN s : s[a] \in ToSet(s) /\ s[a] \in S
           /\ \A x \in ToSet(s) : \E a \in DOMAIN s : s[a] = x
BY LenProperties DEF ToSet

\* The handler on top of a stack ends.
LEMMA PopFacts ==
    ASSUME NEW S, NEW s \in Seq(S), IsInjective(s), s # << >>
    PROVE  Tail(s) \in Seq(S) /\ IsInjective(Tail(s)) /\ ToSet(Tail(s)) = ToSet(s) \ {Head(s)}
<1>1. Len(s) \in Nat \ {0} /\ DOMAIN s = 1 .. Len(s)
  BY EmptySeq, LenProperties
<1>2. /\ Tail(s) \in Seq(S) /\ Len(Tail(s)) = Len(s) - 1
      /\ \A a \in 1 .. Len(s) - 1 : Tail(s)[a] = s[a + 1]
  BY <1>1, HeadTailProperties
<1> DEFINE d == Tail(s)
<1> HIDE DEF d
<1>3. /\ d \in Seq(S) /\ DOMAIN d = 1 .. Len(s) - 1
      /\ \A a \in 1 .. Len(s) - 1 : d[a] = s[a + 1]
  BY <1>1, <1>2, LenProperties DEF d
<1>4. \A a, b \in 1 .. Len(s) : s[a] = s[b] => a = b
  BY <1>1 DEF IsInjective
<1>5. IsInjective(d)
  BY <1>1, <1>3, <1>4 DEF IsInjective
<1>6. Head(s) = s[1]
  BY <1>1
<1>7. \A x \in ToSet(d) : x \in ToSet(s) /\ x # s[1]
  BY <1>1, <1>3, <1>4 DEF ToSet
<1>8. ASSUME NEW x \in ToSet(s), x # s[1] PROVE x \in ToSet(d)
  <2>1. PICK a \in 1 .. Len(s) : s[a] = x
    BY <1>1 DEF ToSet
  <2>2. a - 1 \in 1 .. Len(s) - 1 /\ d[a - 1] = x
    BY <1>1, <1>3, <1>8, <2>1
  <2> QED
    BY <1>3, <2>2 DEF ToSet
<1> QED
  BY <1>3, <1>5, <1>6, <1>7, <1>8 DEF d

\* A handler starts on top of a stack.
LEMMA PushFacts ==
    ASSUME NEW S, NEW s \in Seq(S), IsInjective(s), NEW x \in S, x \notin ToSet(s)
    PROVE  /\ <<x>> \o s \in Seq(S) /\ IsInjective(<<x>> \o s)
           /\ ToSet(<<x>> \o s) = ToSet(s) \cup {x}
BY PrependFacts DEF QueueInsertNext

\* The first of a set of positions of a queue.
LEMMA FirstOfFacts ==
    ASSUME NEW S, NEW s \in Seq(S), NEW at \in SUBSET DOMAIN s, at # {}
    PROVE  FirstOf(at) \in at /\ \A b \in at : FirstOf(at) <= b
<1>1. at \in SUBSET Nat
  BY LenProperties
<1>2. \E a \in at : \A b \in at : a <= b
  BY <1>1, Minimum
<1> QED
  BY <1>2 DEF FirstOf

\* After a deletion the others are in the same order.
LEMMA DeleteOrder ==
    ASSUME NEW S, NEW s \in Seq(S), NEW x \in ToSet(s),
           NEW a \in DOMAIN QueueDelete(s, x), NEW b \in DOMAIN QueueDelete(s, x), a < b
    PROVE  \E c, d \in DOMAIN s : c < d /\ QueueDelete(s, x)[a] = s[c] /\ QueueDelete(s, x)[b] = s[d]
<1> DEFINE e == QueueDelete(s, x)
<1> HIDE DEF e
<1>1. PICK i \in 1 .. Len(s) :
         /\ s[i] = x
         /\ e \in Seq(S) /\ Len(e) = Len(s) - 1
         /\ \A j \in 1 .. Len(s) - 1 : e[j] = IF j < i THEN s[j] ELSE s[j + 1]
  BY DeletePositions DEF e
<1>2. Len(s) \in Nat /\ DOMAIN s = 1 .. Len(s) /\ DOMAIN e = 1 .. Len(s) - 1
  BY <1>1, LenProperties
<1>3. a \in 1 .. Len(s) - 1 /\ b \in 1 .. Len(s) - 1
  BY <1>2 DEF e
<1> DEFINE m(j) == IF j < i THEN j ELSE j + 1
<1>4. /\ m(a) \in DOMAIN s /\ m(b) \in DOMAIN s /\ m(a) < m(b)
      /\ e[a] = s[m(a)] /\ e[b] = s[m(b)]
  BY <1>1, <1>2, <1>3
<1> HIDE DEF m
<1> QED
  BY <1>4 DEF e

----------------------------------------------------------------------------
\* The steps of call_isr

\* What call_isr knows when it looks for the next routine of q at the
\* positions at: the block of the routine that has returned is in cb without
\* the bit of p, and h tells what has been called and is due.
Looking(p, q, at, cb, h) ==
    /\ at \subseteq DOMAIN queue[q]
    /\ cb \in [Isr -> ISRCB]
    /\ \A i \in Isr :
          /\ cb[i].exists = isrcb[i].exists /\ cb[i].que = isrcb[i].que
          /\ cb[i].isrpri = isrcb[i].isrpri /\ cb[i].isrseq = isrcb[i].isrseq
          /\ cb[i].running = IF i = scan[p][q].isr THEN isrcb[i].running \ {p}
                                                    ELSE isrcb[i].running
    /\ h \in History
    /\ IsInjective(h.called)
    /\ \A r \in ToSet(h.called) :
          /\ r[2] < isrseq[q]
          /\ Registered(r, q) => \A a \in at : IsrKeyGt(isrcb[queue[q][a]], isrcb[r[1]])
    /\ \A r \in h.due :
          r \in ToSet(h.called) \/ (Registered(r, q) /\ \E a \in at : queue[q][a] = r[1])

\* The processor p has called i of queue q, or returned from it (NULL).
Called(p, q, i) ==
    /\ isrcb' \in [Isr -> ISRCB]
    /\ \A j \in Isr :
          /\ isrcb'[j].exists = isrcb[j].exists /\ isrcb'[j].que = isrcb[j].que
          /\ isrcb'[j].isrpri = isrcb[j].isrpri /\ isrcb'[j].isrseq = isrcb[j].isrseq
          /\ isrcb'[j].running =
                (IF j = scan[p][q].isr THEN isrcb[j].running \ {p} ELSE isrcb[j].running)
                \cup (IF j = i THEN {p} ELSE {})
    /\ scan' \in [Prc -> [Que -> Scan]]
    /\ \A o \in Prc, r \in Que : <<o, r>> # <<p, q>> => scan'[o][r] = scan[o][r]
    /\ scan'[p][q].isr = i
    /\ i # NULL => /\ scan'[p][q].isrpri = isrcb[i].isrpri
                   /\ scan'[p][q].isrseq = isrcb[i].isrseq
    /\ hist' \in [Prc -> [Que -> History]]
    /\ \A o \in Prc, r \in Que : <<o, r>> # <<p, q>> => hist'[o][r] = hist[o][r]

LEMMA CalledFacts ==
    ASSUME TypeOK, NEW p \in Prc, NEW q \in Que, NEW at, NEW cb, NEW h,
           Looking(p, q, at, cb, h), CallNext(p, q, at, cb, h)
    PROVE  \/ at = {} /\ Called(p, q, NULL) /\ hist'[p][q] = NoHist
           \/ /\ at # {} /\ Called(p, q, queue[q][FirstOf(at)])
              /\ hist'[p][q].due = h.due
              /\ hist'[p][q].called =
                    Append(h.called, <<queue[q][FirstOf(at)], isrcb[queue[q][FirstOf(at)]].isrseq>>)
<1>1. /\ isrcb \in [Isr -> ISRCB] /\ scan \in [Prc -> [Que -> Scan]]
      /\ hist \in [Prc -> [Que -> History]] /\ queue[q] \in Seq(Isr)
  BY DEF TypeOK
<1>2. /\ at \subseteq DOMAIN queue[q] /\ cb \in [Isr -> ISRCB] /\ h \in History
      /\ \A i \in Isr :
            /\ cb[i].exists = isrcb[i].exists /\ cb[i].que = isrcb[i].que
            /\ cb[i].isrpri = isrcb[i].isrpri /\ cb[i].isrseq = isrcb[i].isrseq
            /\ cb[i].running = IF i = scan[p][q].isr THEN isrcb[i].running \ {p}
                                                      ELSE isrcb[i].running
  BY DEF Looking
<1>3. CASE at = {}
  <2>1. /\ isrcb' = cb /\ scan' = [scan EXCEPT ![p][q] = NoScan]
        /\ hist' = [hist EXCEPT ![p][q] = NoHist]
    BY <1>3 DEF CallNext
  <2>2. NoScan \in Scan /\ NoScan.isr = NULL /\ NoHist \in History
    BY IsrAssumption DEF NoScan, Scan, NoHist, History, AnyPri
  <2>3. NULL \notin Isr
    BY IsrAssumption
  <2> QED
    BY <1>1, <1>2, <1>3, <2>1, <2>2, <2>3 DEF Called
<1>4. CASE at # {}
  <2> DEFINE i == queue[q][FirstOf(at)]
             s == [isr |-> i, isrpri |-> cb[i].isrpri, isrseq |-> cb[i].isrseq]
             g == [h EXCEPT !.called = Append(@, <<i, cb[i].isrseq>>)]
  <2>1. i \in Isr
    <3>1. FirstOf(at) \in DOMAIN queue[q]
      BY <1>1, <1>2, <1>4, FirstOfFacts
    <3> QED
      BY <1>1, <3>1, Entries
  <2>2. /\ isrcb' = [cb EXCEPT ![i].running = @ \cup {p}]
        /\ scan' = [scan EXCEPT ![p][q] = s] /\ hist' = [hist EXCEPT ![p][q] = g]
    BY <1>4 DEF CallNext
  <2> HIDE DEF i
  <2>3. cb[i] \in ISRCB
    BY <1>2, <2>1
  <2>4. s \in Scan
    BY <2>1, <2>3 DEF ISRCB, Scan
  <2>5. g \in History /\ g.due = h.due /\ g.called = Append(h.called, <<i, isrcb[i].isrseq>>)
    <3>1. <<i, cb[i].isrseq>> \in Registration
      BY <2>1, <2>3 DEF ISRCB, Registration
    <3>2. h.called \in Seq(Registration)
      BY <1>2 DEF History
    <3>3. Append(h.called, <<i, cb[i].isrseq>>) \in Seq(Registration)
      BY <3>1, <3>2, AppendProperties
    <3> DEFINE l == Append(h.called, <<i, cb[i].isrseq>>)
    <3> HIDE DEF l
    <3>4. l \in Seq(Registration)
      BY <3>3 DEF l
    <3>5. g = [h EXCEPT !.called = l]
      BY DEF l
    <3>6. g \in History /\ g.due = h.due /\ g.called = l
      BY <1>2, <3>4, <3>5 DEF History
    <3>7. cb[i].isrseq = isrcb[i].isrseq
      BY <1>2, <2>1
    <3> QED
      BY <3>6, <3>7 DEF l
  <2>6. [cb[i] EXCEPT !.running = @ \cup {p}] \in ISRCB
    BY <2>3 DEF ISRCB
  <2>7. /\ isrcb' \in [Isr -> ISRCB]
        /\ \A j \in Isr : isrcb'[j] = IF j = i THEN [cb[i] EXCEPT !.running = @ \cup {p}] ELSE cb[j]
    BY <1>2, <2>1, <2>2, <2>6
  <2>8. \A j \in Isr :
          /\ isrcb'[j].exists = isrcb[j].exists /\ isrcb'[j].que = isrcb[j].que
          /\ isrcb'[j].isrpri = isrcb[j].isrpri /\ isrcb'[j].isrseq = isrcb[j].isrseq
          /\ isrcb'[j].running =
                (IF j = scan[p][q].isr THEN isrcb[j].running \ {p} ELSE isrcb[j].running)
                \cup (IF j = i THEN {p} ELSE {})
    <3> TAKE j \in Isr
    <3>1. cb[j] \in ISRCB
      BY <1>2
    <3>2. CASE j = i
      <4>1. isrcb'[j] = [cb[j] EXCEPT !.running = @ \cup {p}]
        BY <2>7, <3>2
      <4>2. /\ isrcb'[j].exists = cb[j].exists /\ isrcb'[j].que = cb[j].que
            /\ isrcb'[j].isrpri = cb[j].isrpri /\ isrcb'[j].isrseq = cb[j].isrseq
            /\ isrcb'[j].running = cb[j].running \cup {p}
        BY <3>1, <4>1 DEF ISRCB
      <4> QED
        BY <1>2, <3>2, <4>2
    <3>3. CASE j # i
      <4>1. isrcb'[j] = cb[j]
        BY <2>7, <3>3
      <4>2. \A S : S \cup {} = S
        OBVIOUS
      <4> QED
        BY <1>2, <3>3, <4>1, <4>2, ZenonT(30)
    <3> QED
      BY <3>2, <3>3
  <2>9. s.isr = i /\ s.isrpri = isrcb[i].isrpri /\ s.isrseq = isrcb[i].isrseq
    BY <1>2, <2>1
  <2> HIDE DEF s, g
  <2>10. /\ scan' \in [Prc -> [Que -> Scan]] /\ scan'[p][q] = s
         /\ \A o \in Prc, r \in Que : <<o, r>> # <<p, q>> => scan'[o][r] = scan[o][r]
         /\ hist' \in [Prc -> [Que -> History]] /\ hist'[p][q] = g
         /\ \A o \in Prc, r \in Que : <<o, r>> # <<p, q>> => hist'[o][r] = hist[o][r]
    BY <1>1, <2>2, <2>4, <2>5
  <2>11. Called(p, q, i)
    BY <2>7, <2>8, <2>9, <2>10 DEF Called
  <2> QED
    BY <1>4, <2>5, <2>10, <2>11 DEF i
<1> QED
  BY <1>3, <1>4

\* Registrations do not depend on the bits.
LEMMA SameRegistrations ==
    ASSUME TypeOK, NEW p \in Prc, NEW q \in Que, NEW i \in Isr \cup {NULL}, Called(p, q, i)
    PROVE  /\ \A r \in Isr \X Nat, o \in Que : Registered(r, o)' <=> Registered(r, o)
           /\ \A j, k \in Isr : IsrKeyGt(isrcb'[j], isrcb'[k]) <=> IsrKeyGt(isrcb[j], isrcb[k])
<1>1. \A j \in Isr :
        /\ isrcb'[j].exists = isrcb[j].exists /\ isrcb'[j].que = isrcb[j].que
        /\ isrcb'[j].isrpri = isrcb[j].isrpri /\ isrcb'[j].isrseq = isrcb[j].isrseq
  BY DEF Called
<1>2. ASSUME NEW r \in Isr \X Nat, NEW o \in Que
      PROVE  Registered(r, o)' <=> Registered(r, o)
  <2>1. r[1] \in Isr
    BY <1>2
  <2> QED
    BY <1>1, <2>1 DEF Registered
<1> QED
  BY <1>1, <1>2 DEF IsrKeyGt

\* A step keeps the existing routines, and calls no other.
SameExist == \A j \in Isr : isrcb'[j].exists = isrcb[j].exists
NoNewCalls == \A j \in Isr : ~isrcb[j].exists => isrcb'[j].running \subseteq isrcb[j].running

\* A step of call_isr.
LEMMA LookStep ==
    ASSUME IInv, NEW p \in Prc, NEW q \in Que, NEW at, NEW cb, NEW h,
           Looking(p, q, at, cb, h), CallNext(p, q, at, cb, h),
           nest' \in [Prc -> Seq(Que)],
           \A o \in Prc : o # p => nest'[o] = nest[o],
           IsInjective(nest'[p]),
           ToSet(nest'[p]) = IF at = {} THEN ToSet(nest[p]) \ {q} ELSE ToSet(nest[p]) \cup {q},
           queue' = queue, isrseq' = isrseq, free' = free, deleting' = deleting
    PROVE  IInv' /\ SameExist /\ NoNewCalls
<1> USE DEF IInv
<1>1. PICK i \in Isr \cup {NULL} :
         /\ Called(p, q, i)
         /\ i = NULL <=> at = {}
         /\ i # NULL => i \in Isr /\ isrcb[i].exists /\ isrcb[i].que = q
                        /\ isrcb[i].isrseq < isrseq[q]
         /\ i = NULL => hist'[p][q] = NoHist
         /\ i # NULL => /\ i = queue[q][FirstOf(at)]
                        /\ hist'[p][q].due = h.due
                        /\ hist'[p][q].called = Append(h.called, <<i, isrcb[i].isrseq>>)
  <2>1. CASE at = {}
    BY <2>1, CalledFacts
  <2>2. CASE at # {}
    <3> DEFINE i == queue[q][FirstOf(at)]
    <3>1. FirstOf(at) \in DOMAIN queue[q]
      BY <2>2, BlockFields, FirstOfFacts DEF Looking
    <3>2. i \in ToSet(queue[q]) /\ i \in Isr
      BY <3>1, BlockFields, Entries
    <3>3. isrcb[i].exists /\ isrcb[i].que = q /\ isrcb[i].isrseq < isrseq[q]
      BY <3>2 DEF QueuedBlocks
    <3>4. i # NULL
      BY <3>2, IsrAssumption
    <3>5. /\ Called(p, q, i)
          /\ hist'[p][q].due = h.due
          /\ hist'[p][q].called = Append(h.called, <<i, isrcb[i].isrseq>>)
      BY <2>2, CalledFacts
    <3> HIDE DEF i
    <3>6. i = queue[q][FirstOf(at)]
      BY DEF i
    <3> QED
      BY <2>2, <3>2, <3>3, <3>4, <3>5, <3>6
  <2> QED
    BY <2>1, <2>2
<1>2. /\ \A j \in Isr :
           /\ isrcb'[j].exists = isrcb[j].exists /\ isrcb'[j].que = isrcb[j].que
           /\ isrcb'[j].isrpri = isrcb[j].isrpri /\ isrcb'[j].isrseq = isrcb[j].isrseq
           /\ isrcb'[j].running =
                (IF j = scan[p][q].isr THEN isrcb[j].running \ {p} ELSE isrcb[j].running)
                \cup (IF j = i THEN {p} ELSE {})
      /\ \A o \in Prc, r \in Que : <<o, r>> # <<p, q>> => scan'[o][r] = scan[o][r]
      /\ \A o \in Prc, r \in Que : <<o, r>> # <<p, q>> => hist'[o][r] = hist[o][r]
      /\ scan'[p][q].isr = i
      /\ i # NULL => /\ scan'[p][q].isrpri = isrcb[i].isrpri
                     /\ scan'[p][q].isrseq = isrcb[i].isrseq
  BY <1>1 DEF Called
<1>3. TypeOK'
  BY <1>1 DEF TypeOK, Called
<1>4. FreeBlocks'
  <2>1. ASSUME NEW j \in ToSet(free) PROVE j \in Isr /\ j # i /\ isrcb[j].running = {}
    <3>1. j \in Isr /\ ~isrcb[j].exists /\ isrcb[j].running = {}
      BY BlockFields, Entries DEF FreeBlocks
    <3> QED
      BY <1>1, <3>1, IsrAssumption
  <2>2. \A j \in ToSet(free) : ~isrcb'[j].exists /\ isrcb'[j].running = {}
    BY <1>2, <2>1, SMTT(30) DEF FreeBlocks
  <2> QED
    BY <2>2 DEF FreeBlocks
<1>5. QueuedBlocks'
  <2>1. ASSUME NEW r \in Que
        PROVE  /\ {j \in Isr : isrcb'[j].exists /\ isrcb'[j].que = r} =
                  {j \in Isr : isrcb[j].exists /\ isrcb[j].que = r}
               /\ \A j \in ToSet(queue[r]) : j \in Isr /\ isrcb'[j].isrseq = isrcb[j].isrseq
    BY <1>2, BlockFields, Entries
  <2> QED
    BY <2>1 DEF QueuedBlocks
<1>6. QueueOrder'
  <2> SUFFICES ASSUME NEW r \in Que, NEW a \in DOMAIN queue[r], NEW b \in DOMAIN queue[r], a < b
               PROVE  IsrKeyGt(isrcb'[queue[r][b]], isrcb'[queue[r][a]])
    BY DEF QueueOrder, InOrder
  <2>1. queue[r][a] \in Isr /\ queue[r][b] \in Isr
    BY BlockFields, Entries
  <2>2. IsrKeyGt(isrcb[queue[r][b]], isrcb[queue[r][a]])
    BY DEF QueueOrder, InOrder
  <2> QED
    BY <1>1, <2>1, <2>2, SameRegistrations
<1>7. WaitedBlocks'
  <2> SUFFICES ASSUME NEW t \in Tsk, deleting[t] # NULL
               PROVE  /\ ~isrcb'[deleting[t]].exists
                      /\ deleting[t] \notin ToSet(free)
                      /\ \A u \in Tsk : deleting[u] = deleting[t] => u = t
    BY DEF WaitedBlocks
  <2>1. deleting[t] \in Isr
    BY BlockFields
  <2> QED
    BY <1>2, <2>1 DEF WaitedBlocks
<1>8. BlockHeld'
  <2> SUFFICES ASSUME NEW o \in Prc, NEW r \in Que, scan'[o][r].isr # NULL
               PROVE  /\ scan'[o][r].isr \notin ToSet(free)
                      /\ isrcb'[scan'[o][r].isr].que = r
                      /\ isrcb'[scan'[o][r].isr].isrpri = scan'[o][r].isrpri
                      /\ isrcb'[scan'[o][r].isr].isrseq = scan'[o][r].isrseq
                      /\ o \in isrcb'[scan'[o][r].isr].running
    BY DEF BlockHeld
  <2>1. CASE o = p /\ r = q
    <3>1. i # NULL /\ i \in Isr /\ i \notin ToSet(free)
      BY <1>1, <1>2, <2>1 DEF FreeBlocks
    <3> QED
      BY <1>1, <1>2, <2>1, <3>1
  <2>2. CASE <<o, r>> # <<p, q>>
    <3> DEFINE j == scan[o][r].isr
    <3>1. scan'[o][r] = scan[o][r] /\ j # NULL /\ j \in Isr
      BY <1>2, <2>2, BlockFields
    <3>2. /\ j \notin ToSet(free) /\ isrcb[j].que = r
          /\ isrcb[j].isrpri = scan[o][r].isrpri
          /\ isrcb[j].isrseq = scan[o][r].isrseq
          /\ o \in isrcb[j].running
      BY <3>1 DEF BlockHeld
    <3>3. j = scan[p][q].isr => r = q
      BY <3>1, <3>2 DEF BlockHeld
    <3>4. j # scan[p][q].isr \/ o # p
      BY <2>2, <3>3
    <3> HIDE DEF j
    <3>5. o \in isrcb'[j].running
      BY <1>2, <3>1, <3>2, <3>4
    <3>6. scan'[o][r].isr = j
      BY <3>1 DEF j
    <3> QED
      BY <1>2, <3>1, <3>2, <3>5, <3>6
  <2> QED
    BY <2>1, <2>2
<1>9. RunningBits'
  <2> SUFFICES ASSUME NEW j \in Isr, NEW o \in isrcb'[j].running
               PROVE  scan'[o][isrcb[j].que].isr = j
    BY <1>2 DEF RunningBits
  <2>1. o \in Prc /\ isrcb[j].que \in Que
    <3>1. isrcb[j].running \subseteq Prc /\ isrcb[j].que \in Que
      BY BlockFields
    <3>2. isrcb'[j].running \subseteq isrcb[j].running \cup {p}
      BY <1>2
    <3> QED
      BY <3>1, <3>2
  <2>2. CASE j = i /\ o = p
    BY <1>1, <1>2, <2>2, IsrAssumption
  <2>3. CASE ~(j = i /\ o = p)
    <3>1. o \in isrcb[j].running /\ ~(j = scan[p][q].isr /\ o = p)
      BY <1>2, <2>3
    <3>2. scan[o][isrcb[j].que].isr = j
      BY <3>1 DEF RunningBits
    <3>3. <<o, isrcb[j].que>> # <<p, q>>
      BY <3>1, <3>2
    <3> QED
      BY <1>2, <2>1, <3>2, <3>3
  <2> QED
    BY <2>2, <2>3
<1>10. Nested'
  <2> SUFFICES ASSUME NEW o \in Prc
               PROVE  /\ IsInjective(nest'[o])
                      /\ ToSet(nest'[o]) = {r \in Que : scan'[o][r].isr # NULL}
                      /\ \A r \in ToSet(nest'[o]) : scan'[o][r].isrseq < isrseq[r]
    BY DEF Nested
  <2>1. CASE o # p
    <3>1. nest'[o] = nest[o] /\ \A r \in Que : scan'[o][r] = scan[o][r]
      BY <1>2, <2>1
    <3>2. /\ IsInjective(nest[o])
          /\ ToSet(nest[o]) = {r \in Que : scan[o][r].isr # NULL}
          /\ \A r \in ToSet(nest[o]) : scan[o][r].isrseq < isrseq[r]
      BY DEF Nested
    <3>3. {r \in Que : scan'[o][r].isr # NULL} = {r \in Que : scan[o][r].isr # NULL}
      BY <3>1
    <3>4. \A r \in ToSet(nest[o]) : r \in Que
      BY <3>2
    <3> QED
      BY <3>1, <3>2, <3>3, <3>4
  <2>2. CASE o = p
    <3>1. /\ ToSet(nest[p]) = {r \in Que : scan[p][r].isr # NULL}
          /\ \A r \in ToSet(nest[p]) : scan[p][r].isrseq < isrseq[r]
      BY DEF Nested
    <3>2. \A r \in Que : r # q => scan'[p][r] = scan[p][r]
      BY <1>2
    <3>3. CASE i = NULL
      BY <1>1, <1>2, <2>2, <3>1, <3>2, <3>3, SMTT(30)
    <3>4. CASE i # NULL
      <4>1. /\ scan'[p][q].isr # NULL /\ scan'[p][q].isrseq < isrseq[q]
            /\ ToSet(nest'[p]) = ToSet(nest[p]) \cup {q} /\ IsInjective(nest'[p])
        BY <1>1, <1>2, <3>4
      <4>2. \A r \in Que : r \in ToSet(nest'[p]) <=> scan'[p][r].isr # NULL
        BY <3>1, <3>2, <4>1
      <4>3. \A r \in ToSet(nest'[p]) : r \in Que /\ scan'[p][r].isrseq < isrseq[r]
        BY <3>1, <3>2, <4>1
      <4> QED
        BY <2>2, <4>1, <4>2, <4>3
    <3> QED
      BY <3>3, <3>4
  <2> QED
    BY <2>1, <2>2
<1>11. Calls'
  <2> SUFFICES ASSUME NEW o \in Prc, NEW r \in Que
               PROVE  CallsSoFar(o, r)'
    BY DEF Calls
  <2>1. CASE <<o, r>> # <<p, q>>
    <3>1. scan'[o][r] = scan[o][r] /\ hist'[o][r] = hist[o][r]
      BY <1>2, <2>1
    <3>2. /\ IsInjective(hist[o][r].called)
          /\ \A x \in ToSet(hist[o][r].called) :
                x[2] < isrseq[r] /\ (Registered(x, r) => ~IsrKeyGt(isrcb[x[1]], scan[o][r]))
          /\ \A x \in hist[o][r].due :
                x \in ToSet(hist[o][r].called)
                \/ (Registered(x, r) /\ IsrKeyGt(isrcb[x[1]], scan[o][r]))
      BY DEF Calls, CallsSoFar
    <3>3. \A x \in ToSet(hist[o][r].called) \cup hist[o][r].due : x \in Isr \X Nat /\ x[1] \in Isr
      BY BlockFields, Entries
    <3>4. ASSUME NEW x \in ToSet(hist[o][r].called) \cup hist[o][r].due
          PROVE  /\ Registered(x, r)' <=> Registered(x, r)
                 /\ IsrKeyGt(isrcb'[x[1]], scan'[o][r]) <=> IsrKeyGt(isrcb[x[1]], scan[o][r])
      <4>1. x \in Isr \X Nat /\ x[1] \in Isr
        BY <3>3
      <4>2. Registered(x, r)' <=> Registered(x, r)
        BY <1>1, <4>1, SameRegistrations
      <4>3. isrcb'[x[1]].isrpri = isrcb[x[1]].isrpri /\ isrcb'[x[1]].isrseq = isrcb[x[1]].isrseq
        BY <1>2, <4>1
      <4> QED
        BY <3>1, <4>2, <4>3 DEF IsrKeyGt
    <3>5. \A x \in ToSet(hist[o][r].called) :
             /\ x[2] < isrseq[r]
             /\ Registered(x, r)' => ~IsrKeyGt(isrcb'[x[1]], scan'[o][r])
      BY <3>2, <3>4
    <3>6. \A x \in hist[o][r].due :
             x \in ToSet(hist[o][r].called)
             \/ (Registered(x, r)' /\ IsrKeyGt(isrcb'[x[1]], scan'[o][r]))
      BY <3>2, <3>4
    <3> QED
      BY <3>1, <3>2, <3>5, <3>6 DEF CallsSoFar
  <2>2. CASE o = p /\ r = q /\ i = NULL
    <3>1. hist'[p][q].called = << >> /\ hist'[p][q].due = {}
      BY <1>1, <2>2 DEF NoHist
    <3>2. IsInjective(<< >>) /\ ToSet(<< >>) = {}
      BY DEF IsInjective, ToSet
    <3> QED
      BY <2>2, <3>1, <3>2 DEF CallsSoFar
  <2>3. CASE o = p /\ r = q /\ i # NULL
    <3> DEFINE e == <<i, isrcb[i].isrseq>>
               z == FirstOf(at)
    <3>1. /\ i \in Isr /\ isrcb[i].exists /\ isrcb[i].que = q /\ isrcb[i].isrseq < isrseq[q]
          /\ i = queue[q][z] /\ hist'[p][q].due = h.due
          /\ hist'[p][q].called = Append(h.called, e)
      BY <1>1, <2>3
    <3>2. z \in at /\ (\A b \in at : z <= b) /\ at \subseteq DOMAIN queue[q]
      BY <1>1, <2>3, BlockFields, FirstOfFacts, ZenonT(30) DEF Looking
    <3>3. e \in Isr \X Nat /\ e[1] = i /\ e[2] = isrcb[i].isrseq
      BY <3>1, BlockFields
    <3> HIDE DEF z, e
    <3>4. /\ h.called \in Seq(Isr \X Nat) /\ h.due \subseteq Isr \X Nat
          /\ IsInjective(h.called)
          /\ \A x \in ToSet(h.called) :
                /\ x[2] < isrseq[q]
                /\ Registered(x, q) => \A a \in at : IsrKeyGt(isrcb[queue[q][a]], isrcb[x[1]])
          /\ \A x \in h.due :
                x \in ToSet(h.called) \/ (Registered(x, q) /\ \E a \in at : queue[q][a] = x[1])
      BY DEF Looking, History, Registration
    <3>5. /\ \A x \in ToSet(h.called) \cup h.due : x \in Isr \X Nat /\ x[1] \in Isr /\ x[2] \in Nat
          /\ \A x \in Isr \X Nat : x = <<x[1], x[2]>>
      BY <3>4, Entries
    <3>6. ASSUME NEW j \in Isr
          PROVE  /\ isrcb[j].isrpri \in Nat /\ isrcb[j].isrseq \in Nat
                 /\ ~IsrKeyGt(isrcb[i], isrcb[i])
                 /\ IsrKeyGt(isrcb[i], isrcb[j]) => ~IsrKeyGt(isrcb[j], isrcb[i])
                 /\ IsrKeyGt(isrcb'[j], scan'[p][q]) <=> IsrKeyGt(isrcb[j], isrcb[i])
      <4>1. /\ isrcb[j].isrpri \in Nat /\ isrcb[j].isrseq \in Nat
            /\ isrcb[i].isrpri \in Nat /\ isrcb[i].isrseq \in Nat
        BY <3>1, BlockFields
      <4>2. /\ isrcb'[j].isrpri = isrcb[j].isrpri /\ isrcb'[j].isrseq = isrcb[j].isrseq
            /\ scan'[p][q].isrpri = isrcb[i].isrpri /\ scan'[p][q].isrseq = isrcb[i].isrseq
        BY <1>2, <2>3
      <4> QED
        BY <4>1, <4>2 DEF IsrKeyGt
    <3>7. e \notin ToSet(h.called)
      <4>1. Registered(e, q)
        BY <3>1, <3>3 DEF Registered
      <4> QED
        BY <3>1, <3>2, <3>3, <3>4, <3>6, <4>1
    <3>8. /\ IsInjective(hist'[p][q].called)
          /\ ToSet(hist'[p][q].called) = ToSet(h.called) \cup {e}
      BY <3>1, <3>3, <3>4, <3>7, AppendFacts DEF QueueInsertPrev
    <3>9. ASSUME NEW x \in Isr \X Nat PROVE Registered(x, q)' <=> Registered(x, q)
      BY <1>1, SameRegistrations
    <3>10. ASSUME NEW x \in ToSet(h.called)
           PROVE  x[2] < isrseq[q] /\ (Registered(x, q)' => ~IsrKeyGt(isrcb'[x[1]], scan'[p][q]))
      BY <3>1, <3>2, <3>4, <3>5, <3>6, <3>9
    <3>11. ASSUME NEW x \in ToSet(hist'[p][q].called), x = e
           PROVE  x[2] < isrseq[q] /\ (Registered(x, q)' => ~IsrKeyGt(isrcb'[x[1]], scan'[p][q]))
      <4>1. x[1] = i /\ x[2] = isrcb[i].isrseq
        BY <3>3, <3>11
      <4> QED
        BY <3>1, <3>6, <4>1
    <3>12. ASSUME NEW x \in h.due, x \notin ToSet(h.called), x # e
           PROVE  Registered(x, q)' /\ IsrKeyGt(isrcb'[x[1]], scan'[p][q])
      <4>1. PICK a \in at : queue[q][a] = x[1]
        BY <3>4, <3>12
      <4>2. Registered(x, q) /\ x \in Isr \X Nat /\ x[1] \in Isr /\ x = <<x[1], x[2]>>
        BY <3>4, <3>5, <3>12
      <4>3. isrcb[x[1]].isrseq = x[2]
        BY <4>2 DEF Registered
      <4>4. a # z
        BY <3>1, <3>12, <4>1, <4>2, <4>3 DEF e
      <4>5. z < a /\ z \in DOMAIN queue[q] /\ a \in DOMAIN queue[q]
        <5>1. DOMAIN queue[q] \subseteq Nat
          <6>1. queue[q] \in Seq(Isr)
            BY BlockFields
          <6> QED
            BY <6>1, LenProperties
        <5>2. a \in Nat /\ z \in Nat /\ z <= a
          BY <3>2, <5>1
        <5> QED
          BY <3>2, <4>4, <5>2
      <4>6. IsrKeyGt(isrcb[x[1]], isrcb[i])
        BY <3>1, <4>1, <4>5 DEF QueueOrder, InOrder
      <4> QED
        BY <3>6, <3>9, <4>2, <4>6
    <3>13. \A x \in ToSet(hist'[p][q].called) :
              x[2] < isrseq[q] /\ (Registered(x, q)' => ~IsrKeyGt(isrcb'[x[1]], scan'[p][q]))
      <4> TAKE x \in ToSet(hist'[p][q].called)
      <4>1. CASE x = e
        BY <3>11, <4>1
      <4>2. CASE x # e
        <5>1. x \in ToSet(h.called)
          BY <3>8, <4>2
        <5> QED
          BY <3>10, <5>1
      <4> QED
        BY <4>1, <4>2
    <3>14. \A x \in hist'[p][q].due :
              x \in ToSet(hist'[p][q].called)
              \/ (Registered(x, q)' /\ IsrKeyGt(isrcb'[x[1]], scan'[p][q]))
      BY <3>1, <3>8, <3>12
    <3> QED
      BY <2>3, <3>8, <3>13, <3>14 DEF CallsSoFar
  <2> QED
    BY <2>1, <2>2, <2>3
<1>12. SameExist
  BY <1>2 DEF SameExist
<1>13. NoNewCalls
  <2> SUFFICES ASSUME NEW j \in Isr, ~isrcb[j].exists
               PROVE  isrcb'[j].running \subseteq isrcb[j].running
    BY DEF NoNewCalls
  <2>1. j # i
    BY <1>1, IsrAssumption
  <2> QED
    BY <1>2, <2>1
<1> QED
  BY <1>3, <1>4, <1>5, <1>6, <1>7, <1>8, <1>9, <1>10, <1>11, <1>12, <1>13

LEMMA InterruptStep ==
    ASSUME IInv, NEW p \in Prc, NEW q \in Que, Interrupt(p, q)
    PROVE  IInv' /\ SameExist /\ NoNewCalls
<1> DEFINE at == DOMAIN queue[q]
           due == {<<i, isrcb[i].isrseq>> : i \in ToSet(queue[q])}
           h == [due |-> due, called |-> << >>]
<1>1. TypeOK /\ QueuedBlocks /\ Nested
  BY DEF IInv
<1>2. /\ q \notin ToSet(nest[p]) /\ CallNext(p, q, at, isrcb, h)
      /\ nest' = [nest EXCEPT ![p] = IF queue[q] = << >> THEN @ ELSE <<q>> \o @]
      /\ UNCHANGED <<queue, isrseq, free, deleting>>
  <2> HIDE DEF due
  <2>1. [NoHist EXCEPT !.due = due] = h
    BY DEF NoHist
  <2> HIDE DEF h
  <2> USE DEF due
  <2> QED
    BY <2>1 DEF Interrupt
<1>3. queue[q] \in Seq(Isr) /\ nest \in [Prc -> Seq(Que)] /\ nest[p] \in Seq(Que)
  BY <1>1 DEF TypeOK
<1>4. scan[p][q].isr = NULL
  BY <1>1, <1>2 DEF Nested
<1>5. ASSUME NEW r \in due
      PROVE  r \in Isr \X Nat /\ Registered(r, q) /\ \E a \in at : queue[q][a] = r[1]
  <2>1. PICK i \in ToSet(queue[q]) : r = <<i, isrcb[i].isrseq>>
    OBVIOUS
  <2>2. i \in Isr /\ isrcb[i].isrseq \in Nat /\ isrcb[i].exists /\ isrcb[i].que = q
    BY <1>1, <1>3, Entries, BlockFields DEF QueuedBlocks
  <2>3. \E a \in at : queue[q][a] = i
    BY <1>3, Entries
  <2> QED
    BY <2>1, <2>2, <2>3 DEF Registered
<1>6. h.due = due /\ h.called = << >>
  OBVIOUS
<1>7. h \in History
  <2>1. due \in SUBSET Registration
    BY <1>5 DEF Registration
  <2> QED
    BY <2>1 DEF History
<1> HIDE DEF due, h
<1>8. Looking(p, q, at, isrcb, h)
  <2>1. IsInjective(h.called) /\ ToSet(h.called) = {}
    BY <1>6 DEF IsInjective, ToSet
  <2>2. isrcb \in [Isr -> ISRCB]
    BY <1>1 DEF TypeOK
  <2>3. \A i \in Isr : i # scan[p][q].isr
    BY <1>4, IsrAssumption
  <2> QED
    BY <1>5, <1>6, <1>7, <2>1, <2>2, <2>3 DEF Looking
<1>9. at = {} <=> queue[q] = << >>
  <2>1. ToSet(queue[q]) = {} <=> at = {}
    BY DEF ToSet
  <2> QED
    BY <1>3, <2>1, EmptyQueue
<1>10. IsInjective(nest[p])
  BY <1>1 DEF Nested
<1>11. /\ nest' \in [Prc -> Seq(Que)]
       /\ \A o \in Prc : o # p => nest'[o] = nest[o]
       /\ IsInjective(nest'[p])
       /\ ToSet(nest'[p]) = IF at = {} THEN ToSet(nest[p]) \ {q} ELSE ToSet(nest[p]) \cup {q}
  <2>1. /\ <<q>> \o nest[p] \in Seq(Que) /\ IsInjective(<<q>> \o nest[p])
        /\ ToSet(<<q>> \o nest[p]) = ToSet(nest[p]) \cup {q}
    BY <1>2, <1>3, <1>10, PushFacts
  <2> DEFINE s == <<q>> \o nest[p]
  <2>2. nest' = [nest EXCEPT ![p] = IF queue[q] = << >> THEN nest[p] ELSE s]
    BY <1>2
  <2>3. s \in Seq(Que) /\ IsInjective(s) /\ ToSet(s) = ToSet(nest[p]) \cup {q}
    BY <2>1
  <2> HIDE DEF s, at
  <2>4. CASE at = {}
    <3>1. nest' = [nest EXCEPT ![p] = nest[p]]
      BY <1>9, <2>2, <2>4
    <3>2. nest' \in [Prc -> Seq(Que)] /\ nest'[p] = nest[p]
          /\ \A o \in Prc : o # p => nest'[o] = nest[o]
      BY <1>3, <3>1
    <3> QED
      BY <1>2, <1>10, <2>4, <3>2
  <2>5. CASE at # {}
    <3>1. nest' = [nest EXCEPT ![p] = s]
      BY <1>9, <2>2, <2>5
    <3>2. nest' \in [Prc -> Seq(Que)] /\ nest'[p] = s
          /\ \A o \in Prc : o # p => nest'[o] = nest[o]
      BY <1>3, <2>3, <3>1
    <3> QED
      BY <2>3, <2>5, <3>2
  <2> QED
    BY <2>4, <2>5
<1> HIDE DEF at
<1> QED
  BY <1>2, <1>8, <1>11, LookStep

LEMMA IsrReturnStep ==
    ASSUME IInv, NEW p \in Prc, NEW q \in Que, IsrReturn(p, q)
    PROVE  IInv' /\ SameExist /\ NoNewCalls
<1> DEFINE at == Beyond(q, scan[p][q])
           i == scan[p][q].isr
           cb == [isrcb EXCEPT ![i].running = @ \ {p}]
<1>1. TypeOK /\ QueuedBlocks /\ Nested /\ Calls
  BY DEF IInv
<1>2. /\ nest[p] # << >> /\ Head(nest[p]) = q /\ CallNext(p, q, at, cb, hist[p][q])
      /\ nest' = [nest EXCEPT ![p] = IF at = {} THEN Tail(@) ELSE @]
      /\ UNCHANGED <<queue, isrseq, free, deleting>>
  BY DEF IsrReturn
<1>3. queue[q] \in Seq(Isr) /\ nest \in [Prc -> Seq(Que)] /\ nest[p] \in Seq(Que)
      /\ isrcb \in [Isr -> ISRCB] /\ IsInjective(nest[p])
  BY <1>1 DEF TypeOK, Nested
<1>4. q \in ToSet(nest[p]) /\ i # NULL /\ i \in Isr
  <2>1. q \in ToSet(nest[p])
    BY <1>2, <1>3, HeadFacts
  <2> QED
    BY <1>1, <2>1, BlockFields DEF Nested
<1>5. /\ cb \in [Isr -> ISRCB]
      /\ \A j \in Isr :
            /\ cb[j].exists = isrcb[j].exists /\ cb[j].que = isrcb[j].que
            /\ cb[j].isrpri = isrcb[j].isrpri /\ cb[j].isrseq = isrcb[j].isrseq
            /\ cb[j].running = IF j = i THEN isrcb[j].running \ {p} ELSE isrcb[j].running
  <2>1. isrcb[i] \in ISRCB
    BY <1>3, <1>4
  <2> DEFINE b == [isrcb[i] EXCEPT !.running = @ \ {p}]
  <2>2. /\ b \in ISRCB /\ b.exists = isrcb[i].exists /\ b.que = isrcb[i].que
        /\ b.isrpri = isrcb[i].isrpri /\ b.isrseq = isrcb[i].isrseq
        /\ b.running = isrcb[i].running \ {p}
    BY <2>1 DEF ISRCB
  <2>3. cb = [isrcb EXCEPT ![i] = b]
    OBVIOUS
  <2> HIDE DEF b, cb, i
  <2> QED
    BY <1>3, <1>4, <2>2, <2>3
<1>6. at \subseteq DOMAIN queue[q] /\ \A a \in at : IsrKeyGt(isrcb[queue[q][a]], scan[p][q])
  BY DEF Beyond
<1>7. /\ hist[p][q] \in History /\ IsInjective(hist[p][q].called)
      /\ \A r \in ToSet(hist[p][q].called) \cup hist[p][q].due : r \in Isr \X Nat /\ r[1] \in Isr
  <2>1. hist[p][q] \in History /\ IsInjective(hist[p][q].called)
    BY <1>1 DEF TypeOK, Calls, CallsSoFar
  <2>2. hist[p][q].called \in Seq(Isr \X Nat) /\ hist[p][q].due \subseteq Isr \X Nat
    BY <1>1, BlockFields
  <2> QED
    BY <2>1, <2>2, Entries
<1>8. ASSUME NEW r \in ToSet(hist[p][q].called)
      PROVE  /\ r[2] < isrseq[q]
             /\ Registered(r, q) => \A a \in at : IsrKeyGt(isrcb[queue[q][a]], isrcb[r[1]])
  <2>1. r[2] < isrseq[q] /\ (Registered(r, q) => ~IsrKeyGt(isrcb[r[1]], scan[p][q]))
    BY <1>1 DEF Calls, CallsSoFar
  <2>2. ASSUME NEW a \in at, ~IsrKeyGt(isrcb[r[1]], scan[p][q])
        PROVE  IsrKeyGt(isrcb[queue[q][a]], isrcb[r[1]])
    <3>1. queue[q][a] \in Isr /\ r[1] \in Isr
      BY <1>3, <1>6, <1>7, Entries
    <3>2. IsrKeyGt(isrcb[queue[q][a]], scan[p][q])
      BY <1>6
    <3>3. /\ isrcb[queue[q][a]].isrpri \in Nat /\ isrcb[queue[q][a]].isrseq \in Nat
          /\ isrcb[r[1]].isrpri \in Nat /\ isrcb[r[1]].isrseq \in Nat
          /\ scan[p][q].isrpri \in Nat /\ scan[p][q].isrseq \in Nat
      BY <1>1, <3>1, BlockFields
    <3> QED
      BY <2>2, <3>2, <3>3, KeyOrder
  <2> QED
    BY <2>1, <2>2
<1>9. ASSUME NEW r \in hist[p][q].due, r \notin ToSet(hist[p][q].called)
      PROVE  Registered(r, q) /\ \E a \in at : queue[q][a] = r[1]
  <2>1. Registered(r, q) /\ IsrKeyGt(isrcb[r[1]], scan[p][q])
    BY <1>1, <1>9 DEF Calls, CallsSoFar
  <2>2. r[1] \in ToSet(queue[q])
    BY <1>1, <1>7, <2>1 DEF Registered, QueuedBlocks
  <2>3. PICK a \in DOMAIN queue[q] : queue[q][a] = r[1]
    BY <1>3, <2>2, Entries
  <2> QED
    BY <2>1, <2>3 DEF Beyond
<1> HIDE DEF cb, at
<1>10. Looking(p, q, at, cb, hist[p][q])
  BY <1>5, <1>6, <1>7, <1>8, <1>9 DEF Looking
<1>11. /\ nest' \in [Prc -> Seq(Que)]
       /\ \A o \in Prc : o # p => nest'[o] = nest[o]
       /\ IsInjective(nest'[p])
       /\ ToSet(nest'[p]) = IF at = {} THEN ToSet(nest[p]) \ {q} ELSE ToSet(nest[p]) \cup {q}
  <2> DEFINE s == Tail(nest[p])
  <2>1. s \in Seq(Que) /\ IsInjective(s) /\ ToSet(s) = ToSet(nest[p]) \ {q}
    BY <1>2, <1>3, PopFacts
  <2>2. nest' = [nest EXCEPT ![p] = IF at = {} THEN s ELSE nest[p]]
    BY <1>2
  <2> HIDE DEF s
  <2>3. CASE at = {}
    <3>1. nest' \in [Prc -> Seq(Que)] /\ nest'[p] = s
          /\ \A o \in Prc : o # p => nest'[o] = nest[o]
      BY <1>3, <2>1, <2>2, <2>3
    <3> QED
      BY <2>1, <2>3, <3>1
  <2>4. CASE at # {}
    <3>1. nest' \in [Prc -> Seq(Que)] /\ nest'[p] = nest[p]
          /\ \A o \in Prc : o # p => nest'[o] = nest[o]
      BY <1>3, <2>2, <2>4
    <3> QED
      BY <1>3, <1>4, <2>4, <3>1
  <2> QED
    BY <2>3, <2>4
<1> QED
  BY <1>2, <1>10, <1>11, LookStep

----------------------------------------------------------------------------
\* The steps of tasks

LEMMA QuiesceStep ==
    ASSUME IInv, NEW t \in Tsk, Quiesce(t)
    PROVE  IInv'
<1> DEFINE d == deleting[t]
<1>1. /\ TypeOK /\ FreeBlocks /\ QueuedBlocks /\ QueueOrder /\ WaitedBlocks /\ BlockHeld
      /\ RunningBits /\ Nested /\ Calls
  BY DEF IInv
<1>2. /\ d # NULL /\ isrcb[d].running = {} /\ free' = QueueInsertPrev(free, d)
      /\ deleting' = [deleting EXCEPT ![t] = NULL]
      /\ UNCHANGED <<isrcb, queue, isrseq, scan, nest, hist>>
  BY DEF Quiesce
<1>3. d \in Isr /\ ~isrcb[d].exists /\ d \notin ToSet(free) /\ \A u \in Tsk : deleting[u] = d => u = t
  BY <1>1, <1>2, BlockFields DEF WaitedBlocks
<1>4. free \in Seq(Isr) /\ IsInjective(free) /\ deleting \in [Tsk -> Isr \cup {NULL}]
  BY <1>1 DEF TypeOK, FreeBlocks
<1>5. free' \in Seq(Isr) /\ IsInjective(free') /\ ToSet(free') = ToSet(free) \cup {d}
  BY <1>2, <1>3, <1>4, AppendFacts
<1>6. /\ deleting' \in [Tsk -> Isr \cup {NULL}]
      /\ \A u \in Tsk : deleting'[u] = IF u = t THEN NULL ELSE deleting[u]
  BY <1>2, <1>4
<1> HIDE DEF d
<1>7. TypeOK'
  BY <1>1, <1>2, <1>5, <1>6 DEF TypeOK
<1>8. FreeBlocks'
  BY <1>1, <1>2, <1>3, <1>5 DEF FreeBlocks
<1>9. WaitedBlocks'
  BY <1>1, <1>2, <1>3, <1>5, <1>6 DEF WaitedBlocks
<1>10. BlockHeld'
  <2> SUFFICES ASSUME NEW p \in Prc, NEW q \in Que, scan[p][q].isr # NULL
               PROVE  scan[p][q].isr # d
    BY <1>1, <1>2, <1>5 DEF BlockHeld
  <2>1. p \in isrcb[scan[p][q].isr].running
    BY <1>1 DEF BlockHeld
  <2> QED
    BY <1>2, <2>1
<1>11. QueuedBlocks' /\ QueueOrder' /\ RunningBits' /\ Nested'
  BY <1>1, <1>2 DEF QueuedBlocks, QueueOrder, InOrder, RunningBits, Nested, IsrKeyGt
<1>12. Calls'
  BY <1>1, <1>2 DEF Calls, CallsSoFar, Registered, IsrKeyGt
<1> QED
  BY <1>7, <1>8, <1>9, <1>10, <1>11, <1>12 DEF IInv

LEMMA TerminateStep ==
    ASSUME IInv, NEW t \in Tsk, Terminate(t)
    PROVE  IInv'
<1>1. /\ TypeOK /\ FreeBlocks /\ QueuedBlocks /\ QueueOrder /\ WaitedBlocks /\ BlockHeld
      /\ RunningBits /\ Nested /\ Calls
  BY DEF IInv
<1>2. /\ deleting' = [deleting EXCEPT ![t] = NULL]
      /\ UNCHANGED <<isrcb, queue, isrseq, free, scan, nest, hist>>
  BY DEF Terminate
<1>3. deleting \in [Tsk -> Isr \cup {NULL}]
  BY <1>1 DEF TypeOK
<1>4. /\ deleting' \in [Tsk -> Isr \cup {NULL}]
      /\ \A u \in Tsk : deleting'[u] = IF u = t THEN NULL ELSE deleting[u]
  BY <1>2, <1>3
<1>5. TypeOK'
  BY <1>1, <1>2, <1>4 DEF TypeOK
<1>6. WaitedBlocks'
  BY <1>1, <1>2, <1>4 DEF WaitedBlocks
<1>7. FreeBlocks' /\ QueuedBlocks' /\ QueueOrder' /\ BlockHeld' /\ RunningBits' /\ Nested'
  BY <1>1, <1>2 DEF FreeBlocks, QueuedBlocks, QueueOrder, InOrder, BlockHeld, RunningBits,
                    Nested, IsrKeyGt
<1>8. Calls'
  BY <1>1, <1>2 DEF Calls, CallsSoFar, Registered, IsrKeyGt
<1> QED
  BY <1>5, <1>6, <1>7, <1>8 DEF IInv

\* What the executions of call_isr have to call changes in one queue.
LEMMA DueFacts ==
    ASSUME hist \in [Prc -> [Que -> History]], NEW k \in Que,
           NEW D \in [Prc -> SUBSET Registration],
           hist' = [p \in Prc |-> [hist[p] EXCEPT ![k].due = D[p]]]
    PROVE  /\ hist' \in [Prc -> [Que -> History]]
           /\ \A p \in Prc, q \in Que :
                 /\ hist'[p][q].called = hist[p][q].called
                 /\ hist'[p][q].due = IF q = k THEN D[p] ELSE hist[p][q].due
<1>1. ASSUME NEW p \in Prc
      PROVE  /\ hist'[p] \in [Que -> History]
             /\ \A q \in Que :
                   /\ hist'[p][q].called = hist[p][q].called
                   /\ hist'[p][q].due = IF q = k THEN D[p] ELSE hist[p][q].due
  <2>1. hist[p] \in [Que -> History] /\ hist[p][k] \in History /\ D[p] \in SUBSET Registration
    OBVIOUS
  <2> DEFINE e == [hist[p][k] EXCEPT !.due = D[p]]
  <2>2. e \in History /\ e.called = hist[p][k].called /\ e.due = D[p]
    BY <2>1 DEF History
  <2>3. hist'[p] = [hist[p] EXCEPT ![k] = e]
    OBVIOUS
  <2> HIDE DEF e
  <2> QED
    BY <2>1, <2>2, <2>3
<1> QED
  BY <1>1

LEMMA DeleteStep ==
    ASSUME IInv, NEW t \in Tsk, NEW i \in Isr, del_isr(t, i)
    PROVE  IInv'
<1> DEFINE k == isrcb[i].que
           s == QueueDelete(queue[k], i)
           D == [p \in Prc |-> hist[p][k].due \ {<<i, isrcb[i].isrseq>>}]
<1>1. /\ TypeOK /\ FreeBlocks /\ QueuedBlocks /\ QueueOrder /\ WaitedBlocks /\ BlockHeld
      /\ RunningBits /\ Nested /\ Calls
  BY DEF IInv
<1>2. /\ isrcb[i].exists /\ queue' = [queue EXCEPT ![k] = s]
      /\ isrcb' = [isrcb EXCEPT ![i].exists = FALSE]
      /\ hist' = NotDue(i)
      /\ IF isrcb[i].running = {}
           THEN free' = QueueInsertPrev(free, i) /\ UNCHANGED deleting
           ELSE deleting' = [deleting EXCEPT ![t] = i] /\ UNCHANGED free
      /\ UNCHANGED <<isrseq, scan, nest>> /\ deleting[t] = NULL
  BY DEF del_isr, TaskCalls
<1>3. /\ isrcb \in [Isr -> ISRCB] /\ free \in Seq(Isr) /\ queue \in [Que -> Seq(Isr)]
      /\ deleting \in [Tsk -> Isr \cup {NULL}] /\ hist \in [Prc -> [Que -> History]]
      /\ k \in Que /\ queue[k] \in Seq(Isr) /\ IsInjective(free) /\ IsInjective(queue[k])
  BY <1>1, BlockFields DEF TypeOK, FreeBlocks, QueuedBlocks
<1>4. /\ i \in ToSet(queue[k]) /\ i \notin ToSet(free)
      /\ \A u \in Tsk : deleting[u] # i
  <2>1. i # NULL
    BY IsrAssumption
  <2> QED
    BY <1>1, <1>2, <1>3, <2>1 DEF QueuedBlocks, FreeBlocks, WaitedBlocks
<1>5. /\ isrcb' \in [Isr -> ISRCB]
      /\ \A j \in Isr :
            /\ isrcb'[j].exists = (isrcb[j].exists /\ j # i)
            /\ isrcb'[j].que = isrcb[j].que /\ isrcb'[j].running = isrcb[j].running
            /\ isrcb'[j].isrpri = isrcb[j].isrpri /\ isrcb'[j].isrseq = isrcb[j].isrseq
  <2> DEFINE b == [isrcb[i] EXCEPT !.exists = FALSE]
  <2>1. /\ b \in ISRCB /\ b.exists = FALSE /\ b.que = isrcb[i].que
        /\ b.isrpri = isrcb[i].isrpri /\ b.isrseq = isrcb[i].isrseq
        /\ b.running = isrcb[i].running
    BY <1>3 DEF ISRCB
  <2>2. isrcb' = [isrcb EXCEPT ![i] = b]
    BY <1>2
  <2> HIDE DEF b
  <2>3. isrcb' \in [Isr -> ISRCB] /\ \A j \in Isr : isrcb'[j] = IF j = i THEN b ELSE isrcb[j]
    BY <1>3, <2>1, <2>2
  <2>4. \A j \in Isr : isrcb[j].exists \in BOOLEAN
    BY <1>1, BlockFields
  <2> QED
    BY <2>1, <2>3, <2>4
<1>6. s \in Seq(Isr) /\ IsInjective(s) /\ ToSet(s) = ToSet(queue[k]) \ {i}
  BY <1>3, <1>4, DeleteFacts
<1>7. /\ hist' \in [Prc -> [Que -> History]]
      /\ \A p \in Prc, q \in Que :
            /\ hist'[p][q].called = hist[p][q].called
            /\ hist'[p][q].due = IF q = k THEN D[p] ELSE hist[p][q].due
  <2>1. \A p \in Prc : hist[p][k].due \in SUBSET Registration
    BY <1>1, <1>3, BlockFields DEF Registration
  <2>2. D \in [Prc -> SUBSET Registration]
    BY <2>1
  <2>3. hist' = [p \in Prc |-> [hist[p] EXCEPT ![k].due = D[p]]]
    BY <1>2 DEF NotDue
  <2>4. hist \in [Prc -> [Que -> History]] /\ k \in Que
    BY <1>3
  <2> HIDE DEF D, k
  <2> QED
    BY <2>2, <2>3, <2>4, DueFacts, Zenon
<1>8. \A p \in Prc : D[p] = hist[p][k].due \ {<<i, isrcb[i].isrseq>>}
  OBVIOUS
<1>9. /\ queue' \in [Que -> Seq(Isr)] /\ queue'[k] = s
      /\ \A q \in Que : q # k => queue'[q] = queue[q]
  <2> HIDE DEF s, k
  <2> QED
    BY <1>2, <1>3, <1>6
<1>10. /\ free' \in Seq(Isr) /\ IsInjective(free') /\ ToSet(free) \subseteq ToSet(free')
       /\ ToSet(free') \subseteq ToSet(free) \cup {i}
       /\ i \in ToSet(free') => isrcb[i].running = {}
       /\ deleting' \in [Tsk -> Isr \cup {NULL}]
       /\ \A u \in Tsk : deleting'[u] = deleting[u]
                         \/ (u = t /\ deleting'[u] = i /\ isrcb[i].running # {})
  <2>1. CASE isrcb[i].running = {}
    <3>1. free' = QueueInsertPrev(free, i) /\ deleting' = deleting
      BY <1>2, <2>1
    <3>2. /\ free' \in Seq(Isr) /\ IsInjective(free')
          /\ ToSet(free') = ToSet(free) \cup {i}
      BY <1>3, <1>4, <3>1, AppendFacts
    <3> QED
      BY <1>3, <2>1, <3>1, <3>2
  <2>2. CASE isrcb[i].running # {}
    <3>1. free' = free /\ deleting' = [deleting EXCEPT ![t] = i]
      BY <1>2, <2>2
    <3> QED
      BY <1>3, <1>4, <2>2, <3>1
  <2> QED
    BY <2>1, <2>2
<1> HIDE DEF k, s, D
<1>11. TypeOK'
  BY <1>1, <1>2, <1>5, <1>7, <1>9, <1>10 DEF TypeOK
<1>12. FreeBlocks'
  <2> SUFFICES ASSUME NEW j \in ToSet(free')
               PROVE  ~isrcb'[j].exists /\ isrcb'[j].running = {}
    BY <1>10 DEF FreeBlocks
  <2>1. j \in Isr
    BY <1>10, Entries
  <2>2. CASE j = i
    BY <1>5, <1>10, <2>2
  <2>3. CASE j # i
    <3>1. j \in ToSet(free)
      BY <1>10, <2>3
    <3>2. ~isrcb[j].exists /\ isrcb[j].running = {}
      BY <1>1, <3>1 DEF FreeBlocks
    <3> QED
      BY <1>5, <2>1, <3>2
  <2> QED
    BY <2>2, <2>3
<1>13. QueuedBlocks'
  <2> SUFFICES ASSUME NEW q \in Que
               PROVE  /\ IsInjective(queue'[q])
                      /\ ToSet(queue'[q]) = {j \in Isr : isrcb'[j].exists /\ isrcb'[j].que = q}
                      /\ \A j \in ToSet(queue'[q]) : isrcb'[j].isrseq < isrseq[q]
    BY <1>2 DEF QueuedBlocks
  <2>1. /\ IsInjective(queue[q])
        /\ ToSet(queue[q]) = {j \in Isr : isrcb[j].exists /\ isrcb[j].que = q}
        /\ \A j \in ToSet(queue[q]) : j \in Isr /\ isrcb[j].isrseq < isrseq[q]
    BY <1>1 DEF QueuedBlocks
  <2>2. CASE q = k
    <3>1. ASSUME NEW j \in Isr
          PROVE  j \in ToSet(queue'[q]) <=> isrcb'[j].exists /\ isrcb'[j].que = q
      <4>1. j \in ToSet(queue'[q]) <=> j \in ToSet(queue[q]) /\ j # i
        BY <1>6, <1>9, <2>2
      <4>2. j \in ToSet(queue[q]) <=> isrcb[j].exists /\ isrcb[j].que = q
        BY <2>1
      <4> QED
        BY <1>5, <4>1, <4>2
    <3>2. \A j \in ToSet(queue'[q]) : j \in Isr /\ j \in ToSet(queue[q])
      BY <1>6, <1>9, <2>1, <2>2
    <3>3. \A j \in ToSet(queue'[q]) : isrcb'[j].isrseq < isrseq[q]
      BY <1>5, <2>1, <3>2
    <3>4. IsInjective(queue'[q])
      BY <1>6, <1>9, <2>2
    <3> QED
      BY <3>1, <3>2, <3>3, <3>4
  <2>3. CASE q # k
    <3>1. queue'[q] = queue[q] /\ isrcb[i].que # q
      BY <1>9, <2>3 DEF k
    <3>2. \A j \in Isr : j \in ToSet(queue'[q]) <=> isrcb'[j].exists /\ isrcb'[j].que = q
      BY <1>5, <2>1, <3>1
    <3> QED
      BY <1>5, <2>1, <3>1, <3>2
  <2> QED
    BY <2>2, <2>3
<1>14. QueueOrder'
  <2> SUFFICES ASSUME NEW q \in Que, NEW a \in DOMAIN queue'[q], NEW b \in DOMAIN queue'[q], a < b
               PROVE  IsrKeyGt(isrcb'[queue'[q][b]], isrcb'[queue'[q][a]])
    BY DEF QueueOrder, InOrder
  <2>1. PICK c, d \in DOMAIN queue[q] :
           c < d /\ queue'[q][a] = queue[q][c] /\ queue'[q][b] = queue[q][d]
    <3>1. CASE q = k
      BY <1>3, <1>4, <1>9, <3>1, DeleteOrder DEF s
    <3>2. CASE q # k
      BY <1>9, <3>2
    <3> QED
      BY <3>1, <3>2
  <2>2. queue[q][c] \in Isr /\ queue[q][d] \in Isr
    BY <1>3, Entries
  <2>3. IsrKeyGt(isrcb[queue[q][d]], isrcb[queue[q][c]])
    BY <1>1, <2>1 DEF QueueOrder, InOrder
  <2> QED
    BY <1>5, <2>1, <2>2, <2>3 DEF IsrKeyGt
<1>15. WaitedBlocks'
  <2> SUFFICES ASSUME NEW u \in Tsk, deleting'[u] # NULL
               PROVE  /\ ~isrcb'[deleting'[u]].exists
                      /\ deleting'[u] \notin ToSet(free')
                      /\ \A v \in Tsk : deleting'[v] = deleting'[u] => v = u
    BY DEF WaitedBlocks
  <2>1. CASE deleting'[u] = deleting[u]
    <3>1. deleting[u] # i /\ deleting[u] \in Isr
      BY <1>3, <1>4, <2>1
    <3>2. /\ ~isrcb[deleting[u]].exists /\ deleting[u] \notin ToSet(free)
          /\ \A v \in Tsk : deleting[v] = deleting[u] => v = u
      BY <1>1, <2>1 DEF WaitedBlocks
    <3> QED
      BY <1>5, <1>10, <2>1, <3>1, <3>2
  <2>2. CASE u = t /\ deleting'[u] = i /\ isrcb[i].running # {}
    <3>1. i \notin ToSet(free') /\ ~isrcb'[i].exists
      BY <1>5, <1>10, <2>2
    <3>2. \A v \in Tsk : deleting'[v] = i => v = t
      BY <1>4, <1>10
    <3> QED
      BY <2>2, <3>1, <3>2
  <2> QED
    BY <1>10, <2>1, <2>2
<1>16. BlockHeld'
  <2> SUFFICES ASSUME NEW p \in Prc, NEW q \in Que, NEW j, j = scan[p][q].isr, j # NULL
               PROVE  /\ j \notin ToSet(free') /\ isrcb'[j].que = q
                      /\ isrcb'[j].isrpri = scan[p][q].isrpri
                      /\ isrcb'[j].isrseq = scan[p][q].isrseq
                      /\ p \in isrcb'[j].running
    BY <1>2 DEF BlockHeld
  <2>1. j \in Isr
    BY <1>1, BlockFields
  <2>2. /\ j \notin ToSet(free) /\ isrcb[j].que = q
        /\ isrcb[j].isrpri = scan[p][q].isrpri
        /\ isrcb[j].isrseq = scan[p][q].isrseq
        /\ p \in isrcb[j].running
    BY <1>1 DEF BlockHeld
  <2> QED
    BY <1>5, <1>10, <2>1, <2>2
<1>17. RunningBits' /\ Nested'
  <2>1. RunningBits'
    BY <1>1, <1>2, <1>5 DEF RunningBits
  <2>2. Nested'
    BY <1>1, <1>2 DEF Nested
  <2> QED
    BY <2>1, <2>2
<1>18. Calls'
  <2> SUFFICES ASSUME NEW p \in Prc, NEW q \in Que
               PROVE  CallsSoFar(p, q)'
    BY DEF Calls
  <2>1. /\ IsInjective(hist[p][q].called)
        /\ \A r \in ToSet(hist[p][q].called) :
              r[2] < isrseq[q] /\ (Registered(r, q) => ~IsrKeyGt(isrcb[r[1]], scan[p][q]))
        /\ \A r \in hist[p][q].due :
              r \in ToSet(hist[p][q].called)
              \/ (Registered(r, q) /\ IsrKeyGt(isrcb[r[1]], scan[p][q]))
    BY <1>1 DEF Calls, CallsSoFar
  <2>2. \A r \in ToSet(hist[p][q].called) \cup hist[p][q].due :
           r \in Isr \X Nat /\ r[1] \in Isr /\ r = <<r[1], r[2]>>
    <3>1. \A r \in ToSet(hist[p][q].called) \cup hist[p][q].due : r \in Isr \X Nat
      BY <1>1, BlockFields, Entries
    <3> QED
      BY <3>1
  <2>3. ASSUME NEW r \in ToSet(hist[p][q].called) \cup hist[p][q].due
        PROVE  /\ Registered(r, q)' <=> Registered(r, q) /\ r[1] # i
               /\ IsrKeyGt(isrcb'[r[1]], scan'[p][q]) <=> IsrKeyGt(isrcb[r[1]], scan[p][q])
    <3>1. r[1] \in Isr
      BY <2>2
    <3>2. /\ isrcb'[r[1]].exists = (isrcb[r[1]].exists /\ r[1] # i)
          /\ isrcb'[r[1]].que = isrcb[r[1]].que
          /\ isrcb'[r[1]].isrpri = isrcb[r[1]].isrpri /\ isrcb'[r[1]].isrseq = isrcb[r[1]].isrseq
      BY <1>5, <3>1
    <3> QED
      BY <1>2, <3>2 DEF Registered, IsrKeyGt
  <2>4. hist'[p][q].called = hist[p][q].called /\ hist'[p][q].due \subseteq hist[p][q].due
    BY <1>7, <1>8
  <2>5. ASSUME NEW r \in hist'[p][q].due, r \notin ToSet(hist[p][q].called)
        PROVE  Registered(r, q)' /\ IsrKeyGt(isrcb'[r[1]], scan'[p][q])
    <3>1. Registered(r, q) /\ IsrKeyGt(isrcb[r[1]], scan[p][q])
      BY <2>1, <2>4, <2>5
    <3>2. ASSUME r[1] = i PROVE FALSE
      <4>1. q = k /\ r[2] = isrcb[i].isrseq
        BY <3>1, <3>2 DEF Registered, k
      <4>2. r = <<i, isrcb[i].isrseq>>
        BY <2>2, <2>4, <3>2, <4>1
      <4> QED
        BY <1>7, <1>8, <4>1, <4>2
    <3> QED
      BY <2>3, <2>4, <3>1, <3>2
  <2>6. \A r \in ToSet(hist'[p][q].called) :
           r[2] < isrseq'[q] /\ (Registered(r, q)' => ~IsrKeyGt(isrcb'[r[1]], scan'[p][q]))
    BY <1>2, <2>1, <2>3, <2>4
  <2> QED
    BY <2>1, <2>4, <2>5, <2>6 DEF CallsSoFar
<1> QED
  BY <1>11, <1>12, <1>13, <1>14, <1>15, <1>16, <1>17, <1>18 DEF IInv

\* Where enqueue_isr puts a routine of priority pri: behind those with a smaller
\* key and before those with a greater one.
LEMMA PositionFacts ==
    ASSUME IInv, NEW q \in Que, NEW pri \in IsrPri
    PROVE  /\ IsrPosition(q, pri) \in 1 .. Len(queue[q]) + 1
           /\ \A a \in DOMAIN queue[q] :
                 /\ a < IsrPosition(q, pri) => isrcb[queue[q][a]].isrpri <= pri
                 /\ a >= IsrPosition(q, pri) => isrcb[queue[q][a]].isrpri > pri
<1> DEFINE I == {a \in DOMAIN queue[q] : pri < isrcb[queue[q][a]].isrpri}
           n == IsrPosition(q, pri)
<1>1. TypeOK /\ QueueOrder
  BY DEF IInv
<1>2. /\ queue[q] \in Seq(Isr) /\ Len(queue[q]) \in Nat /\ DOMAIN queue[q] = 1 .. Len(queue[q])
      /\ pri \in Nat
      /\ \A a \in DOMAIN queue[q] : queue[q][a] \in Isr
  BY <1>1, BlockFields, Entries, IsrAssumption
<1>3. \A a \in DOMAIN queue[q] :
         isrcb[queue[q][a]].isrpri \in Nat /\ isrcb[queue[q][a]].isrseq \in Nat
  BY <1>1, <1>2, BlockFields
<1>4. I \in SUBSET DOMAIN queue[q]
  OBVIOUS
<1>5. n = FirstOrEnd(queue[q], I)
  BY DEF IsrPosition
<1>6. n \in 1 .. Len(queue[q]) + 1 /\ n \in I \cup {Len(queue[q]) + 1} /\ \A a \in I : n <= a
  <2> HIDE DEF I, n
  <2> QED
    BY <1>2, <1>4, <1>5, FirstOrEndFacts, FirstOrEndLeast
<1> HIDE DEF n
<1>7. ASSUME NEW a \in DOMAIN queue[q], a < n PROVE isrcb[queue[q][a]].isrpri <= pri
  <2>1. a \notin I
    BY <1>2, <1>6, <1>7
  <2> QED
    BY <1>2, <1>3, <2>1
<1>8. ASSUME NEW a \in DOMAIN queue[q], a >= n PROVE isrcb[queue[q][a]].isrpri > pri
  <2>1. n \in I
    BY <1>2, <1>6, <1>8
  <2>2. CASE a = n
    BY <2>1, <2>2
  <2>3. CASE a # n
    <3>1. n < a
      BY <1>2, <1>6, <1>8, <2>3
    <3>2. IsrKeyGt(isrcb[queue[q][a]], isrcb[queue[q][n]])
      BY <1>1, <2>1, <3>1 DEF QueueOrder, InOrder
    <3>3. isrcb[queue[q][n]].isrpri > pri /\ n \in DOMAIN queue[q]
      BY <2>1
    <3> QED
      BY <1>2, <1>3, <3>2, <3>3 DEF IsrKeyGt
  <2> QED
    BY <2>2, <2>3
<1> QED
  BY <1>6, <1>7, <1>8 DEF n

LEMMA CreateStep ==
    ASSUME IInv, NEW t \in Tsk, NEW q \in Que, NEW pri \in IsrPri, acre_isr(t, q, pri)
    PROVE  IInv'
<1> DEFINE i == Head(free)
           n == IsrPosition(q, pri)
           s == InsertAt(queue[q], n, i)
           b == [exists |-> TRUE, isrpri |-> pri, que |-> q,
                 isrseq |-> isrseq[q], running |-> {}]
           e == <<i, isrseq[q]>>
           D == [p \in Prc |-> IF q \in ToSet(nest[p]) /\ pri >= scan[p][q].isrpri
                                 THEN hist[p][q].due \cup {e} ELSE hist[p][q].due]
<1>1. /\ TypeOK /\ FreeBlocks /\ QueuedBlocks /\ QueueOrder /\ WaitedBlocks /\ BlockHeld
      /\ RunningBits /\ Nested /\ Calls
  BY DEF IInv
<1>2. /\ isrseq[q] < MaxSeq /\ free # << >> /\ free' = QueueDelete(free, i)
      /\ isrcb' = [isrcb EXCEPT ![i] = b]
      /\ isrseq' = [isrseq EXCEPT ![q] = isrseq[q] + 1]
      /\ queue' = [queue EXCEPT ![q] = s]
      /\ hist' = [p \in Prc |-> [hist[p] EXCEPT ![q].due =
               IF q \in ToSet(nest[p]) /\ pri >= scan[p][q].isrpri
                 THEN @ \cup {e} ELSE @]]
      /\ UNCHANGED <<scan, nest, deleting>>
  BY DEF acre_isr, IsrNumber
<1>3. /\ isrcb \in [Isr -> ISRCB] /\ free \in Seq(Isr) /\ queue \in [Que -> Seq(Isr)]
      /\ isrseq \in [Que -> 0 .. MaxSeq] /\ isrseq[q] \in Nat /\ MaxSeq \in Nat
      /\ hist \in [Prc -> [Que -> History]]
      /\ queue[q] \in Seq(Isr) /\ IsInjective(free) /\ IsInjective(queue[q]) /\ pri \in Nat
  BY <1>1, BlockFields, IsrAssumption DEF TypeOK, FreeBlocks, QueuedBlocks
<1>4. i \in ToSet(free) /\ i \in Isr /\ i # NULL
  BY <1>2, <1>3, HeadFacts, IsrAssumption
<1>5. /\ ~isrcb[i].exists /\ isrcb[i].running = {}
      /\ \A r \in Que : i \notin ToSet(queue[r])
      /\ \A u \in Tsk : deleting[u] # i
      /\ \A p \in Prc, r \in Que : scan[p][r].isr # i
  BY <1>1, <1>4 DEF FreeBlocks, QueuedBlocks, WaitedBlocks, BlockHeld
<1>6. free' \in Seq(Isr) /\ IsInjective(free') /\ ToSet(free') = ToSet(free) \ {i}
  BY <1>2, <1>3, <1>4, DeleteFacts
<1>7. n \in 1 .. Len(queue[q]) + 1
  BY PositionFacts
<1>8. /\ s \in Seq(Isr) /\ IsInjective(s) /\ ToSet(s) = ToSet(queue[q]) \cup {i}
      /\ Inserted(queue[q], n, i, s)
  BY <1>3, <1>4, <1>5, <1>7, InsertFacts, InsertPositions
<1>9. b \in ISRCB
  BY <1>3 DEF ISRCB
<1>10. /\ b.exists /\ b.isrpri = pri /\ b.que = q /\ b.isrseq = isrseq[q] /\ b.running = {}
  OBVIOUS
<1>11. /\ hist' \in [Prc -> [Que -> History]]
       /\ \A p \in Prc, r \in Que :
             /\ hist'[p][r].called = hist[p][r].called
             /\ hist'[p][r].due = IF r = q THEN D[p] ELSE hist[p][r].due
  <2>1. e \in Registration
    BY <1>3, <1>4 DEF Registration
  <2>2. \A p \in Prc : hist[p][q].due \in SUBSET Registration
    BY <1>1, BlockFields DEF Registration
  <2> HIDE DEF e
  <2>3. D \in [Prc -> SUBSET Registration]
    BY <2>1, <2>2
  <2>4. hist' = [p \in Prc |-> [hist[p] EXCEPT ![q].due = D[p]]]
    BY <1>2
  <2> HIDE DEF D
  <2>5. hist \in [Prc -> [Que -> History]] /\ q \in Que
    BY <1>3
  <2> QED
    BY <2>3, <2>4, <2>5, DueFacts, Zenon
<1>12. \A p \in Prc : D[p] \subseteq hist[p][q].due \cup {e}
                      /\ (e \in D[p] => e \in hist[p][q].due
                                        \/ (q \in ToSet(nest[p]) /\ pri >= scan[p][q].isrpri))
  BY DEF e
<1>13. e[1] = i /\ e[2] = isrseq[q]
  OBVIOUS
<1> HIDE DEF i, n, s, b, e, D
<1>14. isrcb' \in [Isr -> ISRCB] /\ \A j \in Isr : isrcb'[j] = IF j = i THEN b ELSE isrcb[j]
  BY <1>2, <1>3, <1>4, <1>9
<1>15. /\ isrseq' \in [Que -> 0 .. MaxSeq] /\ isrseq'[q] = isrseq[q] + 1
       /\ \A r \in Que : isrseq[r] \in Nat /\ isrseq'[r] \in Nat /\ isrseq[r] <= isrseq'[r]
  <2>1. isrseq[q] + 1 \in 0 .. MaxSeq
    BY <1>2, <1>3
  <2>2. isrseq' \in [Que -> 0 .. MaxSeq] /\ isrseq'[q] = isrseq[q] + 1
        /\ \A r \in Que : r # q => isrseq'[r] = isrseq[r]
    BY <1>2, <1>3, <2>1
  <2>3. \A r \in Que : isrseq[r] \in Nat
    BY <1>3
  <2> QED
    BY <2>2, <2>3
<1>16. /\ queue' \in [Que -> Seq(Isr)] /\ queue'[q] = s
       /\ \A r \in Que : r # q => queue'[r] = queue[r]
  BY <1>2, <1>3, <1>8
<1>17. TypeOK'
  BY <1>1, <1>2, <1>6, <1>11, <1>14, <1>15, <1>16 DEF TypeOK
<1>18. FreeBlocks'
  <2> SUFFICES ASSUME NEW j \in ToSet(free')
               PROVE  ~isrcb'[j].exists /\ isrcb'[j].running = {}
    BY <1>6 DEF FreeBlocks
  <2>1. j \in Isr /\ j # i /\ j \in ToSet(free)
    BY <1>3, <1>6, Entries
  <2>2. isrcb'[j] = isrcb[j]
    BY <1>14, <2>1
  <2> QED
    BY <1>1, <2>1, <2>2 DEF FreeBlocks
<1>19. QueuedBlocks'
  <2> SUFFICES ASSUME NEW r \in Que
               PROVE  /\ IsInjective(queue'[r])
                      /\ ToSet(queue'[r]) = {j \in Isr : isrcb'[j].exists /\ isrcb'[j].que = r}
                      /\ \A j \in ToSet(queue'[r]) : isrcb'[j].isrseq < isrseq'[r]
    BY DEF QueuedBlocks
  <2>1. /\ IsInjective(queue[r])
        /\ ToSet(queue[r]) = {j \in Isr : isrcb[j].exists /\ isrcb[j].que = r}
        /\ \A j \in ToSet(queue[r]) : j \in Isr /\ isrcb[j].isrseq < isrseq[r]
    BY <1>1 DEF QueuedBlocks
  <2>2. IsInjective(queue'[r]) /\ ToSet(queue'[r]) = ToSet(queue[r]) \cup (IF r = q THEN {i} ELSE {})
    <3>1. CASE r = q
      BY <1>8, <1>16, <3>1
    <3>2. CASE r # q
      BY <1>16, <2>1, <3>2
    <3> QED
      BY <3>1, <3>2
  <2>3. ASSUME NEW j \in Isr
        PROVE  /\ j \in ToSet(queue'[r]) <=> isrcb'[j].exists /\ isrcb'[j].que = r
               /\ j \in ToSet(queue'[r]) => isrcb'[j].isrseq < isrseq'[r]
    <3>1. CASE j = i
      <4>1. isrcb'[j] = b
        BY <1>14, <3>1
      <4>2. j \in ToSet(queue'[r]) <=> r = q
        BY <1>5, <2>2, <3>1
      <4> QED
        BY <1>3, <1>10, <1>15, <4>1, <4>2
    <3>2. CASE j # i
      <4>1. isrcb'[j] = isrcb[j]
        BY <1>14, <3>2
      <4>2. j \in ToSet(queue'[r]) <=> j \in ToSet(queue[r])
        BY <2>2, <3>2
      <4>3. isrcb[j].isrseq \in Nat /\ isrseq[r] \in Nat /\ isrseq'[r] \in Nat /\ isrseq[r] <= isrseq'[r]
        BY <1>1, <1>15, BlockFields
      <4> QED
        BY <2>1, <4>1, <4>2, <4>3
    <3> QED
      BY <3>1, <3>2
  <2>4. \A j \in ToSet(queue'[r]) : j \in Isr
    BY <1>4, <2>1, <2>2
  <2> QED
    BY <2>2, <2>3, <2>4
<1>20. QueueOrder'
  <2> SUFFICES ASSUME NEW r \in Que, NEW a \in DOMAIN queue'[r], NEW c \in DOMAIN queue'[r], a < c
               PROVE  IsrKeyGt(isrcb'[queue'[r][c]], isrcb'[queue'[r][a]])
    BY DEF QueueOrder, InOrder
  <2>1. ASSUME NEW x \in DOMAIN queue[r], NEW y \in DOMAIN queue[r], x < y
        PROVE  IsrKeyGt(isrcb'[queue[r][y]], isrcb'[queue[r][x]])
    <3>1. queue[r] \in Seq(Isr)
      BY <1>3
    <3>2. /\ queue[r][x] \in Isr /\ queue[r][y] \in Isr
          /\ queue[r][x] \in ToSet(queue[r]) /\ queue[r][y] \in ToSet(queue[r])
      BY <3>1, Entries
    <3>3. queue[r][x] # i /\ queue[r][y] # i
      BY <1>5, <3>2
    <3>4. IsrKeyGt(isrcb[queue[r][y]], isrcb[queue[r][x]])
      BY <1>1, <2>1 DEF QueueOrder, InOrder
    <3> QED
      BY <1>14, <3>2, <3>3, <3>4
  <2>2. CASE r # q
    BY <1>16, <2>1, <2>2
  <2>3. CASE r = q
    <3>1. /\ queue[q] \in Seq(Isr) /\ Len(queue[q]) \in Nat /\ DOMAIN queue[q] = 1 .. Len(queue[q])
          /\ DOMAIN s = 1 .. Len(queue[q]) + 1 /\ n \in 1 .. Len(queue[q]) + 1
          /\ \A x \in 1 .. Len(queue[q]) + 1 :
                s[x] = IF x < n THEN queue[q][x] ELSE IF x = n THEN i ELSE queue[q][x - 1]
      BY <1>3, <1>7, <1>8, LenProperties DEF Inserted
    <3>2. a \in 1 .. Len(queue[q]) + 1 /\ c \in 1 .. Len(queue[q]) + 1 /\ queue'[r] = s
      BY <1>16, <2>3, <3>1
    <3>3. ASSUME NEW x \in DOMAIN queue[q]
          PROVE  /\ isrcb'[queue[q][x]].isrpri \in Nat
                 /\ isrcb'[queue[q][x]].isrseq < isrseq[q]
                 /\ isrcb'[queue[q][x]].isrseq \in Nat
                 /\ x < n => isrcb'[queue[q][x]].isrpri <= pri
                 /\ x >= n => isrcb'[queue[q][x]].isrpri > pri
      <4>1. queue[q][x] \in Isr /\ queue[q][x] \in ToSet(queue[q])
        BY <3>1, Entries
      <4>2. queue[q][x] # i
        BY <1>5, <4>1
      <4>3. isrcb'[queue[q][x]] = isrcb[queue[q][x]]
        BY <1>14, <4>1, <4>2
      <4>4. /\ isrcb[queue[q][x]].isrpri \in Nat /\ isrcb[queue[q][x]].isrseq \in Nat
            /\ isrcb[queue[q][x]].isrseq < isrseq[q]
        BY <1>1, <4>1, BlockFields DEF QueuedBlocks
      <4>5. /\ x < n => isrcb[queue[q][x]].isrpri <= pri
            /\ x >= n => isrcb[queue[q][x]].isrpri > pri
        BY PositionFacts DEF n
      <4> QED
        BY <4>3, <4>4, <4>5
    <3>4. isrcb'[i].isrpri = pri /\ isrcb'[i].isrseq = isrseq[q]
      BY <1>4, <1>10, <1>14
    <3>5. CASE c = n
      <4>1. s[c] = i /\ s[a] = queue[q][a] /\ a \in DOMAIN queue[q] /\ a < n
        BY <3>1, <3>2, <3>5
      <4>2. /\ isrcb'[queue[q][a]].isrpri \in Nat /\ isrcb'[queue[q][a]].isrpri <= pri
            /\ isrcb'[queue[q][a]].isrseq \in Nat /\ isrcb'[queue[q][a]].isrseq < isrseq[q]
        BY <3>3, <4>1
      <4> QED
        BY <1>3, <3>2, <3>4, <4>1, <4>2 DEF IsrKeyGt
    <3>6. CASE a = n
      <4>1. s[a] = i /\ s[c] = queue[q][c - 1] /\ c - 1 \in DOMAIN queue[q] /\ c - 1 >= n
        BY <3>1, <3>2, <3>6
      <4>2. isrcb'[queue[q][c - 1]].isrpri \in Nat /\ isrcb'[queue[q][c - 1]].isrpri > pri
        BY <3>3, <4>1
      <4> QED
        BY <1>3, <3>2, <3>4, <4>1, <4>2 DEF IsrKeyGt
    <3>7. CASE a # n /\ c # n
      <4>1. \E x, y \in DOMAIN queue[q] : x < y /\ s[a] = queue[q][x] /\ s[c] = queue[q][y]
        <5> DEFINE m(x) == IF x < n THEN x ELSE x - 1
        <5>1. /\ m(a) \in DOMAIN queue[q] /\ m(c) \in DOMAIN queue[q] /\ m(a) < m(c)
              /\ s[a] = queue[q][m(a)] /\ s[c] = queue[q][m(c)]
          BY <3>1, <3>2, <3>7
        <5> HIDE DEF m
        <5> QED
          BY <5>1
      <4>2. PICK x \in DOMAIN queue[q], y \in DOMAIN queue[q] :
               x < y /\ s[a] = queue[q][x] /\ s[c] = queue[q][y]
        BY <4>1
      <4> QED
        BY <2>1, <2>3, <3>2, <4>2
    <3> QED
      BY <3>5, <3>6, <3>7
  <2> QED
    BY <2>2, <2>3
<1>21. WaitedBlocks'
  <2> SUFFICES ASSUME NEW u \in Tsk, deleting[u] # NULL
               PROVE  /\ ~isrcb'[deleting[u]].exists
                      /\ deleting[u] \notin ToSet(free')
                      /\ \A v \in Tsk : deleting[v] = deleting[u] => v = u
    BY <1>2 DEF WaitedBlocks
  <2>1. deleting[u] \in Isr /\ deleting[u] # i
    BY <1>1, <1>5, BlockFields
  <2> QED
    BY <1>1, <1>6, <1>14, <2>1 DEF WaitedBlocks
<1>22. BlockHeld'
  <2> SUFFICES ASSUME NEW p \in Prc, NEW r \in Que, NEW j, j = scan[p][r].isr, j # NULL
               PROVE  /\ j \notin ToSet(free') /\ isrcb'[j].que = r
                      /\ isrcb'[j].isrpri = scan[p][r].isrpri
                      /\ isrcb'[j].isrseq = scan[p][r].isrseq
                      /\ p \in isrcb'[j].running
    BY <1>2 DEF BlockHeld
  <2>1. j \in Isr /\ j # i
    BY <1>1, <1>5, BlockFields
  <2>2. isrcb'[j] = isrcb[j]
    BY <1>14, <2>1
  <2> QED
    BY <1>1, <1>6, <2>2 DEF BlockHeld
<1>23. RunningBits'
  <2> SUFFICES ASSUME NEW j \in Isr, NEW p \in isrcb'[j].running
               PROVE  scan[p][isrcb'[j].que].isr = j
    BY <1>2 DEF RunningBits
  <2>1. j # i
    BY <1>10, <1>14
  <2>2. isrcb'[j] = isrcb[j]
    BY <1>14, <2>1
  <2> QED
    BY <1>1, <2>2 DEF RunningBits
<1>24. Nested'
  <2> SUFFICES ASSUME NEW p \in Prc
               PROVE  /\ IsInjective(nest[p])
                      /\ ToSet(nest[p]) = {r \in Que : scan[p][r].isr # NULL}
                      /\ \A r \in ToSet(nest[p]) : scan[p][r].isrseq < isrseq'[r]
    BY <1>2 DEF Nested
  <2>1. /\ IsInjective(nest[p])
        /\ ToSet(nest[p]) = {r \in Que : scan[p][r].isr # NULL}
        /\ \A r \in ToSet(nest[p]) : scan[p][r].isrseq < isrseq[r]
    BY <1>1 DEF Nested
  <2>2. ASSUME NEW r \in ToSet(nest[p]) PROVE scan[p][r].isrseq < isrseq'[r]
    <3>1. r \in Que /\ scan[p][r].isrseq < isrseq[r]
      BY <2>1
    <3>2. scan[p][r].isrseq \in Nat
      BY <1>1, <3>1, BlockFields
    <3> QED
      BY <1>15, <3>1, <3>2
  <2> QED
    BY <2>1, <2>2
<1>25. Calls'
  <2> SUFFICES ASSUME NEW p \in Prc, NEW r \in Que
               PROVE  CallsSoFar(p, r)'
    BY DEF Calls
  <2>1. /\ IsInjective(hist[p][r].called)
        /\ \A x \in ToSet(hist[p][r].called) :
              x[2] < isrseq[r] /\ (Registered(x, r) => ~IsrKeyGt(isrcb[x[1]], scan[p][r]))
        /\ \A x \in hist[p][r].due :
              x \in ToSet(hist[p][r].called)
              \/ (Registered(x, r) /\ IsrKeyGt(isrcb[x[1]], scan[p][r]))
    BY <1>1 DEF Calls, CallsSoFar
  <2>2. \A x \in ToSet(hist[p][r].called) \cup hist[p][r].due :
           x \in Isr \X Nat /\ x[1] \in Isr /\ x[2] \in Nat
    <3>1. \A x \in ToSet(hist[p][r].called) \cup hist[p][r].due : x \in Isr \X Nat
      BY <1>1, BlockFields, Entries
    <3> QED
      BY <3>1
  <2>3. ASSUME NEW x \in ToSet(hist[p][r].called) \cup hist[p][r].due, x[1] # i
        PROVE  /\ Registered(x, r)' <=> Registered(x, r)
               /\ IsrKeyGt(isrcb'[x[1]], scan'[p][r]) <=> IsrKeyGt(isrcb[x[1]], scan[p][r])
    <3>1. isrcb'[x[1]] = isrcb[x[1]]
      BY <1>14, <2>2, <2>3
    <3> QED
      BY <1>2, <3>1 DEF Registered
  <2>4. ASSUME NEW x \in ToSet(hist[p][r].called)
        PROVE  /\ x[2] < isrseq'[r]
               /\ Registered(x, r)' => ~IsrKeyGt(isrcb'[x[1]], scan'[p][r])
    <3>1. x[2] \in Nat /\ x[2] < isrseq[r]
      BY <2>1, <2>2
    <3>2. x[2] < isrseq'[r]
      BY <1>15, <3>1
    <3>3. CASE x[1] = i
      <4>1. isrcb'[x[1]] = b
        BY <1>4, <1>14, <3>3
      <4>2. ~Registered(x, r)'
        BY <1>3, <1>10, <3>1, <4>1 DEF Registered
      <4> QED
        BY <3>2, <4>2
    <3>4. CASE x[1] # i
      BY <2>1, <2>3, <3>2, <3>4
    <3> QED
      BY <3>3, <3>4
  <2>5. hist'[p][r].called = hist[p][r].called
    BY <1>11
  <2>6. ASSUME NEW x \in hist'[p][r].due, x \notin ToSet(hist[p][r].called)
        PROVE  Registered(x, r)' /\ IsrKeyGt(isrcb'[x[1]], scan'[p][r])
    <3>1. CASE x \in hist[p][r].due
      <4>1. Registered(x, r) /\ IsrKeyGt(isrcb[x[1]], scan[p][r])
        BY <2>1, <2>6, <3>1
      <4>2. x[1] # i
        BY <1>5, <4>1 DEF Registered
      <4> QED
        BY <2>3, <3>1, <4>1, <4>2
    <3>2. CASE x \notin hist[p][r].due
      <4>1. r = q /\ x = e /\ q \in ToSet(nest[p]) /\ pri >= scan[p][q].isrpri
        BY <1>11, <1>12, <2>6, <3>2
      <4>2. isrcb'[x[1]] = b /\ x[1] = i /\ x[2] = isrseq[q]
        BY <1>4, <1>13, <1>14, <4>1
      <4>3. scan[p][q].isrseq < isrseq[q]
        BY <1>1, <4>1 DEF Nested
      <4>4. scan[p][q].isrpri \in Nat /\ scan[p][q].isrseq \in Nat
        BY <1>1, BlockFields
      <4>5. IsrKeyGt(b, scan[p][q])
        BY <1>3, <1>10, <4>1, <4>3, <4>4 DEF IsrKeyGt
      <4>6. Registered(x, r)'
        BY <1>10, <4>1, <4>2 DEF Registered
      <4> QED
        BY <1>2, <4>1, <4>2, <4>5, <4>6
    <3> QED
      BY <3>1, <3>2
  <2> QED
    BY <2>1, <2>4, <2>5, <2>6 DEF CallsSoFar
<1> QED
  BY <1>17, <1>18, <1>19, <1>20, <1>21, <1>22, <1>23, <1>24, <1>25 DEF IInv

----------------------------------------------------------------------------
\* The inductive invariant holds

LEMMA Initial == Init => IInv
<1> SUFFICES ASSUME Init PROVE IInv
  OBVIOUS
<1> DEFINE N(q) == Cardinality(StaticOf(q))
<1>1. /\ IsFiniteSet(Isr) /\ StaticIsr \subseteq Isr /\ IsrPri \subseteq Nat
      /\ SPri \in [StaticIsr -> IsrPri] /\ SQue \in [StaticIsr -> Que] /\ NULL \notin Isr
      /\ MaxSeq \in Nat
  BY IsrAssumption
<1>2. IsFiniteSet(StaticIsr) /\ IsFiniteSet(Isr \ StaticIsr)
      /\ Isr \ StaticIsr \in SUBSET Isr /\ StaticIsr \in SUBSET Isr
  BY <1>1, FS_Subset
<1>3. \A q \in Que : N(q) \in Nat /\ N(q) <= MaxSeq /\ N(q) \in 0 .. MaxSeq
  <2> TAKE q \in Que
  <2>1. StaticOf(q) \in SUBSET StaticIsr
    BY DEF StaticOf
  <2>2. N(q) <= Cardinality(StaticIsr) /\ IsFiniteSet(StaticOf(q))
    BY <1>2, <2>1, FS_Subset
  <2>3. N(q) \in Nat /\ Cardinality(StaticIsr) \in Nat
    BY <1>2, <2>2, FS_CardinalityType
  <2> QED
    BY <1>1, <2>2, <2>3, IsrAssumption
<1>4. AnyPri \in IsrPri /\ AnyQue \in Que
  BY IsrAssumption DEF AnyPri, AnyQue
<1>5. PICK number \in [StaticIsr -> 0 .. Cardinality(StaticIsr)] :
         /\ \A q \in Que : {number[i] : i \in StaticOf(q)} = 0 .. N(q) - 1
         /\ isrcb = [i \in Isr |-> InitialBlock(i, IF i \in StaticIsr THEN number[i] ELSE 0)]
  BY DEF Init
<1>6. ASSUME NEW i \in Isr
      PROVE  /\ isrcb[i] \in ISRCB
             /\ isrcb[i].exists <=> i \in StaticIsr
             /\ isrcb[i].running = {}
             /\ i \in StaticIsr => isrcb[i].que = SQue[i] /\ isrcb[i].isrseq = number[i]
  <2>1. CASE i \in StaticIsr
    <3>1. isrcb[i] = [exists |-> TRUE, isrpri |-> SPri[i], que |-> SQue[i],
                      isrseq |-> number[i], running |-> {}]
      BY <1>5, <2>1 DEF InitialBlock
    <3>2. SPri[i] \in IsrPri /\ SQue[i] \in Que /\ number[i] \in Nat
      <4>1. number[i] \in 0 .. Cardinality(StaticIsr)
        BY <1>5, <2>1
      <4> QED
        BY <1>1, <2>1, <4>1
    <3> QED
      BY <2>1, <3>1, <3>2 DEF ISRCB
  <2>2. CASE i \notin StaticIsr
    <3>1. isrcb[i] = [exists |-> FALSE, isrpri |-> AnyPri, que |-> AnyQue,
                      isrseq |-> 0, running |-> {}]
      BY <1>5, <2>2 DEF InitialBlock
    <3> QED
      BY <1>4, <2>2, <3>1 DEF ISRCB
  <2> QED
    BY <2>1, <2>2
<1>7. ASSUME NEW q \in Que
      PROVE  queue[q] \in Seq(Isr) /\ IsInjective(queue[q]) /\ ToSet(queue[q]) = StaticOf(q)
  <2>1. queue[q] \in Arrangements(StaticIsr) /\ ToSet(queue[q]) = StaticOf(q)
    BY DEF Init
  <2> QED
    BY <1>2, <2>1, ArrangementSeq
<1>8. free \in Seq(Isr) /\ IsInjective(free) /\ ToSet(free) = Isr \ StaticIsr
  <2>1. free \in Arrangements(Isr \ StaticIsr) /\ ToSet(free) = Isr \ StaticIsr
    BY DEF Init
  <2> QED
    BY <1>2, <2>1, ArrangementSeq
<1>9. NoScan \in Scan /\ NoScan.isr = NULL
  BY <1>4 DEF NoScan, Scan
<1>10. NoHist \in History /\ NoHist.due = {} /\ NoHist.called = << >>
  BY DEF NoHist, History
<1>11. IsInjective(<< >>) /\ ToSet(<< >>) = {}
  BY DEF IsInjective, ToSet
<1>12. /\ isrseq = [q \in Que |-> N(q)]
       /\ scan = [p \in Prc |-> [q \in Que |-> NoScan]]
       /\ nest = [p \in Prc |-> << >>]
       /\ deleting = [t \in Tsk |-> NULL]
       /\ hist = [p \in Prc |-> [q \in Que |-> NoHist]]
  BY DEF Init
<1> HIDE DEF N
<1>13. TypeOK
  <2>1. isrcb \in [Isr -> ISRCB]
    <3>1. isrcb = [i \in Isr |-> isrcb[i]]
      BY <1>5
    <3> QED
      BY <1>6, <3>1
  <2>2. queue \in [Que -> Seq(Isr)]
    <3>1. queue \in [Que -> Arrangements(StaticIsr)]
      BY DEF Init
    <3> QED
      BY <1>7, <3>1
  <2>3. isrseq \in [Que -> 0 .. MaxSeq]
    BY <1>3, <1>12
  <2>4. nest \in [Prc -> Seq(Que)]
    BY <1>12, EmptySeq
  <2> QED
    BY <1>8, <1>9, <1>10, <1>12, <2>1, <2>2, <2>3, <2>4 DEF TypeOK
<1>14. FreeBlocks
  BY <1>6, <1>8 DEF FreeBlocks
<1>15. QueuedBlocks
  <2> SUFFICES ASSUME NEW q \in Que
               PROVE  /\ ToSet(queue[q]) = {i \in Isr : isrcb[i].exists /\ isrcb[i].que = q}
                      /\ \A i \in ToSet(queue[q]) : isrcb[i].isrseq < isrseq[q]
    BY <1>7 DEF QueuedBlocks
  <2>1. \A i \in Isr : i \in StaticOf(q) <=> isrcb[i].exists /\ isrcb[i].que = q
    BY <1>6 DEF StaticOf
  <2>2. StaticOf(q) \subseteq Isr
    BY <1>1 DEF StaticOf
  <2>3. ASSUME NEW i \in StaticOf(q) PROVE isrcb[i].isrseq < isrseq[q]
    <3>1. i \in Isr /\ i \in StaticIsr
      BY <2>2 DEF StaticOf
    <3>2. number[i] \in 0 .. N(q) - 1
      BY <1>5 DEF N
    <3>3. isrcb[i].isrseq = number[i] /\ isrseq[q] = N(q)
      BY <1>6, <1>12, <3>1
    <3> QED
      BY <1>3, <3>2, <3>3
  <2> QED
    BY <1>7, <2>1, <2>2, <2>3
<1>16. QueueOrder
  BY DEF Init, QueueOrder
<1>17. WaitedBlocks /\ BlockHeld /\ RunningBits
  BY <1>6, <1>9, <1>12 DEF WaitedBlocks, BlockHeld, RunningBits
<1>18. Nested
  BY <1>9, <1>11, <1>12 DEF Nested
<1>19. Calls
  BY <1>10, <1>11, <1>12 DEF Calls, CallsSoFar
<1> QED
  BY <1>13, <1>14, <1>15, <1>16, <1>17, <1>18, <1>19 DEF IInv

LEMMA Inductive == IInv /\ [Next]_vars => IInv'
<1> SUFFICES ASSUME IInv, [Next]_vars PROVE IInv'
  OBVIOUS
<1>1. ASSUME NEW p \in Prc, NEW q \in Que, Interrupt(p, q) PROVE IInv'
  BY <1>1, InterruptStep
<1>2. ASSUME NEW p \in Prc, NEW q \in Que, IsrReturn(p, q) PROVE IInv'
  BY <1>2, IsrReturnStep
<1>3. ASSUME NEW t \in Tsk, NEW q \in Que, NEW pri \in IsrPri, acre_isr(t, q, pri) PROVE IInv'
  BY <1>3, CreateStep
<1>4. ASSUME NEW t \in Tsk, NEW i \in Isr, del_isr(t, i) PROVE IInv'
  BY <1>4, DeleteStep
<1>5. ASSUME NEW t \in Tsk, Quiesce(t) PROVE IInv'
  BY <1>5, QuiesceStep
<1>6. ASSUME NEW t \in Tsk, Terminate(t) PROVE IInv'
  BY <1>6, TerminateStep
<1>7. CASE UNCHANGED vars
  <2>1. /\ IInv
        /\ UNCHANGED <<isrcb, queue, isrseq, free, scan, nest, deleting, hist>>
    BY <1>7 DEF vars
  <2>2. (FreeBlocks /\ QueuedBlocks /\ WaitedBlocks /\ RunningBits /\ Nested)'
    BY <2>1 DEF IInv, FreeBlocks, QueuedBlocks, WaitedBlocks, RunningBits, Nested
  <2>3. (TypeOK /\ BlockHeld /\ QueueOrder)'
    BY <2>1 DEF IInv, TypeOK, BlockHeld, QueueOrder, InOrder, IsrKeyGt
  <2>4. Calls'
    BY <2>1 DEF IInv, Calls, CallsSoFar, Registered, IsrKeyGt
  <2> QED
    BY <2>2, <2>3, <2>4 DEF IInv
<1> QED
  BY <1>1, <1>2, <1>3, <1>4, <1>5, <1>6, <1>7 DEF Next, TaskStep

\* Every reachable state satisfies the invariant, so the control blocks, the
\* queues and the executions of call_isr always agree.
THEOREM Invariance == Spec => []IInv
<1>1. Init => IInv
  BY Initial
<1>2. IInv /\ [Next]_vars => IInv'
  BY Inductive
<1> QED
  BY <1>1, <1>2, PTL DEF Spec

\* Registrations, deletions and calls keep the variables in their types; a
\* registration uses one number of its queue.
THEOREM TypeCorrect == Spec => []TypeOK
<1>1. IInv => TypeOK
  BY DEF IInv
<1> QED
  BY <1>1, Invariance, PTL

\* call_isr finds the block of the routine that it has called as it left it.
THEOREM HeldBlocks == Spec => []BlockHeld
<1>1. IInv => BlockHeld
  BY DEF IInv
<1> QED
  BY <1>1, Invariance, PTL

\* Every queue is always in the order of the keys.
THEOREM OrderedQueues == Spec => []QueueOrder
<1>1. IInv => QueueOrder
  BY DEF IInv
<1> QED
  BY <1>1, Invariance, PTL

\* No execution of call_isr calls a routine twice.
THEOREM CalledAtMostOnce == Spec => []CalledOnce
<1>1. IInv => CalledOnce
  BY DEF IInv, Calls, CallsSoFar, CalledOnce
<1> QED
  BY <1>1, Invariance, PTL

----------------------------------------------------------------------------
\* No block is lost, unless a task is terminated in del_isr

NotLost ==
    \A i \in Isr : isrcb[i].exists \/ i \in ToSet(free) \/ \E t \in Tsk : deleting[t] = i

LEMMA InitiallyNotLost == Init => NotLost
<1> SUFFICES ASSUME Init, NEW i \in Isr PROVE isrcb[i].exists \/ i \in ToSet(free)
  BY DEF NotLost
<1>1. ToSet(free) = Isr \ StaticIsr
  BY DEF Init
<1>2. CASE i \in StaticIsr
  <2>1. \E n : isrcb[i] = InitialBlock(i, n)
    BY DEF Init
  <2> QED
    BY <1>2, <2>1 DEF InitialBlock
<1> QED
  BY <1>1, <1>2

LEMMA StillNotLost ==
    ASSUME IInv, NotLost, [Next]_vars, Terminable = {}
    PROVE  NotLost'
<1>1. /\ isrcb \in [Isr -> ISRCB] /\ free \in Seq(Isr) /\ IsInjective(free)
      /\ deleting \in [Tsk -> Isr \cup {NULL}]
  BY DEF IInv, TypeOK, FreeBlocks
<1>2. ASSUME NEW p \in Prc, NEW q \in Que, Interrupt(p, q) \/ IsrReturn(p, q)
      PROVE  NotLost'
  <2>1. SameExist
    BY <1>2, InterruptStep, IsrReturnStep
  <2>2. free' = free /\ deleting' = deleting
    BY <1>2 DEF Interrupt, IsrReturn
  <2> QED
    BY <2>1, <2>2 DEF NotLost, SameExist
<1>3. ASSUME NEW t \in Tsk, NEW q \in Que, NEW pri \in IsrPri, acre_isr(t, q, pri)
      PROVE  NotLost'
  <2> DEFINE i == Head(free)
             b == [exists |-> TRUE, isrpri |-> pri, que |-> q,
                   isrseq |-> isrseq[q], running |-> {}]
  <2>1. /\ free # << >> /\ free' = QueueDelete(free, i)
        /\ isrcb' = [isrcb EXCEPT ![i] = b] /\ deleting' = deleting
    BY <1>3 DEF acre_isr, IsrNumber
  <2>2. i \in ToSet(free) /\ i \in Isr
    BY <1>1, <2>1, HeadFacts
  <2>3. ToSet(free') = ToSet(free) \ {i}
    BY <1>1, <2>1, <2>2, DeleteFacts
  <2>4. b.exists
    OBVIOUS
  <2> HIDE DEF i, b
  <2>5. \A j \in Isr : isrcb'[j] = IF j = i THEN b ELSE isrcb[j]
    BY <1>1, <2>1, <2>2
  <2> QED
    BY <2>1, <2>3, <2>4, <2>5 DEF NotLost
<1>4. ASSUME NEW t \in Tsk, NEW i \in Isr, del_isr(t, i)
      PROVE  NotLost'
  <2>1. /\ isrcb' = [isrcb EXCEPT ![i].exists = FALSE] /\ isrcb[i].exists
        /\ IF isrcb[i].running = {}
             THEN free' = QueueInsertPrev(free, i) /\ UNCHANGED deleting
             ELSE deleting' = [deleting EXCEPT ![t] = i] /\ UNCHANGED free
        /\ deleting[t] = NULL
    BY <1>4 DEF del_isr, TaskCalls
  <2>2. \A j \in Isr : j # i => isrcb'[j] = isrcb[j]
    BY <1>1, <2>1
  <2>3. i \notin ToSet(free)
    BY <2>1 DEF IInv, FreeBlocks
  <2>4. /\ ToSet(free) \subseteq ToSet(free')
        /\ \A u \in Tsk : u # t => deleting'[u] = deleting[u]
        /\ i \in ToSet(free') \/ deleting'[t] = i
    <3>1. CASE isrcb[i].running = {}
      <4>1. free' = QueueInsertPrev(free, i) /\ deleting' = deleting
        BY <2>1, <3>1
      <4>2. ToSet(free') = ToSet(free) \cup {i}
        BY <1>1, <2>3, <4>1, AppendFacts
      <4> QED
        BY <4>1, <4>2
    <3>2. CASE isrcb[i].running # {}
      BY <1>1, <2>1, <3>2
    <3> QED
      BY <3>1, <3>2
  <2>5. ASSUME NEW j \in Isr
        PROVE  isrcb'[j].exists \/ j \in ToSet(free') \/ \E u \in Tsk : deleting'[u] = j
    <3>1. CASE j = i
      BY <2>4, <3>1
    <3>2. CASE j # i
      <4>1. isrcb[j].exists \/ j \in ToSet(free) \/ \E u \in Tsk : deleting[u] = j
        BY DEF NotLost
      <4>2. deleting[t] # j
        BY <2>1, IsrAssumption
      <4> QED
        BY <2>2, <2>4, <3>2, <4>1, <4>2
    <3> QED
      BY <3>1, <3>2
  <2> QED
    BY <2>5 DEF NotLost
<1>5. ASSUME NEW t \in Tsk, Quiesce(t)
      PROVE  NotLost'
  <2>1. /\ deleting[t] # NULL /\ free' = QueueInsertPrev(free, deleting[t])
        /\ deleting' = [deleting EXCEPT ![t] = NULL] /\ isrcb' = isrcb
    BY <1>5 DEF Quiesce
  <2>2. deleting[t] \in Isr /\ deleting[t] \notin ToSet(free)
    BY <1>1, <2>1 DEF IInv, WaitedBlocks
  <2>3. ToSet(free') = ToSet(free) \cup {deleting[t]}
    BY <1>1, <2>1, <2>2, AppendFacts
  <2>4. \A u \in Tsk : u # t => deleting'[u] = deleting[u]
    BY <1>1, <2>1
  <2> QED
    BY <2>1, <2>3, <2>4 DEF NotLost
<1>6. ~\E t \in Tsk : Terminate(t)
  BY DEF Terminate
<1>7. CASE UNCHANGED vars
  BY <1>7 DEF vars, NotLost
<1> QED
  BY <1>2, <1>3, <1>4, <1>5, <1>6, <1>7 DEF Next, TaskStep

\* Every block has at most one place.
LEMMA OnePlace ==
    ASSUME IInv
    PROVE  BlockOnce
<1>1. TypeOK /\ FreeBlocks /\ QueuedBlocks /\ WaitedBlocks
  BY DEF IInv
<1>2. (\A q \in Que : IsInjective(queue[q])) /\ IsInjective(free)
  BY <1>1 DEF QueuedBlocks, FreeBlocks
<1>3. ASSUME NEW i \in Isr
      PROVE  QueuesWith(i) = IF isrcb[i].exists THEN {isrcb[i].que} ELSE {}
  <2>1. \A q \in Que : i \in ToSet(queue[q]) <=> isrcb[i].exists /\ isrcb[i].que = q
    BY <1>1 DEF QueuedBlocks
  <2>2. isrcb[i].que \in Que
    BY <1>1, BlockFields
  <2> QED
    BY <2>1, <2>2 DEF QueuesWith
<1>4. ASSUME NEW i \in Isr
      PROVE  /\ isrcb[i].exists \/ i \in ToSet(free) => WaitersFor(i) = {}
             /\ isrcb[i].exists => i \notin ToSet(free)
             /\ \A t \in WaitersFor(i) : WaitersFor(i) = {t}
  <2>1. i # NULL
    BY IsrAssumption
  <2> QED
    BY <1>1, <2>1 DEF WaitersFor, WaitedBlocks, FreeBlocks
<1> QED
  BY <1>2, <1>3, <1>4 DEF BlockOnce

LEMMA Places ==
    ASSUME IInv, NotLost
    PROVE  BlockPlaces
<1>1. ASSUME NEW i \in Isr, ~isrcb[i].exists, i \notin ToSet(free)
      PROVE  WaitersFor(i) # {}
  BY <1>1 DEF NotLost, WaitersFor
<1> QED
  BY <1>1, OnePlace DEF BlockPlaces

\* A block is a routine in the queue of its interrupt, free, or about to become
\* free when nobody calls it any more, and never two of these: acre_isr hands out
\* no block that is in use (kernel/interrupt.c).
THEOREM EachBlockOnce == Spec => []BlockOnce
<1>1. IInv => BlockOnce
  BY OnePlace
<1> QED
  BY <1>1, Invariance, PTL

\* Where no task that deletes routines can be terminated, every block is a
\* routine in its queue, free, or about to become free, and only one of these.
THEOREM NoBlockLost ==
    ASSUME Terminable = {}
    PROVE  Spec => []BlockPlaces
<1>1. Init => NotLost
  BY InitiallyNotLost
<1>2. IInv /\ NotLost /\ [Next]_vars => NotLost'
  BY StillNotLost
<1>3. IInv /\ NotLost => BlockPlaces
  BY Places
<1> QED
  BY <1>1, <1>2, <1>3, Invariance, PTL DEF Spec

----------------------------------------------------------------------------
\* The action properties

\* An execution of call_isr that is about to end has called what is due.
LEMMA AllCalled ==
    ASSUME IInv, NEW p \in Prc, NEW q \in Que, Beyond(q, scan[p][q]) = {}
    PROVE  hist[p][q].due \subseteq ToSet(hist[p][q].called)
<1> SUFFICES ASSUME NEW r \in hist[p][q].due, r \notin ToSet(hist[p][q].called)
             PROVE  FALSE
  OBVIOUS
<1>1. TypeOK /\ QueuedBlocks /\ Calls
  BY DEF IInv
<1>2. Registered(r, q) /\ IsrKeyGt(isrcb[r[1]], scan[p][q])
  BY <1>1 DEF Calls, CallsSoFar
<1>3. r \in Isr \X Nat /\ r[1] \in Isr
  BY <1>1, BlockFields
<1>4. r[1] \in ToSet(queue[q])
  BY <1>1, <1>2, <1>3 DEF Registered, QueuedBlocks
<1>5. PICK a \in DOMAIN queue[q] : queue[q][a] = r[1]
  BY <1>1, <1>4, BlockFields, Entries
<1>6. a \in Beyond(q, scan[p][q])
  BY <1>2, <1>5 DEF Beyond
<1> QED
  BY <1>6

LEMMA ScanStep ==
    ASSUME IInv, [Next]_vars, NEW p \in Prc, NEW q \in Que,
           q \in ToSet(nest[p]), q \notin ToSet(nest'[p])
    PROVE  hist[p][q].due \subseteq ToSet(hist[p][q].called)
<1>1. nest \in [Prc -> Seq(Que)] /\ nest[p] \in Seq(Que) /\ IsInjective(nest[p])
  BY DEF IInv, TypeOK, Nested
<1>2. ASSUME NEW o \in Prc, NEW r \in Que, Interrupt(o, r)
      PROVE  FALSE
  <2>1. /\ nest' = [nest EXCEPT ![o] = IF queue[r] = << >> THEN @ ELSE <<r>> \o @]
        /\ r \notin ToSet(nest[o])
    BY <1>2 DEF Interrupt
  <2>2. CASE nest'[p] = nest[p]
    BY <2>2
  <2>3. CASE nest'[p] # nest[p]
    <3>1. p = o /\ nest'[p] = <<r>> \o nest[p]
      BY <1>1, <2>1, <2>3
    <3> QED
      BY <1>1, <2>1, <3>1, PushFacts
  <2> QED
    BY <2>2, <2>3
<1>3. ASSUME NEW o \in Prc, NEW r \in Que, IsrReturn(o, r)
      PROVE  hist[p][q].due \subseteq ToSet(hist[p][q].called)
  <2>1. /\ nest' = [nest EXCEPT ![o] = IF Beyond(r, scan[o][r]) = {} THEN Tail(@) ELSE @]
        /\ nest[o] # << >> /\ Head(nest[o]) = r
    BY <1>3 DEF IsrReturn
  <2>2. nest'[p] # nest[p]
    OBVIOUS
  <2>3. p = o /\ Beyond(r, scan[o][r]) = {} /\ nest'[p] = Tail(nest[p])
    BY <1>1, <2>1, <2>2
  <2>4. ToSet(nest'[p]) = ToSet(nest[p]) \ {r}
    BY <1>1, <2>1, <2>3, PopFacts
  <2>5. r = q
    BY <2>4
  <2> QED
    BY <2>3, <2>5, AllCalled
<1>4. ASSUME NEW t \in Tsk, TaskStep(t)
      PROVE  FALSE
  BY <1>4 DEF TaskStep, acre_isr, del_isr, Quiesce, Terminate
<1>5. CASE UNCHANGED vars
  BY <1>5 DEF vars
<1> QED
  BY <1>2, <1>3, <1>4, <1>5 DEF Next

\* An execution of call_isr calls every routine that stays registered until it
\* ends, however many others come and go.
THEOREM CompleteScans == Spec => ScanComplete
<1>1. ASSUME IInv, [Next]_vars
      PROVE  \A p \in Prc, q \in Que :
                q \in ToSet(nest[p]) /\ q \notin ToSet(nest'[p])
                => hist[p][q].due \subseteq ToSet(hist[p][q].called)
  BY <1>1, ScanStep
<1> QED
  BY <1>1, Invariance, PTL DEF Spec, ScanComplete

LEMMA NoNewCallsStep ==
    ASSUME IInv, [Next]_vars
    PROVE  NoNewCalls
<1>1. isrcb \in [Isr -> ISRCB] /\ free \in Seq(Isr)
  BY DEF IInv, TypeOK
<1>2. ASSUME NEW p \in Prc, NEW q \in Que, Interrupt(p, q) \/ IsrReturn(p, q)
      PROVE  NoNewCalls
  BY <1>2, InterruptStep, IsrReturnStep
<1>3. ASSUME NEW t \in Tsk, NEW q \in Que, NEW pri \in IsrPri, acre_isr(t, q, pri)
      PROVE  NoNewCalls
  <2> DEFINE i == Head(free)
             b == [exists |-> TRUE, isrpri |-> pri, que |-> q,
                   isrseq |-> isrseq[q], running |-> {}]
  <2>1. isrcb' = [isrcb EXCEPT ![i] = b]
    BY <1>3 DEF acre_isr, IsrNumber
  <2>2. b.running = {}
    OBVIOUS
  <2> HIDE DEF i, b
  <2>3. \A j \in Isr : isrcb'[j] = b \/ isrcb'[j] = isrcb[j]
    BY <1>1, <2>1
  <2> QED
    BY <2>2, <2>3 DEF NoNewCalls
<1>4. ASSUME NEW t \in Tsk, NEW i \in Isr, del_isr(t, i)
      PROVE  NoNewCalls
  <2>1. isrcb' = [isrcb EXCEPT ![i].exists = FALSE]
    BY <1>4 DEF del_isr
  <2> DEFINE b == [isrcb[i] EXCEPT !.exists = FALSE]
  <2>2. b.running = isrcb[i].running
    BY <1>1 DEF ISRCB
  <2>3. isrcb' = [isrcb EXCEPT ![i] = b]
    BY <2>1
  <2> HIDE DEF b
  <2>4. \A j \in Isr : isrcb'[j] = IF j = i THEN b ELSE isrcb[j]
    BY <1>1, <2>3
  <2> QED
    BY <2>2, <2>4 DEF NoNewCalls
<1>5. ASSUME NEW t \in Tsk, Quiesce(t) \/ Terminate(t)
      PROVE  NoNewCalls
  BY <1>5 DEF Quiesce, Terminate, NoNewCalls
<1>6. CASE UNCHANGED vars
  BY <1>6 DEF vars, NoNewCalls
<1> QED
  BY <1>2, <1>3, <1>4, <1>5, <1>6 DEF Next, TaskStep

\* Once del_isr has written TA_NOEXS, no processor begins to execute the routine.
THEOREM NoCallAfterDeletion == Spec => DeletedNotCalled
<1>1. ASSUME IInv, [Next]_vars
      PROVE  \A i \in Isr : ~isrcb[i].exists => isrcb'[i].running \subseteq isrcb[i].running
  BY <1>1, NoNewCallsStep DEF NoNewCalls
<1> QED
  BY <1>1, Invariance, PTL DEF Spec, DeletedNotCalled
=============================================================================
