----------------------------- MODULE SchedProofs -----------------------------
(***************************************************************************)
(* The processors at work keep the kernel data sound and the context of    *)
(* every task in one place, for every number of tasks, processors and      *)
(* priorities.                                                             *)
(*                                                                         *)
(* First come the operations on the kernel data (module Task): they keep   *)
(* the queues correct, and p_schedtsk at the head of the highest queue.    *)
(* Then come the inductive invariant and the actions of Sched.             *)
(*                                                                         *)
(* The theorems are about the instances that do not use sus_tsk together   *)
(* with the migration of the calling task: with both the run run_suspend   *)
(* shows that ContextExclusive does not hold.                              *)
(***************************************************************************)
EXTENDS Sched, QueuesProofs

----------------------------------------------------------------------------
\* The kernel data

\* The queue q for the priority pri is in the order of the sub-priorities, if
\* it uses them.
Subpri(T) == [t \in Tsk |-> IF T[t].boosted THEN 0 ELSE T[t].subpri]
Ordered(T, pri, q) == pri \in SubprioPri => Sorted(q, Subpri(T))

\* The ready queues hold exactly the tasks of R, each once, on its processor
\* and at its priority, in their order, and the bitmap says which queues are in
\* use.
QueuesHold(k, R) ==
    \A p \in Prc, pri \in Pri :
        /\ IsInjective(Queue(k, p, pri))
        /\ ToSet(Queue(k, p, pri)) =
              {t \in R : k.tcb[t].p_pcb = p /\ k.tcb[t].priority = pri}
        /\ pri \in k.pcb[p].ready_primap <=> Queue(k, p, pri) # << >>
        /\ Ordered(k.tcb, pri, Queue(k, p, pri))

\* s is the first task of the highest queue of p, or the queues are empty.
IsTop(k, p, s) ==
    \/ s = NULL /\ \A pri \in Pri : Queue(k, p, pri) = << >>
    \/ \E pri \in Pri :
          /\ Queue(k, p, pri) # << >> /\ s = Head(Queue(k, p, pri))
          /\ \A other \in Pri : other < pri => Queue(k, p, other) = << >>

\* Where dispatching is enabled, p_schedtsk is the task to execute.
Scheduled(k) ==
    \A p \in Prc : k.pcb[p].dspflg => IsTop(k, p, Schedtsk(k, p))

\* From k to k2 the flags of the processors are unchanged, where dispatching
\* is disabled so is p_schedtsk, and a processor other than me whose p_schedtsk
\* has changed is interrupted.
FlagsKept(me, k, k2) ==
    /\ k.ipi \subseteq k2.ipi
    /\ \A p \in Prc :
          /\ k2.pcb[p].dspflg = k.pcb[p].dspflg
          /\ k2.pcb[p].enadsp = k.pcb[p].enadsp
          /\ k2.pcb[p].ipm = k.pcb[p].ipm
          /\ ~k.pcb[p].dspflg => Schedtsk(k2, p) = Schedtsk(k, p)
          /\ p # me /\ Schedtsk(k2, p) # Schedtsk(k, p) => p \in k2.ipi

\* The fields of the kernel data and their types.
LEMMA KernelFields ==
    ASSUME NEW k \in Kernel
    PROVE  /\ k.tcb \in [Tsk -> TCB] /\ k.pcb \in [Prc -> PCB] /\ k.ipi \in SUBSET Prc
           /\ \A p \in Prc : /\ Schedtsk(k, p) \in Tsk \cup {NULL}
                             /\ k.pcb[p].ready_primap \in SUBSET Pri
                             /\ k.pcb[p].dspflg \in BOOLEAN
           /\ \A p \in Prc, pri \in Pri : Queue(k, p, pri) \in Seq(Tsk)
           /\ \A t \in Tsk : k.tcb[t].p_pcb \in Prc /\ k.tcb[t].priority \in Pri
BY DEF Kernel, TCB, PCB, Queue, Schedtsk

\* A ready queue and its bitmap are replaced.
WithQueue(k, p, pri, q, b) ==
    [k EXCEPT !.pcb[p].ready_queue[pri] = q, !.pcb[p].ready_primap = b]

LEMMA QueueUpdate ==
    ASSUME NEW k \in Kernel, NEW me \in Prc, NEW p \in Prc, NEW pri \in Pri,
           NEW q \in Seq(Tsk), NEW b \in SUBSET Pri, NEW k1,
           k1 = WithQueue(k, p, pri, q, b)
    PROVE  /\ k1 \in Kernel /\ k1.tcb = k.tcb /\ k1.ipi = k.ipi
           /\ FlagsKept(me, k, k1)
           /\ \A o \in Prc : Schedtsk(k1, o) = Schedtsk(k, o)
           /\ \A o \in Prc, r \in Pri :
                 Queue(k1, o, r) = IF o = p /\ r = pri THEN q ELSE Queue(k, o, r)
           /\ \A o \in Prc :
                 k1.pcb[o].ready_primap = IF o = p THEN b ELSE k.pcb[o].ready_primap
<1>1. k = [tcb |-> k.tcb, pcb |-> k.pcb, ipi |-> k.ipi] /\ k.pcb \in [Prc -> PCB]
  BY DEF Kernel
<1> DEFINE new == [k.pcb[p] EXCEPT !.ready_queue[pri] = q, !.ready_primap = b]
<1>2. /\ new \in PCB /\ new.p_schedtsk = k.pcb[p].p_schedtsk
      /\ new.enadsp = k.pcb[p].enadsp /\ new.dspflg = k.pcb[p].dspflg
      /\ new.ipm = k.pcb[p].ipm /\ new.ready_primap = b
      /\ \A r \in Pri : new.ready_queue[r] = IF r = pri THEN q ELSE k.pcb[p].ready_queue[r]
  BY <1>1 DEF PCB
<1> DEFINE P == [k.pcb EXCEPT ![p] = new]
<1>3. k1 = [k EXCEPT !.pcb = P]
  BY <1>1 DEF PCB, WithQueue
<1> HIDE DEF new
<1>4. P \in [Prc -> PCB] /\ \A o \in Prc : P[o] = IF o = p THEN new ELSE k.pcb[o]
  BY <1>1, <1>2
<1> HIDE DEF P
<1>5. k1 = [tcb |-> k.tcb, pcb |-> P, ipi |-> k.ipi]
  BY <1>1, <1>3
<1>6. k1.tcb = k.tcb /\ k1.ipi = k.ipi /\ k1.pcb = P /\ k1 \in Kernel
  <2>1. k.tcb \in [Tsk -> TCB] /\ k.ipi \in SUBSET Prc
    BY KernelFields
  <2>2. k1.tcb = k.tcb /\ k1.ipi = k.ipi
    BY <1>5
  <2>3. k1.pcb = P
    BY <1>5
  <2>4. k1 \in Kernel
    BY <1>4, <1>5, <2>1 DEF Kernel
  <2> QED
    BY <2>2, <2>3, <2>4
<1>7. \A o \in Prc : k1.pcb[o] = IF o = p THEN new ELSE k.pcb[o]
  BY <1>4, <1>6
<1>8. FlagsKept(me, k, k1)
  BY <1>2, <1>6, <1>7 DEF FlagsKept, Schedtsk
<1>9. \A o \in Prc : Schedtsk(k1, o) = Schedtsk(k, o)
  BY <1>2, <1>7 DEF Schedtsk
<1>10. \A o \in Prc, r \in Pri :
          Queue(k1, o, r) = IF o = p /\ r = pri THEN q ELSE Queue(k, o, r)
  <2> TAKE o \in Prc, r \in Pri
  <2>1. CASE o = p
    BY <1>2, <1>7, <2>1 DEF Queue
  <2>2. CASE o # p
    BY <1>7, <2>2 DEF Queue
  <2> QED
    BY <2>1, <2>2
<1>11. \A o \in Prc : k1.pcb[o].ready_primap = IF o = p THEN b ELSE k.pcb[o].ready_primap
  BY <1>2, <1>7
<1> QED
  BY <1>6, <1>8, <1>9, <1>10, <1>11

\* update_schedtsk_dsp changes p_schedtsk only, where dispatching is enabled.
LEMMA UpdateFacts ==
    ASSUME NEW k \in Kernel, NEW me \in Prc, NEW p \in Prc, NEW t \in Tsk \cup {NULL},
           NEW k1, k1 = UpdateSchedtskDsp(k, me, p, t)
    PROVE  /\ k1 \in Kernel /\ k1.tcb = k.tcb
           /\ FlagsKept(me, k, k1)
           /\ \A o \in Prc : Schedtsk(k1, o) = IF o = p /\ k.pcb[p].dspflg THEN t
                                               ELSE Schedtsk(k, o)
           /\ \A o \in Prc, r \in Pri : Queue(k1, o, r) = Queue(k, o, r)
           /\ \A o \in Prc : k1.pcb[o].ready_primap = k.pcb[o].ready_primap
<1>1. k.pcb \in [Prc -> PCB] /\ k.pcb[p] \in PCB
  BY DEF Kernel
<1> DEFINE new == [k.pcb[p] EXCEPT !.p_schedtsk = t]
<1>2. CASE k.pcb[p].dspflg
  <2>1. /\ new \in PCB /\ new.p_schedtsk = t
        /\ new.enadsp = k.pcb[p].enadsp /\ new.dspflg = k.pcb[p].dspflg
        /\ new.ipm = k.pcb[p].ipm /\ new.ready_primap = k.pcb[p].ready_primap
        /\ new.ready_queue = k.pcb[p].ready_queue
    BY <1>1 DEF PCB
  <2>2. /\ k1.tcb = k.tcb /\ k1.pcb = [k.pcb EXCEPT ![p] = new]
        /\ k1 = [tcb |-> k1.tcb, pcb |-> k1.pcb, ipi |-> k1.ipi]
        /\ k1.ipi \in SUBSET Prc /\ k.ipi \subseteq k1.ipi
        /\ p # me /\ Schedtsk(k, p) # t => p \in k1.ipi
    BY <1>1, <1>2 DEF UpdateSchedtskDsp, Kernel
  <2> HIDE DEF new
  <2>3. k1 \in Kernel
    BY <1>1, <2>1, <2>2 DEF Kernel
  <2>4. \A o \in Prc : k1.pcb[o] = IF o = p THEN new ELSE k.pcb[o]
    BY <1>1, <2>1, <2>2
  <2>5. FlagsKept(me, k, k1)
    BY <1>2, <2>1, <2>2, <2>4 DEF FlagsKept, Schedtsk
  <2> QED
    BY <1>1, <1>2, <2>1, <2>2, <2>3, <2>4, <2>5 DEF Schedtsk, Queue
<1>3. CASE ~k.pcb[p].dspflg
  BY <1>3 DEF UpdateSchedtskDsp, FlagsKept
<1> QED
  BY <1>2, <1>3

\* The task to execute is in the queue of its priority.
LEMMA TopFacts ==
    ASSUME NEW k \in Kernel, NEW R \in SUBSET Tsk, NEW p \in Prc, NEW s \in Tsk \cup {NULL},
           QueuesHold(k, R), IsTop(k, p, s)
    PROVE  IF s = NULL
             THEN \A pri \in Pri : Queue(k, p, pri) = << >>
             ELSE /\ s \in R /\ k.tcb[s].p_pcb = p /\ k.tcb[s].priority \in Pri
                  /\ Queue(k, p, k.tcb[s].priority) # << >>
                  /\ s = Head(Queue(k, p, k.tcb[s].priority))
                  /\ \A pri \in Pri : pri < k.tcb[s].priority => Queue(k, p, pri) = << >>
<1>1. CASE \A pri \in Pri : Queue(k, p, pri) = << >>
  BY <1>1 DEF IsTop
<1>2. ASSUME NEW pri \in Pri, Queue(k, p, pri) # << >>, s = Head(Queue(k, p, pri)),
             \A other \in Pri : other < pri => Queue(k, p, other) = << >>
      PROVE  /\ s # NULL
             /\ s \in R /\ k.tcb[s].p_pcb = p /\ k.tcb[s].priority = pri
  <2>1. s \in ToSet(Queue(k, p, pri)) /\ s \in Tsk
    BY <1>2, HeadFacts, KernelFields
  <2> QED
    BY <1>2, <2>1, ConfigAssumption DEF QueuesHold
<1> QED
  BY <1>1, <1>2 DEF IsTop

\* The sub-priorities are numbers.
LEMMA SubpriFacts ==
    ASSUME NEW k, k.tcb \in [Tsk -> TCB]
    PROVE  /\ Subpri(k.tcb) \in [Tsk -> Nat]
           /\ \A t \in Tsk : Subpri(k.tcb)[t] = CurrentSubpri(k, t)
<1>1. \A t \in Tsk : k.tcb[t].boosted \in BOOLEAN /\ k.tcb[t].subpri \in Nat
  BY ConfigAssumption DEF TCB, SubPri
<1> QED
  BY <1>1 DEF Subpri, CurrentSubpri

\* The insertion of make_runnable and change_priority.
InsertedInto(q, t, q1) ==
    /\ q1 \in Seq(Tsk) /\ IsInjective(q1) /\ q1 # << >>
    /\ ToSet(q1) = ToSet(q) \cup {t}
    /\ q = << >> => Head(q1) = t

\* A deletion keeps the order, too.
LEMMA DeleteOrder ==
    ASSUME NEW T, NEW pri, NEW q \in Seq(Tsk), IsInjective(q), NEW t \in ToSet(q),
           Ordered(T, pri, q)
    PROVE  Ordered(T, pri, QueueDelete(q, t))
<1>1. t \in Range(q)
  BY DEF ToSet, Range
<1>2. PICK i \in 1 .. Len(q) :
         QueueDelete(q, t) \in Seq(Tsk) /\ Removed(q, i, QueueDelete(q, t))
  BY <1>1, DeleteRemoves
<1>3. Sorted(q, Subpri(T)) => Sorted(QueueDelete(q, t), Subpri(T))
  BY <1>2, RemoveFacts
<1> QED
  BY <1>3 DEF Ordered

\* The other tasks do not count for the order.
LEMMA OrderKept ==
    ASSUME NEW T, NEW T1, NEW pri, NEW q \in Seq(Tsk), \A u \in ToSet(q) : T1[u] = T[u],
           Ordered(T, pri, q)
    PROVE  Ordered(T1, pri, q)
<1>1. \A u \in Range(q) : u \in Tsk /\ T1[u] = T[u]
  BY LenProperties DEF Range, ToSet
<1>2. \A u \in Range(q) : Subpri(T)[u] = Subpri(T1)[u]
  BY <1>1 DEF Subpri
<1> QED
  BY <1>2, SortedKept DEF Ordered

LEMMA InsertLastFacts ==
    ASSUME NEW k, NEW q \in Seq(Tsk), IsInjective(q), NEW t \in Tsk, t \notin ToSet(q)
    PROVE  InsertedInto(q, t, InsertLast(k, q, t))
<1>1. /\ InsertLast(k, q, t) \in Seq(Tsk)
      /\ IsInjective(InsertLast(k, q, t))
      /\ ToSet(InsertLast(k, q, t)) = ToSet(q) \cup {t}
      /\ InsertLast(k, q, t) # << >>
  <2>1. CASE k.tcb[t].priority \in SubprioPri
    <3> DEFINE I == {i \in DOMAIN q : CurrentSubpri(k, t) < CurrentSubpri(k, q[i])}
    <3>1. FirstOrEnd(q, I) \in 1 .. Len(q) + 1
      BY FirstOrEndFacts
    <3>2. InsertLast(k, q, t) = InsertAt(q, FirstOrEnd(q, I), t)
      BY <2>1 DEF InsertLast, QueueInsertSubprioTail
    <3> HIDE DEF I
    <3> QED
      BY <3>1, <3>2, InsertFacts
  <2>2. CASE k.tcb[t].priority \notin SubprioPri
    BY <2>2, AppendFacts DEF InsertLast
  <2> QED
    BY <2>1, <2>2
<1>2. q = << >> => Head(InsertLast(k, q, t)) = t
  <2>1. q = << >> => ToSet(q) = {}
    BY DEF ToSet
  <2>2. Head(InsertLast(k, q, t)) \in ToSet(q) \cup {t}
    BY <1>1, HeadFacts
  <2> QED
    BY <2>1, <2>2
<1> QED
  BY <1>1, <1>2 DEF InsertedInto

\* It keeps the order of the queue, and the head unless the task precedes it.
LEMMA InsertLastOrder ==
    ASSUME NEW k, k.tcb \in [Tsk -> TCB], NEW q \in Seq(Tsk), NEW t \in Tsk,
           Ordered(k.tcb, k.tcb[t].priority, q)
    PROVE  /\ Ordered(k.tcb, k.tcb[t].priority, InsertLast(k, q, t))
           /\ q # << >>
              /\ (k.tcb[t].priority \in SubprioPri =>
                     Subpri(k.tcb)[Head(q)] <= Subpri(k.tcb)[t])
              => Head(InsertLast(k, q, t)) = Head(q)
<1> DEFINE f == Subpri(k.tcb)
           I == {i \in DOMAIN q : CurrentSubpri(k, t) < CurrentSubpri(k, q[i])}
           n == FirstOrEnd(q, I)
<1>1. /\ f \in [Tsk -> Nat] /\ \A u \in Tsk : f[u] = CurrentSubpri(k, u)
      /\ Len(q) \in Nat /\ DOMAIN q = 1 .. Len(q) /\ \A i \in DOMAIN q : q[i] \in Tsk
  BY SubpriFacts, LenProperties
<1>2. I = {i \in DOMAIN q : f[t] < f[q[i]]}
  BY <1>1
<1>3. n \in I \cup {Len(q) + 1} /\ n \in 1 .. Len(q) + 1
  BY FirstOrEndLeast, FirstOrEndFacts
<1> HIDE DEF f
<1>4. CASE k.tcb[t].priority \in SubprioPri
  <2>1. Sorted(q, f)
    BY <1>4 DEF Ordered, f
  <2>2. InsertLast(k, q, t) = InsertAt(q, n, t)
    BY <1>4 DEF InsertLast, QueueInsertSubprioTail
  <2>3. Sorted(InsertAt(q, n, t), f)
    BY <1>1, <1>2, <2>1, InsertSorted
  <2>4. ASSUME q # << >>, f[Head(q)] <= f[t]
        PROVE  Head(InsertAt(q, n, t)) = Head(q)
    <3>1. Len(q) > 0 /\ Head(q) = q[1] /\ f[q[1]] \in Nat /\ f[t] \in Nat
      BY <1>1, <2>4, EmptySeq
    <3>2. n # 1
      BY <1>1, <1>2, <1>3, <2>4, <3>1
    <3> HIDE DEF n
    <3>3. InsertAt(q, n, t) \in Seq(Tsk) /\ Inserted(q, n, t, InsertAt(q, n, t))
      BY <1>3, InsertPositions
    <3>4. Len(InsertAt(q, n, t)) > 0 /\ InsertAt(q, n, t)[1] = q[1]
      BY <1>1, <1>3, <3>1, <3>2, <3>3 DEF Inserted
    <3> QED
      BY <3>1, <3>3, <3>4
  <2> QED
    BY <1>4, <2>2, <2>3, <2>4 DEF Ordered, f
<1>5. CASE k.tcb[t].priority \notin SubprioPri
  <2>1. q # << >> => Head(Append(q, t)) = Head(q)
    BY <1>1, EmptySeq
  <2> QED
    BY <1>5, <2>1 DEF Ordered, InsertLast, QueueInsertPrev
<1> QED
  BY <1>4, <1>5

\* The queues of the other processors decide for them.
OthersScheduled(k, p) ==
    \A o \in Prc \ {p} : k.pcb[o].dspflg => IsTop(k, o, Schedtsk(k, o))

\* A change of the queues of p leaves the other processors alone.
LEMMA OthersFacts ==
    ASSUME NEW k \in Kernel, NEW p \in Prc, NEW pri \in Pri, NEW q \in Seq(Tsk),
           NEW b \in SUBSET Pri, NEW k1, k1 = WithQueue(k, p, pri, q, b),
           OthersScheduled(k, p)
    PROVE  OthersScheduled(k1, p)
BY QueueUpdate DEF OthersScheduled, IsTop, FlagsKept

\* From k to k1 the task control blocks become T, and the queues of k1 hold
\* the tasks of R and decide what is scheduled.
Updated(me, k, k1, T, R) ==
    /\ k1 \in Kernel /\ k1.tcb = T
    /\ QueuesHold(k1, R) /\ Scheduled(k1) /\ FlagsKept(me, k, k1)

\* Only the queues have changed.
Requeued(me, k, k1, R) == Updated(me, k, k1, k.tcb, R)

\* After the queues of p have changed, update_schedtsk_dsp with the right task
\* makes p_schedtsk right again.
LEMMA RescheduleFacts ==
    ASSUME NEW k \in Kernel, NEW R \in SUBSET Tsk, NEW me \in Prc, NEW p \in Prc,
           NEW x \in Tsk \cup {NULL},
           QueuesHold(k, R), OthersScheduled(k, p), IsTop(k, p, x)
    PROVE  Requeued(me, k, UpdateSchedtskDsp(k, me, p, x), R)
<1> SUFFICES ASSUME NEW k1, k1 = UpdateSchedtskDsp(k, me, p, x)
             PROVE  /\ k1 \in Kernel /\ k1.tcb = k.tcb
                    /\ QueuesHold(k1, R) /\ Scheduled(k1) /\ FlagsKept(me, k, k1)
  BY DEF Requeued, Updated
<1>1. /\ k1 \in Kernel /\ k1.tcb = k.tcb /\ FlagsKept(me, k, k1)
      /\ \A o \in Prc : Schedtsk(k1, o) = IF o = p /\ k.pcb[p].dspflg THEN x
                                          ELSE Schedtsk(k, o)
      /\ \A o \in Prc, r \in Pri : Queue(k1, o, r) = Queue(k, o, r)
      /\ \A o \in Prc : k1.pcb[o].ready_primap = k.pcb[o].ready_primap
  BY UpdateFacts, SMTT(30)
<1>2. QueuesHold(k1, R)
  BY <1>1 DEF QueuesHold
<1>3. Scheduled(k1)
  <2> SUFFICES ASSUME NEW o \in Prc, k.pcb[o].dspflg PROVE IsTop(k, o, Schedtsk(k1, o))
    BY <1>1 DEF Scheduled, FlagsKept, IsTop
  <2> QED
    BY <1>1 DEF OthersScheduled
<1> QED
  BY <1>1, <1>2, <1>3

\* A task enters its queue, which becomes q, or leaves it.
LEMMA EnqueueFacts ==
    ASSUME NEW k \in Kernel, NEW me \in Prc, NEW R \in SUBSET Tsk, NEW t \in Tsk, t \notin R,
           QueuesHold(k, R), OthersScheduled(k, k.tcb[t].p_pcb),
           NEW q \in Seq(Tsk), IsInjective(q), q # << >>,
           ToSet(q) = ToSet(Queue(k, k.tcb[t].p_pcb, k.tcb[t].priority)) \cup {t},
           Ordered(k.tcb, k.tcb[t].priority, q),
           NEW kq, kq = Enqueue(k, t, q)
    PROVE  /\ kq \in Kernel /\ kq.tcb = k.tcb /\ FlagsKept(me, k, kq)
           /\ \A o \in Prc : Schedtsk(kq, o) = Schedtsk(k, o)
           /\ \A o \in Prc, r \in Pri :
                 Queue(kq, o, r) = IF o = k.tcb[t].p_pcb /\ r = k.tcb[t].priority
                                     THEN q ELSE Queue(k, o, r)
           /\ QueuesHold(kq, R \cup {t}) /\ OthersScheduled(kq, k.tcb[t].p_pcb)
<1> DEFINE pri == k.tcb[t].priority
           p   == k.tcb[t].p_pcb
           b   == k.pcb[p].ready_primap \cup {pri}
<1>1. pri \in Pri /\ p \in Prc /\ b \in SUBSET Pri /\ kq = WithQueue(k, p, pri, q, b)
  <2>1. pri \in Pri /\ p \in Prc /\ b \in SUBSET Pri
    BY KernelFields
  <2> QED
    BY <2>1 DEF Enqueue, SetQueue, WithQueue
<1>2. /\ OthersScheduled(k, p) /\ ToSet(q) = ToSet(Queue(k, p, pri)) \cup {t}
      /\ Ordered(k.tcb, pri, q)
  OBVIOUS
<1> HIDE DEF pri, p, b
<1>3. /\ kq \in Kernel /\ kq.tcb = k.tcb /\ FlagsKept(me, k, kq)
      /\ \A o \in Prc : Schedtsk(kq, o) = Schedtsk(k, o)
      /\ \A o \in Prc, r \in Pri :
            Queue(kq, o, r) = IF o = p /\ r = pri THEN q ELSE Queue(k, o, r)
      /\ \A o \in Prc : kq.pcb[o].ready_primap = IF o = p THEN b ELSE k.pcb[o].ready_primap
  BY <1>1, QueueUpdate
<1>4. QueuesHold(kq, R \cup {t})
  <2> SUFFICES ASSUME NEW o \in Prc, NEW r \in Pri
               PROVE  /\ IsInjective(Queue(kq, o, r))
                      /\ ToSet(Queue(kq, o, r)) =
                            {u \in R \cup {t} : k.tcb[u].p_pcb = o /\ k.tcb[u].priority = r}
                      /\ r \in kq.pcb[o].ready_primap <=> Queue(kq, o, r) # << >>
                      /\ Ordered(k.tcb, r, Queue(kq, o, r))
    BY <1>3 DEF QueuesHold
  <2>1. CASE o = p /\ r = pri
    <3>1. /\ Queue(kq, o, r) = q /\ kq.pcb[o].ready_primap = b
          /\ Ordered(k.tcb, r, Queue(kq, o, r))
      BY <1>2, <1>3, <2>1
    <3>2. ToSet(q) = {u \in R \cup {t} : k.tcb[u].p_pcb = o /\ k.tcb[u].priority = r}
      BY <1>1, <1>2, <2>1 DEF QueuesHold, p, pri
    <3> QED
      BY <2>1, <3>1, <3>2 DEF b
  <2>2. CASE ~(o = p /\ r = pri)
    <3>1. Queue(kq, o, r) = Queue(k, o, r)
      BY <1>3, <2>2
    <3>2. ToSet(Queue(kq, o, r)) =
            {u \in R \cup {t} : k.tcb[u].p_pcb = o /\ k.tcb[u].priority = r}
      BY <2>2, <3>1 DEF QueuesHold, pri, p
    <3>3. r \in kq.pcb[o].ready_primap <=> r \in k.pcb[o].ready_primap
      BY <1>3, <2>2 DEF b
    <3> QED
      BY <3>1, <3>2, <3>3 DEF QueuesHold
  <2> QED
    BY <2>1, <2>2
<1>5. OthersScheduled(kq, p)
  BY <1>1, <1>2, OthersFacts
<1> QED
  BY <1>3, <1>4, <1>5 DEF p, pri

\* What Dequeue does to queues that hold the tasks of R.
DequeuedFrom(me, k, R, t, kq) ==
    LET p   == k.tcb[t].p_pcb
        pri == k.tcb[t].priority
        old == Queue(k, p, pri)
        q   == QueueDelete(old, t)
    IN  /\ kq \in Kernel /\ kq.tcb = k.tcb /\ FlagsKept(me, k, kq)
        /\ \A o \in Prc : Schedtsk(kq, o) = Schedtsk(k, o)
        /\ \A o \in Prc, r \in Pri :
              Queue(kq, o, r) = IF o = p /\ r = pri THEN q ELSE Queue(k, o, r)
        /\ QueuesHold(kq, R \ {t}) /\ OthersScheduled(kq, p)
        /\ q \in Seq(Tsk) /\ old # << >>
        /\ Head(old) # t => q # << >> /\ Head(q) = Head(old)

LEMMA DequeueFacts ==
    ASSUME NEW k \in Kernel, NEW me \in Prc, NEW R \in SUBSET Tsk, NEW t \in R, QueuesHold(k, R),
           OthersScheduled(k, k.tcb[t].p_pcb)
    PROVE  DequeuedFrom(me, k, R, t, Dequeue(k, t))
<1> DEFINE pri == k.tcb[t].priority
           p   == k.tcb[t].p_pcb
           q   == QueueDelete(Queue(k, p, pri), t)
           kq  == Dequeue(k, t)
           b   == IF q # << >> THEN k.pcb[p].ready_primap \cup {pri}
                               ELSE k.pcb[p].ready_primap \ {pri}
<1>1. /\ t \in Tsk /\ pri \in Pri /\ p \in Prc
      /\ Queue(k, p, pri) \in Seq(Tsk)
      /\ k.pcb[p].ready_primap \in SUBSET Pri
  BY KernelFields
<1>2. IsInjective(Queue(k, p, pri)) /\ t \in ToSet(Queue(k, p, pri))
  BY <1>1 DEF QueuesHold
<1>3. kq = WithQueue(k, p, pri, q, b)
  BY DEF Dequeue, SetQueue, WithQueue
<1>4. OthersScheduled(k, p)
  OBVIOUS
<1> HIDE DEF pri, p, q, kq
<1>5. /\ q \in Seq(Tsk) /\ IsInjective(q)
      /\ ToSet(q) = ToSet(Queue(k, p, pri)) \ {t}
      /\ Head(Queue(k, p, pri)) # t => q # << >> /\ Head(q) = Head(Queue(k, p, pri))
  BY <1>1, <1>2, DeleteFacts DEF q
<1>12. Ordered(k.tcb, pri, q)
  <2>1. Ordered(k.tcb, pri, Queue(k, p, pri))
    BY <1>1 DEF QueuesHold
  <2> QED
    BY <1>1, <1>2, <2>1, DeleteOrder DEF q
<1>6. b \in SUBSET Pri
  BY <1>1
<1> HIDE DEF b
<1>7. /\ kq \in Kernel /\ kq.tcb = k.tcb /\ FlagsKept(me, k, kq)
      /\ \A o \in Prc : Schedtsk(kq, o) = Schedtsk(k, o)
      /\ \A o \in Prc, r \in Pri :
            Queue(kq, o, r) = IF o = p /\ r = pri THEN q ELSE Queue(k, o, r)
      /\ \A o \in Prc : kq.pcb[o].ready_primap = IF o = p THEN b ELSE k.pcb[o].ready_primap
  BY <1>1, <1>3, <1>5, <1>6, QueueUpdate
<1>8. QueuesHold(kq, R \ {t})
  <2> SUFFICES ASSUME NEW o \in Prc, NEW r \in Pri
               PROVE  /\ IsInjective(Queue(kq, o, r))
                      /\ ToSet(Queue(kq, o, r)) =
                            {u \in R \ {t} : k.tcb[u].p_pcb = o /\ k.tcb[u].priority = r}
                      /\ r \in kq.pcb[o].ready_primap <=> Queue(kq, o, r) # << >>
                      /\ Ordered(k.tcb, r, Queue(kq, o, r))
    BY <1>7 DEF QueuesHold
  <2>1. CASE o = p /\ r = pri
    <3>1. /\ Queue(kq, o, r) = q /\ kq.pcb[o].ready_primap = b
          /\ Ordered(k.tcb, r, Queue(kq, o, r))
      BY <1>7, <1>12, <2>1
    <3>2. ToSet(q) = {u \in R \ {t} : k.tcb[u].p_pcb = o /\ k.tcb[u].priority = r}
      BY <1>1, <1>5, <2>1 DEF QueuesHold
    <3>3. Queue(k, p, pri) # << >>
      BY <1>2 DEF ToSet
    <3>4. pri \in b <=> q # << >>
      BY <1>1, <3>3 DEF QueuesHold, b
    <3> QED
      BY <1>5, <2>1, <3>1, <3>2, <3>4
  <2>2. CASE ~(o = p /\ r = pri)
    <3>1. Queue(kq, o, r) = Queue(k, o, r)
      BY <1>7, <2>2
    <3>2. ToSet(Queue(kq, o, r)) =
            {u \in R \ {t} : k.tcb[u].p_pcb = o /\ k.tcb[u].priority = r}
      BY <2>2, <3>1 DEF QueuesHold, pri, p
    <3>3. r \in kq.pcb[o].ready_primap <=> r \in k.pcb[o].ready_primap
      BY <1>7, <2>2 DEF b
    <3> QED
      BY <3>1, <3>2, <3>3 DEF QueuesHold
  <2> QED
    BY <2>1, <2>2
<1>9. OthersScheduled(kq, p)
  BY <1>1, <1>3, <1>5, <1>6, <1>4, OthersFacts
<1>10. Queue(k, p, pri) # << >>
  BY <1>2 DEF ToSet
<1>11. DequeuedFrom(me, k, R, t, kq)
  BY <1>5, <1>7, <1>8, <1>9, <1>10 DEF DequeuedFrom, p, pri, q
<1> QED
  BY <1>11 DEF kq

\* make_runnable puts the task into its queue and keeps p_schedtsk right.
LEMMA MakeRunnableFacts ==
    ASSUME NEW k \in Kernel, NEW R \in SUBSET Tsk, NEW me \in Prc, NEW t \in Tsk, t \notin R,
           QueuesHold(k, R), Scheduled(k)
    PROVE  Requeued(me, k, MakeRunnable(k, me, t), R \cup {t})
<1> SUFFICES ASSUME NEW k1, k1 = MakeRunnable(k, me, t)
             PROVE  /\ k1 \in Kernel /\ k1.tcb = k.tcb
                    /\ QueuesHold(k1, R \cup {t}) /\ Scheduled(k1) /\ FlagsKept(me, k, k1)
  BY DEF Requeued, Updated
<1> DEFINE pri == k.tcb[t].priority
           p   == k.tcb[t].p_pcb
           s   == Schedtsk(k, p)
           q   == InsertLast(k, Queue(k, p, pri), t)
           kq  == Enqueue(k, t, q)
           top == Head(Queue(kq, p, pri))
<1>1. /\ pri \in Pri /\ p \in Prc /\ Queue(k, p, pri) \in Seq(Tsk)
      /\ s \in Tsk \cup {NULL}
  BY KernelFields
<1>2. IsInjective(Queue(k, p, pri)) /\ t \notin ToSet(Queue(k, p, pri))
  BY <1>1 DEF QueuesHold
<1>3. k1 = IF s = NULL \/ pri < k.tcb[s].priority THEN UpdateSchedtskDsp(kq, me, p, t)
           ELSE IF pri = k.tcb[s].priority THEN UpdateSchedtskDsp(kq, me, p, top)
           ELSE kq
  BY DEF MakeRunnable
<1>4. /\ q \in Seq(Tsk) /\ IsInjective(q) /\ q # << >>
      /\ ToSet(q) = ToSet(Queue(k, p, pri)) \cup {t}
      /\ Queue(k, p, pri) = << >> => Head(q) = t
  <2> HIDE DEF pri, p
  <2> QED
    BY <1>1, <1>2, InsertLastFacts DEF InsertedInto
<1>12. Ordered(k.tcb, pri, q)
  <2>1. Ordered(k.tcb, pri, Queue(k, p, pri)) /\ k.tcb \in [Tsk -> TCB]
    BY <1>1, KernelFields DEF QueuesHold
  <2> QED
    BY <1>1, <2>1, InsertLastOrder
<1> HIDE DEF q, kq, s, top
<1>5. OthersScheduled(k, p)
  BY DEF Scheduled, OthersScheduled
<1>6. /\ kq \in Kernel /\ kq.tcb = k.tcb /\ FlagsKept(me, k, kq)
      /\ \A o \in Prc : Schedtsk(kq, o) = Schedtsk(k, o)
      /\ \A o \in Prc, r \in Pri :
            Queue(kq, o, r) = IF o = p /\ r = pri THEN q ELSE Queue(k, o, r)
      /\ QueuesHold(kq, R \cup {t}) /\ OthersScheduled(kq, p)
  BY <1>4, <1>5, <1>12, EnqueueFacts DEF kq
<1> HIDE DEF pri, p
<1>7. top = Head(q) /\ top \in Tsk
  BY <1>1, <1>4, <1>6, HeadFacts DEF top
<1> DEFINE Goal == /\ k1 \in Kernel /\ k1.tcb = k.tcb
                   /\ QueuesHold(k1, R \cup {t}) /\ Scheduled(k1) /\ FlagsKept(me, k, k1)
<1>9. ASSUME NEW x \in Tsk, IsTop(kq, p, x), k1 = UpdateSchedtskDsp(kq, me, p, x)
      PROVE  Goal
  <2>1. Requeued(me, kq, k1, R \cup {t})
    BY <1>1, <1>6, <1>9, RescheduleFacts
  <2> QED
    BY <1>6, <2>1 DEF FlagsKept, Requeued, Updated
<1> HIDE DEF Goal
<1>10. CASE k.pcb[p].dspflg
  <2>1. IsTop(k, p, s)
    BY <1>1, <1>10 DEF Scheduled, s
  <2>2. IF s = NULL
          THEN \A r \in Pri : Queue(k, p, r) = << >>
          ELSE LET ps == k.tcb[s].priority
               IN  /\ s \in Tsk /\ ps \in Pri /\ Queue(k, p, ps) # << >>
                   /\ s = Head(Queue(k, p, ps))
                   /\ \A r \in Pri : r < ps => Queue(k, p, r) = << >>
    BY <1>1, <2>1, TopFacts
  <2>3. CASE s = NULL \/ pri < k.tcb[s].priority
    <3>1. ASSUME NEW r \in Pri, r <= pri PROVE Queue(k, p, r) = << >>
      <4>1. CASE s = NULL
        BY <2>2, <4>1
      <4>2. CASE s # NULL
        <5>1. r < k.tcb[s].priority
          BY <1>1, <2>2, <2>3, <3>1, <4>2 DEF Pri
        <5> QED
          BY <2>2, <4>2, <5>1
      <4> QED
        BY <4>1, <4>2
    <3>2. Queue(kq, p, pri) # << >> /\ Head(Queue(kq, p, pri)) = t
      BY <1>1, <1>4, <1>6, <3>1 DEF Pri
    <3>3. \A r \in Pri : r < pri => Queue(kq, p, r) = << >>
      BY <1>1, <1>6, <3>1 DEF Pri
    <3>4. IsTop(kq, p, t)
      BY <1>1, <3>2, <3>3 DEF IsTop
    <3>5. k1 = UpdateSchedtskDsp(kq, me, p, t)
      BY <1>3, <2>3
    <3> QED
      BY <1>9, <3>4, <3>5 DEF Goal
  <2>4. CASE s # NULL /\ pri = k.tcb[s].priority
    <3>1. \A r \in Pri : r < pri => Queue(k, p, r) = << >>
      BY <2>2, <2>4
    <3>2. \A r \in Pri : r < pri => Queue(kq, p, r) = << >>
      BY <1>1, <1>6, <3>1 DEF Pri
    <3>3. Queue(kq, p, pri) = q
      BY <1>1, <1>6
    <3>4. IsTop(kq, p, top)
      BY <1>1, <1>4, <1>7, <3>2, <3>3 DEF IsTop
    <3>5. k1 = UpdateSchedtskDsp(kq, me, p, top)
      BY <1>1, <1>3, <2>4 DEF Pri
    <3> QED
      BY <1>7, <1>9, <3>4, <3>5 DEF Goal
  <2>5. CASE s # NULL /\ pri > k.tcb[s].priority
    <3>1. k1 = kq
      BY <1>1, <1>3, <2>2, <2>5 DEF Pri
    <3>2. IsTop(kq, p, s)
      BY <1>1, <1>6, <2>2, <2>5 DEF IsTop, Pri
    <3>3. Scheduled(kq)
      BY <1>1, <1>6, <3>2 DEF Scheduled, OthersScheduled, s
    <3> QED
      BY <1>6, <3>1, <3>3 DEF Goal
  <2> QED
    BY <1>1, <2>2, <2>3, <2>4, <2>5 DEF Pri
<1>11. CASE ~k.pcb[p].dspflg
  <2>1. k1 = kq
    BY <1>1, <1>3, <1>6, <1>11 DEF UpdateSchedtskDsp, FlagsKept
  <2>2. Scheduled(kq)
    BY <1>1, <1>6, <1>11 DEF Scheduled, OthersScheduled, FlagsKept
  <2> QED
    BY <1>6, <2>1, <2>2 DEF Goal
<1> QED
  BY <1>10, <1>11 DEF Goal

\* The search in the bitmap finds the task to execute.
LEMMA SearchFacts ==
    ASSUME NEW k \in Kernel, NEW R \in SUBSET Tsk, QueuesHold(k, R), NEW p \in Prc
    PROVE  LET x == IF PrimapEmpty(k, p) THEN NULL ELSE SearchSchedtsk(k, p)
           IN  x \in Tsk \cup {NULL} /\ IsTop(k, p, x)
<1> DEFINE m == PrimapSearch(k, p)
<1>1. /\ k.pcb[p].ready_primap \in SUBSET Pri
      /\ \A pri \in Pri : /\ Queue(k, p, pri) \in Seq(Tsk)
                          /\ pri \in k.pcb[p].ready_primap <=> Queue(k, p, pri) # << >>
  BY KernelFields DEF QueuesHold
<1>2. CASE PrimapEmpty(k, p)
  BY <1>1, <1>2 DEF PrimapEmpty, IsTop
<1>3. CASE ~PrimapEmpty(k, p)
  <2>1. \E pri \in k.pcb[p].ready_primap :
            \A other \in k.pcb[p].ready_primap : pri <= other
    <3>1. k.pcb[p].ready_primap \in SUBSET Nat /\ k.pcb[p].ready_primap # {}
      BY <1>1, <1>3 DEF PrimapEmpty, Pri
    <3> QED
      BY <3>1, Minimum
  <2>2. /\ m \in k.pcb[p].ready_primap
        /\ \A other \in k.pcb[p].ready_primap : m <= other
    BY <2>1 DEF PrimapSearch
  <2> HIDE DEF m
  <2>3. m \in Pri /\ Queue(k, p, m) # << >> /\ Queue(k, p, m) \in Seq(Tsk)
    BY <1>1, <2>2
  <2>4. \A other \in Pri : other < m => Queue(k, p, other) = << >>
    BY <1>1, <2>2, <2>3 DEF Pri
  <2>5. SearchSchedtsk(k, p) = Head(Queue(k, p, m)) /\ Head(Queue(k, p, m)) \in Tsk
    BY <2>3, HeadFacts DEF SearchSchedtsk, m
  <2> QED
    BY <1>3, <2>3, <2>4, <2>5 DEF IsTop
<1> QED
  BY <1>2, <1>3

\* make_non_runnable takes the task out of its queue and keeps p_schedtsk right.
LEMMA MakeNonRunnableFacts ==
    ASSUME NEW k \in Kernel, NEW R \in SUBSET Tsk, NEW me \in Prc, NEW t \in R,
           QueuesHold(k, R), Scheduled(k)
    PROVE  Requeued(me, k, MakeNonRunnable(k, me, t), R \ {t})
<1> SUFFICES ASSUME NEW k1, k1 = MakeNonRunnable(k, me, t)
             PROVE  /\ k1 \in Kernel /\ k1.tcb = k.tcb
                    /\ QueuesHold(k1, R \ {t}) /\ Scheduled(k1) /\ FlagsKept(me, k, k1)
  BY DEF Requeued, Updated
<1> DEFINE pri == k.tcb[t].priority
           p   == k.tcb[t].p_pcb
           s   == Schedtsk(k, p)
           kq  == Dequeue(k, t)
           q   == Queue(kq, p, pri)
           x   == IF q # << >> THEN Head(q)
                  ELSE IF PrimapEmpty(kq, p) THEN NULL ELSE SearchSchedtsk(kq, p)
<1>1. /\ t \in Tsk /\ pri \in Pri /\ p \in Prc
      /\ Queue(k, p, pri) \in Seq(Tsk) /\ s \in Tsk \cup {NULL}
  BY KernelFields
<1>2. t \in ToSet(Queue(k, p, pri))
  BY <1>1 DEF QueuesHold
<1>3. k1 = IF s # t THEN kq ELSE UpdateSchedtskDsp(kq, me, p, x)
  <2>1. k1 = IF s # t THEN kq
             ELSE IF q # << >> THEN UpdateSchedtskDsp(kq, me, p, Head(q))
             ELSE UpdateSchedtskDsp(kq, me, p,
                      IF PrimapEmpty(kq, p) THEN NULL ELSE SearchSchedtsk(kq, p))
    BY DEF MakeNonRunnable
  <2> HIDE DEF kq, q, s, p
  <2> QED
    BY <2>1
<1>4. OthersScheduled(k, p)
  BY DEF Scheduled, OthersScheduled
<1> HIDE DEF s, kq, x
<1>5. /\ kq \in Kernel /\ kq.tcb = k.tcb /\ FlagsKept(me, k, kq)
      /\ \A o \in Prc : Schedtsk(kq, o) = Schedtsk(k, o)
      /\ \A o \in Prc, r \in Pri :
            Queue(kq, o, r) = IF o = p /\ r = pri THEN q ELSE Queue(k, o, r)
      /\ QueuesHold(kq, R \ {t}) /\ OthersScheduled(kq, p)
      /\ q \in Seq(Tsk)
      /\ Head(Queue(k, p, pri)) # t => q # << >> /\ Head(q) = Head(Queue(k, p, pri))
  <2> DEFINE d == QueueDelete(Queue(k, p, pri), t)
  <2>1. /\ kq \in Kernel /\ kq.tcb = k.tcb /\ FlagsKept(me, k, kq)
        /\ \A o \in Prc : Schedtsk(kq, o) = Schedtsk(k, o)
        /\ \A o \in Prc, r \in Pri :
              Queue(kq, o, r) = IF o = p /\ r = pri THEN d ELSE Queue(k, o, r)
        /\ QueuesHold(kq, R \ {t}) /\ OthersScheduled(kq, p)
        /\ d \in Seq(Tsk)
        /\ Head(Queue(k, p, pri)) # t => d # << >> /\ Head(d) = Head(Queue(k, p, pri))
    <3>1. DequeuedFrom(me, k, R, t, kq)
      BY <1>4, DequeueFacts DEF kq
    <3> QED
      BY <3>1 DEF DequeuedFrom
  <2> HIDE DEF d
  <2>2. q = d
    BY <1>1, <2>1
  <2> QED
    BY <2>1, <2>2
<1> HIDE DEF pri, p, q
<1>9. CASE k.pcb[p].dspflg
  <2>1. IsTop(k, p, s)
    BY <1>1, <1>9 DEF Scheduled, s
  <2>2. IF s = NULL
          THEN \A r \in Pri : Queue(k, p, r) = << >>
          ELSE LET ps == k.tcb[s].priority
               IN  /\ s \in Tsk /\ ps \in Pri /\ Queue(k, p, ps) # << >>
                   /\ s = Head(Queue(k, p, ps))
                   /\ \A r \in Pri : r < ps => Queue(k, p, r) = << >>
    BY <1>1, <2>1, TopFacts
  <2>3. s # NULL
    BY <1>1, <1>2, <2>2 DEF ToSet
  <2>4. CASE s # t
    <3> DEFINE ps == k.tcb[s].priority
    <3>1. /\ ps \in Pri /\ Queue(k, p, ps) # << >> /\ s = Head(Queue(k, p, ps))
          /\ \A r \in Pri : r < ps => Queue(k, p, r) = << >>
      BY <2>2, <2>3
    <3> HIDE DEF ps
    <3>2. Queue(kq, p, ps) # << >> /\ Head(Queue(kq, p, ps)) = s
      BY <1>1, <1>5, <2>4, <3>1
    <3>3. pri >= ps
      BY <1>1, <1>2, <3>1 DEF ToSet, Pri
    <3>4. \A r \in Pri : r < ps => Queue(kq, p, r) = << >>
      BY <1>1, <1>5, <3>1, <3>3 DEF Pri
    <3>5. IsTop(kq, p, s)
      BY <3>1, <3>2, <3>4 DEF IsTop
    <3>6. Scheduled(kq)
      BY <1>1, <1>5, <3>5 DEF Scheduled, OthersScheduled, s
    <3> QED
      BY <1>3, <1>5, <2>4, <3>6
  <2>5. CASE s = t
    <3>1. x \in Tsk \cup {NULL} /\ IsTop(kq, p, x)
      <4>1. CASE q # << >>
        <5>1. \A r \in Pri : r < pri => Queue(kq, p, r) = << >>
          BY <1>1, <1>5, <2>2, <2>3, <2>5 DEF pri, Pri
        <5>2. Queue(kq, p, pri) = q /\ x = Head(q) /\ Head(q) \in Tsk
          BY <1>1, <1>5, <4>1, HeadFacts DEF x
        <5> QED
          BY <1>1, <4>1, <5>1, <5>2 DEF IsTop
      <4>2. CASE q = << >>
        BY <1>1, <1>5, <4>2, SearchFacts DEF x
      <4> QED
        BY <4>1, <4>2
    <3>2. k1 = UpdateSchedtskDsp(kq, me, p, x)
      BY <1>3, <2>5
    <3>3. Requeued(me, kq, k1, R \ {t})
      BY <1>1, <1>5, <3>1, <3>2, RescheduleFacts
    <3> QED
      BY <1>5, <3>3 DEF FlagsKept, Requeued, Updated
  <2> QED
    BY <2>4, <2>5
<1>10. CASE ~k.pcb[p].dspflg
  <2>1. k1 = kq
    BY <1>1, <1>3, <1>5, <1>10 DEF UpdateSchedtskDsp, FlagsKept
  <2>2. Scheduled(kq)
    BY <1>1, <1>5, <1>10 DEF Scheduled, OthersScheduled, FlagsKept
  <2> QED
    BY <1>5, <2>1, <2>2
<1> QED
  BY <1>9, <1>10

\* A change in a task control block that does not concern the place of the
\* task in its queue, or of a task that is in no queue.
SetTcb(k, t, new) == [k EXCEPT !.tcb[t] = new]

SamePlace(k, t, new) ==
    /\ new.p_pcb = k.tcb[t].p_pcb /\ new.priority = k.tcb[t].priority
    /\ new.priority \in SubprioPri =>
          (IF new.boosted THEN 0 ELSE new.subpri) = CurrentSubpri(k, t)

LEMMA TcbFacts ==
    ASSUME NEW k \in Kernel, NEW me \in Prc, NEW R \in SUBSET Tsk, NEW t \in Tsk,
           NEW new \in TCB, NEW k1, k1 = SetTcb(k, t, new)
    PROVE  /\ k1 \in Kernel /\ k1.tcb = [k.tcb EXCEPT ![t] = new] /\ FlagsKept(me, k, k1)
           /\ \A o \in Prc : Schedtsk(k1, o) = Schedtsk(k, o)
           /\ \A o \in Prc, r \in Pri : Queue(k1, o, r) = Queue(k, o, r)
           /\ QueuesHold(k, R) /\ (t \in R => SamePlace(k, t, new)) => QueuesHold(k1, R)
           /\ Scheduled(k) => Scheduled(k1)
           /\ \A p \in Prc : OthersScheduled(k, p) => OthersScheduled(k1, p)
<1>1. k = [tcb |-> k.tcb, pcb |-> k.pcb, ipi |-> k.ipi] /\ k.tcb \in [Tsk -> TCB]
      /\ k.pcb \in [Prc -> PCB] /\ k.ipi \in SUBSET Prc
  BY DEF Kernel
<1> DEFINE T == [k.tcb EXCEPT ![t] = new]
<1>2. T \in [Tsk -> TCB] /\ \A u \in Tsk : T[u] = IF u = t THEN new ELSE k.tcb[u]
  BY <1>1
<1>3. k1 = [tcb |-> T, pcb |-> k.pcb, ipi |-> k.ipi]
  BY <1>1 DEF SetTcb
<1> HIDE DEF T
<1>4. k1.tcb = T /\ k1.pcb = k.pcb /\ k1.ipi = k.ipi
  BY <1>3
<1>5. k1 \in Kernel
  BY <1>1, <1>2, <1>3 DEF Kernel
<1>6. /\ FlagsKept(me, k, k1)
      /\ \A o \in Prc : Schedtsk(k1, o) = Schedtsk(k, o)
      /\ \A o \in Prc, r \in Pri : Queue(k1, o, r) = Queue(k, o, r)
  BY <1>4 DEF FlagsKept, Schedtsk, Queue
<1>7. ASSUME QueuesHold(k, R), t \in R => SamePlace(k, t, new)
      PROVE  QueuesHold(k1, R)
  <2>1. \A u \in R : T[u].p_pcb = k.tcb[u].p_pcb /\ T[u].priority = k.tcb[u].priority
    BY <1>2, <1>7 DEF SamePlace
  <2>2. \A o \in Prc, r \in Pri :
            {u \in R : T[u].p_pcb = o /\ T[u].priority = r}
            = {u \in R : k.tcb[u].p_pcb = o /\ k.tcb[u].priority = r}
    BY <2>1
  <2>3. ASSUME NEW o \in Prc, NEW r \in Pri
        PROVE  Ordered(T, r, Queue(k, o, r))
    <3> DEFINE q == Queue(k, o, r)
    <3>1. /\ q \in Seq(Tsk) /\ Ordered(k.tcb, r, q)
          /\ ToSet(q) = {u \in R : k.tcb[u].p_pcb = o /\ k.tcb[u].priority = r}
      BY <1>7, KernelFields DEF QueuesHold
    <3> HIDE DEF q
    <3>2. r \in SubprioPri => \A u \in Range(q) : Subpri(k.tcb)[u] = Subpri(T)[u]
      <4> SUFFICES ASSUME r \in SubprioPri, NEW u \in ToSet(q)
                   PROVE  Subpri(k.tcb)[u] = Subpri(T)[u]
        BY DEF Range, ToSet
      <4>1. u \in R /\ u \in Tsk /\ k.tcb[u].priority \in SubprioPri
        BY <3>1
      <4>2. CASE u = t
        BY <1>2, <1>7, <4>1, <4>2 DEF SamePlace, Subpri, CurrentSubpri
      <4>3. CASE u # t
        BY <1>2, <4>1, <4>3 DEF Subpri
      <4> QED
        BY <4>2, <4>3
    <3>3. Ordered(T, r, q)
      BY <3>1, <3>2, SortedKept DEF Ordered
    <3> QED
      BY <3>3 DEF q
  <2> QED
    BY <1>4, <1>6, <1>7, <2>2, <2>3 DEF QueuesHold
<1>8. \A o \in Prc, x \in Tsk \cup {NULL} : IsTop(k1, o, x) <=> IsTop(k, o, x)
  BY <1>6 DEF IsTop
<1>9. /\ Scheduled(k) => Scheduled(k1)
      /\ \A p \in Prc : OthersScheduled(k, p) => OthersScheduled(k1, p)
  BY <1>4, <1>6, <1>8, KernelFields DEF Scheduled, OthersScheduled
<1> QED
  BY <1>4, <1>5, <1>6, <1>7, <1>9 DEF T

LEMMA SetTcbFacts ==
    ASSUME NEW k \in Kernel, NEW me \in Prc, NEW R \in SUBSET Tsk, NEW t \in Tsk, NEW new \in TCB,
           t \in R => SamePlace(k, t, new),
           QueuesHold(k, R), Scheduled(k)
    PROVE  Updated(me, k, SetTcb(k, t, new), [k.tcb EXCEPT ![t] = new], R)
BY TcbFacts DEF Updated

\* The head of a queue that is the highest one of its processor is the task
\* to execute.
LEMMA TopIntro ==
    ASSUME NEW k, NEW p, NEW pri \in Pri, Queue(k, p, pri) # << >>,
           \A r \in Pri : r < pri => Queue(k, p, r) = << >>
    PROVE  IsTop(k, p, Head(Queue(k, p, pri)))
BY DEF IsTop

\* Where p_schedtsk is already right, or dispatching is disabled, it may stay.
LEMMA StayFacts ==
    ASSUME NEW k, NEW p \in Prc, OthersScheduled(k, p),
           k.pcb[p].dspflg => IsTop(k, p, Schedtsk(k, p))
    PROVE  Scheduled(k)
BY DEF Scheduled, OthersScheduled

\* rotate_ready_queue moves the head of a queue to its end.
LEMMA RotateFacts ==
    ASSUME NEW k \in Kernel, NEW R \in SUBSET Tsk, NEW me \in Prc,
           NEW pri \in Pri \ SubprioPri, NEW p \in Prc, QueuesHold(k, R), Scheduled(k)
    PROVE  Requeued(me, k, RotateReadyQueue(k, me, pri, p), R)
<1> SUFFICES ASSUME NEW k1, k1 = RotateReadyQueue(k, me, pri, p)
             PROVE  /\ k1 \in Kernel /\ k1.tcb = k.tcb
                    /\ QueuesHold(k1, R) /\ Scheduled(k1) /\ FlagsKept(me, k, k1)
  BY DEF Requeued, Updated
<1> DEFINE q  == Queue(k, p, pri)
           q1 == Append(Tail(q), Head(q))
           s  == Schedtsk(k, p)
           b  == k.pcb[p].ready_primap
           kq == WithQueue(k, p, pri, q1, b)
<1>1. q \in Seq(Tsk) /\ b \in SUBSET Pri /\ s \in Tsk \cup {NULL}
      /\ IsInjective(q) /\ Len(q) \in Nat
  BY KernelFields, LenProperties DEF QueuesHold
<1>2. CASE Len(q) < 2
  BY <1>2 DEF RotateReadyQueue, FlagsKept
<1>3. CASE ~(Len(q) < 2)
  <2> HIDE DEF q
  <2>1. /\ Tail(q) \in Seq(Tsk) /\ Len(Tail(q)) = Len(q) - 1
        /\ \A i \in 1 .. Len(q) - 1 : Tail(q)[i] = q[i + 1]
        /\ Head(q) = q[1] /\ DOMAIN q = 1 .. Len(q) /\ q[1] \in Tsk
    BY <1>1, <1>3
  <2>2. /\ q1 \in Seq(Tsk) /\ Len(q1) = Len(q) /\ DOMAIN q1 = 1 .. Len(q)
        /\ \A i \in 1 .. Len(q) - 1 : q1[i] = q[i + 1]
        /\ q1[Len(q)] = q[1]
    BY <1>1, <1>3, <2>1
  <2> HIDE DEF q1
  <2>3. ToSet(q1) = ToSet(q)
    <3>1. \A i \in 1 .. Len(q) : \E j \in 1 .. Len(q) : q1[i] = q[j]
      BY <1>1, <1>3, <2>2
    <3>2. \A j \in 1 .. Len(q) : \E i \in 1 .. Len(q) : q1[i] = q[j]
      <4> TAKE j \in 1 .. Len(q)
      <4>1. CASE j = 1
        BY <1>1, <1>3, <2>2, <4>1
      <4>2. CASE j # 1
        <5>1. j - 1 \in 1 .. Len(q) - 1 /\ j - 1 \in 1 .. Len(q) /\ (j - 1) + 1 = j
          BY <1>1, <4>2
        <5> QED
          BY <2>2, <5>1
      <4> QED
        BY <4>1, <4>2
    <3>3. ASSUME NEW x \in ToSet(q1) PROVE x \in ToSet(q)
      <4>1. PICK i \in 1 .. Len(q) : x = q1[i]
        BY <2>2 DEF ToSet
      <4>2. PICK j \in 1 .. Len(q) : q1[i] = q[j]
        BY <3>1
      <4> QED
        BY <2>1, <4>1, <4>2 DEF ToSet
    <3>4. ASSUME NEW x \in ToSet(q) PROVE x \in ToSet(q1)
      <4>1. PICK j \in 1 .. Len(q) : x = q[j]
        BY <2>1 DEF ToSet
      <4>2. PICK i \in 1 .. Len(q) : q1[i] = x
        BY <3>2, <4>1
      <4> QED
        BY <2>2, <4>2 DEF ToSet
    <3> QED
      BY <3>3, <3>4
  <2>4. IsInjective(q1)
    <3>1. \A i, j \in 1 .. Len(q) : q[i] = q[j] => i = j
      BY <1>1, <2>1 DEF IsInjective
    <3>2. ASSUME NEW i \in 1 .. Len(q), NEW j \in 1 .. Len(q), q1[i] = q1[j] PROVE i = j
      <4>1. /\ 1 \in 1 .. Len(q)
            /\ \A n \in 1 .. Len(q) : n # Len(q) => /\ n \in 1 .. Len(q) - 1
                                                   /\ n + 1 \in 1 .. Len(q) /\ n + 1 # 1
        BY <1>1, <1>3
      <4>2. \A n \in 1 .. Len(q) : q1[n] = q[1] \/ n # Len(q)
        BY <2>2
      <4>3. \A n \in 1 .. Len(q) : n # Len(q) => q1[n] = q[n + 1]
        BY <2>2, <4>1
      <4>4. CASE i = Len(q) /\ j = Len(q)
        BY <4>4
      <4>5. CASE i = Len(q) /\ j # Len(q)
        BY <3>1, <3>2, <4>1, <4>2, <4>3, <4>5
      <4>6. CASE i # Len(q) /\ j = Len(q)
        BY <3>1, <3>2, <4>1, <4>2, <4>3, <4>6
      <4>7. CASE i # Len(q) /\ j # Len(q)
        <5>1. i + 1 = j + 1
          BY <3>1, <3>2, <4>1, <4>3, <4>7
        <5> QED
          BY <1>1, <5>1
      <4> QED
        BY <4>4, <4>5, <4>6, <4>7
    <3> QED
      BY <2>2, <3>2 DEF IsInjective
  <2>5. q # << >> /\ q1 # << >> /\ Head(q1) \in Tsk
    BY <1>1, <1>3, <2>2
  <2>6. k1 = IF s = Head(q) THEN UpdateSchedtskDsp(kq, me, p, Head(q1)) ELSE kq
    <3>1. [k EXCEPT !.pcb[p].ready_queue[pri] = q1] = kq
      <4>1. k.pcb \in [Prc -> PCB] /\ k.pcb[p] \in PCB
        BY DEF Kernel
      <4>2. [k.pcb[p] EXCEPT !.ready_queue[pri] = q1] =
            [k.pcb[p] EXCEPT !.ready_queue[pri] = q1, !.ready_primap = b]
        BY <4>1 DEF PCB
      <4> QED
        BY <4>2 DEF WithQueue
    <3> QED
      BY <1>3, <3>1 DEF RotateReadyQueue, q, q1
  <2> HIDE DEF b, kq, s
  <2>7. /\ kq \in Kernel /\ kq.tcb = k.tcb /\ FlagsKept(me, k, kq)
        /\ \A o \in Prc : Schedtsk(kq, o) = Schedtsk(k, o)
        /\ \A o \in Prc, r \in Pri :
              Queue(kq, o, r) = IF o = p /\ r = pri THEN q1 ELSE Queue(k, o, r)
        /\ \A o \in Prc : kq.pcb[o].ready_primap = IF o = p THEN b ELSE k.pcb[o].ready_primap
    BY <1>1, <2>2, QueueUpdate DEF kq
  <2>8. QueuesHold(kq, R)
    BY <2>3, <2>4, <2>5, <2>7 DEF QueuesHold, Ordered, q, b
  <2>9. OthersScheduled(kq, p)
    <3>1. OthersScheduled(k, p)
      BY DEF Scheduled, OthersScheduled
    <3> QED
      BY <1>1, <2>2, <3>1, OthersFacts DEF kq
  <2>10. CASE k.pcb[p].dspflg
    <3>1. IsTop(k, p, s)
      BY <2>10 DEF Scheduled, s
    <3>2. /\ s \in Tsk /\ k.tcb[s].priority \in Pri
          /\ Queue(k, p, k.tcb[s].priority) # << >>
          /\ s = Head(Queue(k, p, k.tcb[s].priority))
          /\ \A r \in Pri : r < k.tcb[s].priority => Queue(k, p, r) = << >>
      BY <1>1, <2>5, <3>1, TopFacts DEF q
    <3> DEFINE ps == k.tcb[s].priority
    <3>3. CASE s = Head(q)
      <4>1. ps = pri
        <5>1. s \in ToSet(q)
          BY <1>1, <1>3, <2>1, <3>3 DEF ToSet
        <5> QED
          BY <5>1 DEF QueuesHold, q
      <4>2. IsTop(kq, p, Head(q1))
        BY <2>5, <2>7, <3>2, <4>1, TopIntro
      <4>3. Requeued(me, kq, k1, R)
        BY <2>5, <2>6, <2>7, <2>8, <2>9, <3>3, <4>2, RescheduleFacts
      <4> QED
        BY <2>7, <4>3 DEF FlagsKept, Requeued, Updated
    <3>4. CASE s # Head(q)
      <4>1. ps # pri
        BY <3>2, <3>4 DEF q
      <4>2. \A r \in Pri : r < ps => Queue(kq, p, r) = << >>
        BY <2>5, <2>7, <3>2 DEF q
      <4>3. IsTop(kq, p, s)
        BY <2>7, <3>2, <4>1, <4>2, TopIntro
      <4>4. Scheduled(kq)
        BY <2>7, <2>9, <4>3, StayFacts DEF s
      <4> QED
        BY <2>6, <2>7, <2>8, <3>4, <4>4
    <3> QED
      BY <3>3, <3>4
  <2>11. CASE ~k.pcb[p].dspflg
    <3>1. ~kq.pcb[p].dspflg
      BY <2>7, <2>11 DEF FlagsKept
    <3>2. k1 = kq
      BY <2>6, <3>1 DEF UpdateSchedtskDsp
    <3>3. Scheduled(kq)
      BY <2>9, <3>1, StayFacts
    <3> QED
      BY <2>7, <2>8, <3>2, <3>3
  <2> QED
    BY <2>10, <2>11
<1> QED
  BY <1>2, <1>3

\* set_dspflg enables dispatching and brings p_schedtsk up to date.
LEMMA SetDspflgFacts ==
    ASSUME NEW k \in Kernel, NEW R \in SUBSET Tsk, NEW me \in Prc,
           QueuesHold(k, R), Scheduled(k),
           NEW k1, k1 = SetDspflg(k, me)
    PROVE  /\ k1 \in Kernel /\ k1.tcb = k.tcb
           /\ QueuesHold(k1, R) /\ Scheduled(k1)
           /\ k1.pcb[me].dspflg /\ k1.ipi = k.ipi
           /\ k1.pcb[me].enadsp = k.pcb[me].enadsp /\ ~k1.pcb[me].ipm
           /\ \A o \in Prc \ {me} : k1.pcb[o] = k.pcb[o]
<1> DEFINE x   == IF PrimapEmpty(k, me) THEN NULL ELSE SearchSchedtsk(k, me)
           new == [k.pcb[me] EXCEPT !.ipm = FALSE, !.dspflg = TRUE, !.p_schedtsk = x]
           P   == [k.pcb EXCEPT ![me] = new]
<1>1. x \in Tsk \cup {NULL} /\ IsTop(k, me, x)
  BY SearchFacts
<1>2. k = [tcb |-> k.tcb, pcb |-> k.pcb, ipi |-> k.ipi] /\ k.tcb \in [Tsk -> TCB]
      /\ k.pcb \in [Prc -> PCB] /\ k.ipi \in SUBSET Prc /\ k.pcb[me] \in PCB
  BY DEF Kernel
<1>3. k1 = [k EXCEPT !.pcb = P]
  BY <1>2 DEF SetDspflg, PCB
<1> HIDE DEF x
<1>4. /\ new \in PCB /\ new.dspflg /\ new.p_schedtsk = x
      /\ new.enadsp = k.pcb[me].enadsp /\ ~new.ipm
      /\ new.ready_queue = k.pcb[me].ready_queue
      /\ new.ready_primap = k.pcb[me].ready_primap
  BY <1>1, <1>2 DEF PCB
<1> HIDE DEF new
<1>5. P \in [Prc -> PCB] /\ \A o \in Prc : P[o] = IF o = me THEN new ELSE k.pcb[o]
  BY <1>2, <1>4
<1> HIDE DEF P
<1>6. k1 = [tcb |-> k.tcb, pcb |-> P, ipi |-> k.ipi]
  BY <1>2, <1>3
<1>7. k1.tcb = k.tcb /\ k1.pcb = P /\ k1.ipi = k.ipi
  BY <1>6
<1>8. k1 \in Kernel
  BY <1>2, <1>5, <1>6 DEF Kernel
<1>9. \A o \in Prc, r \in Pri : Queue(k1, o, r) = Queue(k, o, r)
  BY <1>4, <1>5, <1>7 DEF Queue
<1>10. QueuesHold(k1, R)
  BY <1>4, <1>5, <1>7, <1>9 DEF QueuesHold
<1>11. Scheduled(k1)
  <2> SUFFICES ASSUME NEW o \in Prc, k1.pcb[o].dspflg PROVE IsTop(k1, o, Schedtsk(k1, o))
    BY DEF Scheduled
  <2>1. CASE o = me
    BY <1>1, <1>4, <1>5, <1>7, <1>9, <2>1 DEF IsTop, Schedtsk
  <2>2. CASE o # me
    <3>1. k1.pcb[o] = k.pcb[o]
      BY <1>5, <1>7, <2>2
    <3>2. IsTop(k, o, Schedtsk(k, o))
      BY <3>1 DEF Scheduled
    <3> QED
      BY <1>9, <3>1, <3>2 DEF IsTop, Schedtsk
  <2> QED
    BY <2>1, <2>2
<1> QED
  BY <1>4, <1>5, <1>7, <1>8, <1>10, <1>11

\* change_priority moves a runnable task to the queue of its new priority.
LEMMA ChangePriorityFacts ==
    ASSUME NEW k \in Kernel, NEW R \in SUBSET Tsk, NEW me \in Prc, NEW t \in Tsk,
           NEW newpri \in Pri, QueuesHold(k, R), Scheduled(k),
           TstatRunnable(k, t) <=> t \in R
    PROVE  Updated(me, k, ChangePriority(k, me, t, newpri, FALSE),
                   [k.tcb EXCEPT ![t].priority = newpri], R)
<1> SUFFICES ASSUME NEW k1, k1 = ChangePriority(k, me, t, newpri, FALSE)
             PROVE  /\ k1 \in Kernel /\ k1.tcb = [k.tcb EXCEPT ![t].priority = newpri]
                    /\ QueuesHold(k1, R) /\ Scheduled(k1) /\ FlagsKept(me, k, k1)
  BY DEF Updated
<1> DEFINE p   == k.tcb[t].p_pcb
           old == k.tcb[t].priority
           s   == Schedtsk(k, p)
           new == [k.tcb[t] EXCEPT !.priority = newpri]
           kt  == SetTcb(k, t, new)
           kd  == Dequeue(k, t)
           kdt == SetTcb(kd, t, new)
           q   == InsertLast(kdt, Queue(kdt, p, newpri), t)
           k3  == Enqueue(kdt, t, q)
<1>1. /\ k.tcb[t] \in TCB /\ new \in TCB /\ p \in Prc /\ old \in Pri
      /\ s \in Tsk \cup {NULL} /\ new.p_pcb = p /\ new.priority = newpri
  <2>1. k.tcb[t] \in TCB /\ p \in Prc /\ old \in Pri /\ s \in Tsk \cup {NULL}
    BY KernelFields
  <2>2. new \in TCB /\ new.p_pcb = p /\ new.priority = newpri
    BY <2>1 DEF TCB
  <2> QED
    BY <2>1, <2>2
<1>2. kt = [k EXCEPT !.tcb[t].priority = newpri]
  BY DEF SetTcb
<1> HIDE DEF new
<1> DEFINE Goal == /\ k1 \in Kernel /\ k1.tcb = [k.tcb EXCEPT ![t] = new]
                   /\ QueuesHold(k1, R) /\ Scheduled(k1) /\ FlagsKept(me, k, k1)
<1> SUFFICES Goal
  BY DEF new
<1>3. CASE t \notin R
  <2>1. k1 = kt
    BY <1>2, <1>3 DEF ChangePriority
  <2>2. /\ kt \in Kernel /\ kt.tcb = [k.tcb EXCEPT ![t] = new] /\ FlagsKept(me, k, kt)
        /\ QueuesHold(k, R) => QueuesHold(kt, R)
        /\ Scheduled(k) => Scheduled(kt)
    BY <1>1, <1>3, TcbFacts
  <2> HIDE DEF kt
  <2> QED
    BY <2>1, <2>2
<1>4. CASE t \in R
  <2>1. /\ kd \in Kernel /\ kd.tcb = k.tcb /\ FlagsKept(me, k, kd)
        /\ \A o \in Prc : Schedtsk(kd, o) = Schedtsk(k, o)
        /\ \A o \in Prc, r \in Pri :
              Queue(kd, o, r) = IF o = p /\ r = old
                                  THEN QueueDelete(Queue(k, p, old), t) ELSE Queue(k, o, r)
        /\ QueuesHold(kd, R \ {t}) /\ OthersScheduled(kd, p)
        /\ QueueDelete(Queue(k, p, old), t) \in Seq(Tsk) /\ Queue(k, p, old) # << >>
        /\ Head(Queue(k, p, old)) # t => /\ QueueDelete(Queue(k, p, old), t) # << >>
                                         /\ Head(QueueDelete(Queue(k, p, old), t)) =
                                            Head(Queue(k, p, old))
    <3>1. OthersScheduled(k, p)
      BY DEF Scheduled, OthersScheduled
    <3>2. DequeuedFrom(me, k, R, t, kd)
      BY <1>4, <3>1, DequeueFacts
    <3> HIDE DEF kd
    <3> QED
      BY <3>2 DEF DequeuedFrom
  <2>2. kdt = [Dequeue(k, t) EXCEPT !.tcb[t].priority = newpri]
    <3> HIDE DEF kd
    <3>1. kdt = [kd EXCEPT !.tcb[t].priority = newpri]
      BY <2>1 DEF SetTcb, new
    <3> QED
      BY <3>1 DEF kd
  <2>3. k1 = IF s = t
               THEN IF newpri >= old
                      THEN UpdateSchedtskDsp(k3, me, p, SearchSchedtsk(k3, p)) ELSE k3
             ELSE IF newpri <= k3.tcb[s].priority
               THEN UpdateSchedtskDsp(k3, me, p, Head(Queue(k3, p, newpri))) ELSE k3
    BY <1>4, <2>2 DEF ChangePriority
  <2> HIDE DEF kd
  <2>4. /\ kdt \in Kernel /\ kdt.tcb = [k.tcb EXCEPT ![t] = new] /\ FlagsKept(me, kd, kdt)
        /\ \A o \in Prc : Schedtsk(kdt, o) = Schedtsk(k, o)
        /\ \A o \in Prc, r \in Pri : Queue(kdt, o, r) = Queue(kd, o, r)
        /\ QueuesHold(kdt, R \ {t}) /\ OthersScheduled(kdt, p)
    <3>1. /\ kdt \in Kernel /\ kdt.tcb = [kd.tcb EXCEPT ![t] = new] /\ FlagsKept(me, kd, kdt)
          /\ \A o \in Prc : Schedtsk(kdt, o) = Schedtsk(kd, o)
          /\ \A o \in Prc, r \in Pri : Queue(kdt, o, r) = Queue(kd, o, r)
          /\ QueuesHold(kd, R \ {t}) => QueuesHold(kdt, R \ {t})
          /\ \A o \in Prc : OthersScheduled(kd, o) => OthersScheduled(kdt, o)
      BY <1>1, <2>1, TcbFacts
    <3> QED
      BY <1>1, <2>1, <3>1
  <2>5. kdt.tcb[t].p_pcb = p /\ kdt.tcb[t].priority = newpri
        /\ \A u \in Tsk \ {t} : kdt.tcb[u] = k.tcb[u]
    BY <1>1, <2>4, KernelFields
  <2> HIDE DEF kdt
  <2>6. /\ q \in Seq(Tsk) /\ IsInjective(q) /\ q # << >>
        /\ ToSet(q) = ToSet(Queue(kdt, p, newpri)) \cup {t}
        /\ Queue(kdt, p, newpri) = << >> => Head(q) = t
    <3>1. Queue(kdt, p, newpri) \in Seq(Tsk)
      BY <1>1, <2>4, KernelFields
    <3>2. IsInjective(Queue(kdt, p, newpri)) /\ t \notin ToSet(Queue(kdt, p, newpri))
      BY <1>1, <2>4 DEF QueuesHold
    <3> QED
      BY <1>1, <3>1, <3>2, InsertLastFacts DEF InsertedInto
  <2> HIDE DEF q
  <2>7. /\ k3 \in Kernel /\ k3.tcb = kdt.tcb /\ FlagsKept(me, kdt, k3)
        /\ \A o \in Prc : Schedtsk(k3, o) = Schedtsk(k, o)
        /\ \A o \in Prc, r \in Pri :
              Queue(k3, o, r) = IF o = p /\ r = newpri THEN q ELSE Queue(kdt, o, r)
        /\ QueuesHold(k3, R) /\ OthersScheduled(k3, p)
    <3>3. Ordered(kdt.tcb, kdt.tcb[t].priority, q)
      <4>1. /\ kdt.tcb \in [Tsk -> TCB] /\ Queue(kdt, p, newpri) \in Seq(Tsk)
            /\ Ordered(kdt.tcb, newpri, Queue(kdt, p, newpri))
        BY <1>1, <2>4, KernelFields DEF QueuesHold
      <4> QED
        BY <2>5, <4>1, InsertLastOrder DEF q
    <3>1. /\ t \notin R \ {t} /\ (R \ {t}) \cup {t} = R /\ R \ {t} \in SUBSET Tsk
          /\ OthersScheduled(kdt, kdt.tcb[t].p_pcb)
          /\ ToSet(q) = ToSet(Queue(kdt, kdt.tcb[t].p_pcb, kdt.tcb[t].priority)) \cup {t}
      BY <1>4, <2>4, <2>5, <2>6
    <3>2. /\ k3 \in Kernel /\ k3.tcb = kdt.tcb /\ FlagsKept(me, kdt, k3)
          /\ \A o \in Prc : Schedtsk(k3, o) = Schedtsk(kdt, o)
          /\ \A o \in Prc, r \in Pri :
                Queue(k3, o, r) = IF o = kdt.tcb[t].p_pcb /\ r = kdt.tcb[t].priority
                                    THEN q ELSE Queue(kdt, o, r)
          /\ QueuesHold(k3, (R \ {t}) \cup {t})
          /\ OthersScheduled(k3, kdt.tcb[t].p_pcb)
      BY <2>4, <2>6, <3>1, <3>3, EnqueueFacts
    <3> QED
      BY <2>4, <2>5, <3>1, <3>2
  <2>8. \A r \in Pri : Queue(k, p, r) = << >> /\ r # newpri => Queue(k3, p, r) = << >>
    BY <1>1, <2>1, <2>4, <2>7
  <2>9. k3.tcb = [k.tcb EXCEPT ![t] = new] /\ FlagsKept(me, k, k3)
    BY <2>1, <2>4, <2>7 DEF FlagsKept
  <2> HIDE DEF k3
  <2>10. ASSUME NEW x \in Tsk \cup {NULL}, IsTop(k3, p, x),
                k1 = UpdateSchedtskDsp(k3, me, p, x)
         PROVE  Goal
    <3>1. Requeued(me, k3, k1, R)
      BY <1>1, <2>7, <2>10, RescheduleFacts
    <3> QED
      BY ZenonT(40), <2>9, <3>1 DEF FlagsKept, Requeued, Updated
  <2>11. ASSUME IsTop(k3, p, s) \/ ~k.pcb[p].dspflg, k1 = k3
         PROVE  Goal
    <3>1. Scheduled(k3)
      BY <1>1, <2>7, <2>9, <2>11, StayFacts DEF FlagsKept
    <3> QED
      BY <2>7, <2>9, <2>11, <3>1
  <2> HIDE DEF Goal
  <2>12. CASE ~k.pcb[p].dspflg
    <3>1. ~k3.pcb[p].dspflg
      BY <1>1, <2>9, <2>12 DEF FlagsKept
    <3>2. k1 = k3
      BY <2>3, <3>1 DEF UpdateSchedtskDsp
    <3> QED
      BY <2>11, <2>12, <3>2
  <2>13. CASE k.pcb[p].dspflg
    <3>1. IsTop(k, p, s)
      BY <1>1, <2>13 DEF Scheduled
    <3>2. /\ s \in Tsk /\ k.tcb[s].priority \in Pri
          /\ Queue(k, p, k.tcb[s].priority) # << >>
          /\ s = Head(Queue(k, p, k.tcb[s].priority))
          /\ \A r \in Pri : r < k.tcb[s].priority => Queue(k, p, r) = << >>
      BY SMTT(20), <1>1, <2>1, <3>1, TopFacts
    <3> DEFINE ps == k.tcb[s].priority
    <3> HIDE DEF s
    <3>3. ps <= old
      BY <1>1, <2>1, <3>2 DEF Pri
    <3>4. Queue(k3, p, newpri) = q /\ Head(q) \in Tsk
      BY <1>1, <2>6, <2>7, HeadFacts
    <3>5. CASE s = t /\ newpri >= old
      <4>1. newpri \in k3.pcb[p].ready_primap
        BY <1>1, <2>6, <2>7, <3>4 DEF QueuesHold
      <4>2. SearchSchedtsk(k3, p) \in Tsk \cup {NULL} /\ IsTop(k3, p, SearchSchedtsk(k3, p))
        BY <1>1, <2>7, <4>1, SearchFacts DEF PrimapEmpty
      <4>3. k1 = UpdateSchedtskDsp(k3, me, p, SearchSchedtsk(k3, p))
        BY <2>3, <3>5
      <4> QED
        BY <2>10, <4>2, <4>3
    <3>6. CASE s = t /\ ~(newpri >= old)
      <4>1. \A r \in Pri : r < newpri => Queue(k3, p, r) = << >>
        BY <1>1, <2>8, <3>2, <3>6 DEF Pri
      <4>2. Queue(kdt, p, newpri) = << >>
        BY <1>1, <2>1, <2>4, <3>2, <3>6 DEF Pri
      <4>3. IsTop(k3, p, s)
        BY <2>6, <3>4, <3>6, <4>1, <4>2, TopIntro
      <4> QED
        BY <2>3, <2>11, <3>6, <4>3
    <3>7. CASE s # t /\ newpri <= ps
      <4>1. \A r \in Pri : r < newpri => Queue(k3, p, r) = << >>
        BY <1>1, <2>8, <3>2, <3>7 DEF Pri
      <4>2. IsTop(k3, p, Head(Queue(k3, p, newpri)))
        BY <2>6, <3>4, <4>1, TopIntro
      <4>3. k3.tcb[s].priority = ps
        BY <2>5, <2>7, <3>2, <3>7
      <4>4. k1 = UpdateSchedtskDsp(k3, me, p, Head(Queue(k3, p, newpri)))
        BY <2>3, <3>7, <4>3
      <4> QED
        BY <2>10, <3>4, <4>2, <4>4
    <3>8. CASE s # t /\ ~(newpri <= ps)
      <4>1. \A r \in Pri : r < ps => Queue(k3, p, r) = << >>
        BY <1>1, <2>8, <3>2, <3>8 DEF Pri
      <4>2. Queue(k3, p, ps) # << >> /\ s = Head(Queue(k3, p, ps))
        <5>1. ps # newpri
          BY <1>1, <3>2, <3>8 DEF Pri
        <5>2. Queue(k3, p, ps) = Queue(kd, p, ps)
          BY <1>1, <2>4, <2>7, <3>2, <5>1
        <5>3. CASE ps = old
          BY <1>1, <2>1, <3>2, <3>8, <5>2, <5>3
        <5>4. CASE ps # old
          BY <1>1, <2>1, <3>2, <5>2, <5>4
        <5> QED
          BY <5>3, <5>4
      <4>3. IsTop(k3, p, s)
        BY <3>2, <4>1, <4>2, TopIntro
      <4>4. k3.tcb[s].priority = ps
        BY <2>5, <2>7, <3>2, <3>8
      <4> QED
        BY <2>3, <2>11, <3>8, <4>3, <4>4
    <3> QED
      BY <3>5, <3>6, <3>7, <3>8
  <2> QED
    BY <2>12, <2>13
<1> QED
  BY <1>3, <1>4

\* change_subprio moves a runnable task in the queue of its priority.
LEMMA ChangeSubprioFacts ==
    ASSUME NEW k \in Kernel, NEW R \in SUBSET Tsk, NEW me \in Prc, NEW t \in R,
           NEW subpri \in SubPri, QueuesHold(k, R), Scheduled(k),
           TstatRunnable(k, t), k.tcb[t].priority \in SubprioPri
    PROVE  Updated(me, k, ChangeSubprio(k, me, t, subpri, k.tcb[t].p_pcb),
                   [k.tcb EXCEPT ![t].subpri = subpri], R)
<1> DEFINE p   == k.tcb[t].p_pcb
           pri == k.tcb[t].priority
           s   == Schedtsk(k, p)
           new == [k.tcb[t] EXCEPT !.subpri = subpri]
           kt  == [k EXCEPT !.tcb[t].subpri = subpri]
           d   == QueueDelete(Queue(k, p, pri), t)
           q   == QueueInsertSubprioTail(kt, d, t)
           b   == k.pcb[p].ready_primap
           k3  == WithQueue(kt, p, pri, q, b)
           h   == Head(Queue(k3, p, pri))
           k1  == ChangeSubprio(k, me, t, subpri, p)
<1>1. /\ t \in Tsk /\ p \in Prc /\ pri \in Pri /\ s \in Tsk \cup {NULL}
      /\ Queue(k, p, pri) \in Seq(Tsk) /\ b \in SUBSET Pri /\ k.tcb[t] \in TCB
  BY KernelFields
<1>2. new \in TCB /\ new.p_pcb = p /\ new.priority = pri
  BY <1>1 DEF TCB
<1>3. kt = SetTcb(k, t, new)
  BY DEF SetTcb
<1>4. k1 = IF pri = k.tcb[s].priority THEN UpdateSchedtskDsp(k3, me, p, h) ELSE k3
  <2> DEFINE k2 == IF pri \in SubprioPri
                     THEN [kt EXCEPT !.pcb[p].ready_queue[pri] =
                               QueueInsertSubprioTail(kt, QueueDelete(@, t), t)]
                     ELSE kt
  <2>1. k1 = IF ~TstatRunnable(k, t) THEN kt
             ELSE IF pri = k.tcb[s].priority
               THEN UpdateSchedtskDsp(k2, me, p, Head(Queue(k2, p, pri))) ELSE k2
    BY DEF ChangeSubprio
  <2> HIDE DEF k1
  <2>2. kt.pcb = k.pcb /\ kt.pcb[p] \in PCB
    BY <1>1 DEF Kernel
  <2>3. k2 = [kt EXCEPT !.pcb[p].ready_queue[pri] = q]
    BY <2>2 DEF Queue
  <2> HIDE DEF kt, q, k2
  <2>4. [kt.pcb[p] EXCEPT !.ready_queue[pri] = q] =
        [kt.pcb[p] EXCEPT !.ready_queue[pri] = q, !.ready_primap = b]
    BY <2>2 DEF PCB
  <2>5. k2 = k3
    BY <2>3, <2>4 DEF WithQueue
  <2> HIDE DEF k3, s
  <2> QED
    BY <2>1, <2>5
<1> HIDE DEF new, kt, k1
<1>5. /\ kt \in Kernel /\ kt.tcb = [k.tcb EXCEPT ![t] = new] /\ FlagsKept(me, k, kt)
      /\ \A o \in Prc : Schedtsk(kt, o) = Schedtsk(k, o)
      /\ \A o \in Prc, r \in Pri : Queue(kt, o, r) = Queue(k, o, r)
      /\ \A o \in Prc : OthersScheduled(k, o) => OthersScheduled(kt, o)
  BY <1>1, <1>2, <1>3, TcbFacts
<1>19. \A u \in Tsk : kt.tcb[u] = IF u = t THEN new ELSE k.tcb[u]
  BY <1>5, KernelFields
<1>6. kt.pcb = k.pcb
  BY DEF Kernel, kt
<1>7. OthersScheduled(kt, p)
  <2>1. OthersScheduled(k, p)
    BY DEF Scheduled, OthersScheduled
  <2> QED
    BY <1>1, <1>5, <2>1
<1>8. /\ IsInjective(Queue(k, p, pri)) /\ t \in ToSet(Queue(k, p, pri))
      /\ Queue(k, p, pri) # << >>
  BY <1>1 DEF QueuesHold, ToSet
<1>9. /\ d \in Seq(Tsk) /\ IsInjective(d) /\ ToSet(d) = ToSet(Queue(k, p, pri)) \ {t}
  BY <1>1, <1>8, DeleteFacts
<1>20. Ordered(k.tcb, pri, d)
  <2>1. Ordered(k.tcb, pri, Queue(k, p, pri))
    BY <1>1 DEF QueuesHold
  <2> QED
    BY <1>1, <1>8, <2>1, DeleteOrder
<1>10. /\ q \in Seq(Tsk) /\ IsInjective(q) /\ ToSet(q) = ToSet(Queue(k, p, pri)) /\ q # << >>
       /\ Ordered(kt.tcb, pri, q)
  <2>1. kt.tcb[t].priority = pri /\ kt.tcb \in [Tsk -> TCB]
    BY <1>1, <1>2, <1>5, KernelFields
  <2> HIDE DEF d
  <2>2. q = InsertLast(kt, d, t)
    BY <2>1 DEF InsertLast
  <2>3. InsertedInto(d, t, q)
    BY <1>1, <1>9, <2>2, InsertLastFacts
  <2>4. \A u \in ToSet(d) : kt.tcb[u] = k.tcb[u]
    <3>1. ToSet(d) \subseteq Tsk \ {t}
      BY <1>1, <1>9 DEF QueuesHold
    <3> QED
      BY <1>19, <3>1
  <2>5. Ordered(kt.tcb, pri, d)
    BY <1>9, <1>20, <2>4, OrderKept
  <2>6. Ordered(kt.tcb, pri, q)
    BY <1>1, <1>9, <2>1, <2>2, <2>5, InsertLastOrder
  <2> QED
    BY <1>1, <1>8, <1>9, <2>3, <2>6 DEF InsertedInto
<1> HIDE DEF d, q
<1>11. /\ k3 \in Kernel /\ k3.tcb = kt.tcb /\ FlagsKept(me, kt, k3)
       /\ \A o \in Prc : Schedtsk(k3, o) = Schedtsk(kt, o)
       /\ \A o \in Prc, r \in Pri :
             Queue(k3, o, r) = IF o = p /\ r = pri THEN q ELSE Queue(kt, o, r)
       /\ \A o \in Prc : k3.pcb[o].ready_primap = IF o = p THEN b ELSE kt.pcb[o].ready_primap
       /\ OthersScheduled(k3, p)
  <2>1. k3 = WithQueue(kt, p, pri, q, b)
    OBVIOUS
  <2> HIDE DEF k3, b, p, pri
  <2>2. /\ k3 \in Kernel /\ k3.tcb = kt.tcb /\ FlagsKept(me, kt, k3)
        /\ \A o \in Prc : Schedtsk(k3, o) = Schedtsk(kt, o)
        /\ \A o \in Prc, r \in Pri :
              Queue(k3, o, r) = IF o = p /\ r = pri THEN q ELSE Queue(kt, o, r)
        /\ \A o \in Prc : k3.pcb[o].ready_primap = IF o = p THEN b ELSE kt.pcb[o].ready_primap
    BY <1>1, <1>5, <1>10, <2>1, QueueUpdate
  <2>3. OthersScheduled(k3, p)
    BY <1>1, <1>5, <1>7, <1>10, <2>1, OthersFacts
  <2> QED
    BY <2>2, <2>3
<1>12. OthersScheduled(k3, p)
  BY <1>11
<1> HIDE DEF k3
<1>13. QueuesHold(k3, R)
  <2>1. /\ ToSet(q) = ToSet(Queue(k, p, pri)) /\ Queue(k, p, pri) # << >>
        /\ b = kt.pcb[p].ready_primap /\ kt.pcb = k.pcb /\ k3.tcb = kt.tcb
    BY <1>6, <1>8, <1>10, <1>11
  <2>2. \A u \in R : kt.tcb[u].p_pcb = k.tcb[u].p_pcb /\ kt.tcb[u].priority = k.tcb[u].priority
    BY <1>2, <1>19
  <2> HIDE DEF b
  <2> SUFFICES ASSUME NEW o \in Prc, NEW r \in Pri
               PROVE  /\ IsInjective(Queue(k3, o, r))
                      /\ ToSet(Queue(k3, o, r)) = ToSet(Queue(k, o, r))
                      /\ r \in k3.pcb[o].ready_primap <=> r \in k.pcb[o].ready_primap
                      /\ Queue(k3, o, r) # << >> <=> Queue(k, o, r) # << >>
                      /\ Ordered(kt.tcb, r, Queue(k3, o, r))
    BY <2>1, <2>2 DEF QueuesHold
  <2>3. CASE o = p /\ r = pri
    BY <1>10, <1>11, <2>1, <2>3
  <2>4. CASE ~(o = p /\ r = pri)
    <3>1. /\ Queue(k3, o, r) = Queue(k, o, r) /\ IsInjective(Queue(k, o, r))
          /\ Ordered(k.tcb, r, Queue(k, o, r)) /\ Queue(k, o, r) \in Seq(Tsk)
      BY <1>5, <1>11, <2>4, KernelFields DEF QueuesHold
    <3>2. k3.pcb[o].ready_primap = k.pcb[o].ready_primap
      BY <1>11, <2>1
    <3>3. ToSet(Queue(k, o, r)) \subseteq Tsk \ {t}
      BY <2>4 DEF QueuesHold
    <3>4. \A u \in ToSet(Queue(k, o, r)) : kt.tcb[u] = k.tcb[u]
      BY <1>19, <3>3
    <3>5. Ordered(kt.tcb, r, Queue(k, o, r))
      BY <3>1, <3>4, OrderKept
    <3> QED
      BY <3>1, <3>2, <3>5
  <2> QED
    BY <2>3, <2>4
<1>14. FlagsKept(me, k, k3) /\ \A o \in Prc : Schedtsk(k3, o) = Schedtsk(k, o)
  BY <1>5, <1>11 DEF FlagsKept
<1>15. ASSUME NEW x \in Tsk \cup {NULL}, IsTop(k3, p, x),
              k1 = UpdateSchedtskDsp(k3, me, p, x)
       PROVE  Updated(me, k, k1, [k.tcb EXCEPT ![t] = new], R)
  <2>1. Requeued(me, k3, k1, R)
    BY <1>1, <1>11, <1>12, <1>13, <1>15, RescheduleFacts
  <2> QED
    BY <1>5, <1>11, <1>14, <2>1 DEF Requeued, Updated, FlagsKept
<1>16. ASSUME IsTop(k3, p, s) \/ ~k.pcb[p].dspflg, k1 = k3
       PROVE  Updated(me, k, k1, [k.tcb EXCEPT ![t] = new], R)
  <2>1. Scheduled(k3)
    BY <1>1, <1>12, <1>14, <1>16, StayFacts DEF FlagsKept
  <2> QED
    BY <1>5, <1>11, <1>13, <1>14, <1>16, <2>1 DEF Updated
<1>17. CASE ~k.pcb[p].dspflg
  <2>1. ~k3.pcb[p].dspflg
    BY <1>1, <1>14, <1>17 DEF FlagsKept
  <2>2. k1 = k3
    BY <1>4, <2>1 DEF UpdateSchedtskDsp
  <2> QED
    BY <1>16, <1>17, <2>2 DEF k1, new
<1>18. CASE k.pcb[p].dspflg
  <2>1. IsTop(k, p, s)
    BY <1>1, <1>18 DEF Scheduled
  <2>2. /\ s \in Tsk /\ k.tcb[s].priority \in Pri
        /\ Queue(k, p, k.tcb[s].priority) # << >>
        /\ s = Head(Queue(k, p, k.tcb[s].priority))
        /\ \A r \in Pri : r < k.tcb[s].priority => Queue(k, p, r) = << >>
    BY SMTT(20), <1>1, <1>8, <2>1, TopFacts
  <2> DEFINE ps == k.tcb[s].priority
  <2> HIDE DEF s
  <2>3. ps <= pri
    BY <1>1, <1>8, <2>2 DEF Pri
  <2>4. \A r \in Pri : r < ps => Queue(k3, p, r) = << >>
    BY <1>1, <1>5, <1>11, <2>2, <2>3 DEF Pri
  <2>5. CASE pri = ps
    <3>1. Queue(k3, p, pri) = q /\ Head(q) \in Tsk
      BY <1>1, <1>10, <1>11, HeadFacts
    <3>2. IsTop(k3, p, h)
      BY <1>1, <1>10, <2>4, <2>5, <3>1, TopIntro
    <3> QED
      BY <1>4, <1>15, <2>5, <3>1, <3>2 DEF k1, new
  <2>6. CASE pri # ps
    <3>1. Queue(k3, p, ps) = Queue(k, p, ps)
      BY <1>1, <1>5, <1>11, <2>2, <2>6
    <3>2. IsTop(k3, p, s)
      BY <2>2, <2>4, <3>1, TopIntro
    <3> QED
      BY <1>4, <1>16, <2>6, <3>2 DEF k1, new
  <2> QED
    BY <2>5, <2>6
<1> QED
  BY <1>17, <1>18

----------------------------------------------------------------------------
\* Task states

Ready(k) == {t \in Tsk : TstatRunnable(k, t)}

\* The ready queues hold the runnable tasks and decide what is scheduled.
Sound(k) == k \in Kernel /\ QueuesHold(k, Ready(k)) /\ Scheduled(k)

\* From k to k1 the operation has changed the task t only.
Changes(me, k, k1, t) ==
    /\ Sound(k1) /\ FlagsKept(me, k, k1)
    /\ k1.tcb[t] \in TCB /\ \A u \in Tsk \ {t} : k1.tcb[u] = k.tcb[u]

\* The operation has changed t only, and its control block is new now.
Becomes(me, k, k1, t, new) == Changes(me, k, k1, t) /\ k1.tcb[t] = new

LEMMA ChangesTrans ==
    ASSUME NEW k, NEW me \in Prc, NEW k1, NEW k2, NEW t,
           Changes(me, k, k1, t), Changes(me, k1, k2, t)
    PROVE  Changes(me, k, k2, t)
BY DEF Changes, FlagsKept

LEMMA UpdatedChanges ==
    ASSUME NEW k \in Kernel, NEW me \in Prc, NEW t \in Tsk, NEW new \in TCB, NEW k1, NEW R,
           Updated(me, k, k1, [k.tcb EXCEPT ![t] = new], R),
           R = IF "RUNNABLE" \in new.tstat THEN Ready(k) \cup {t} ELSE Ready(k) \ {t}
    PROVE  Becomes(me, k, k1, t, new)
<1> DEFINE T == [k.tcb EXCEPT ![t] = new]
<1>1. /\ k1 \in Kernel /\ k1.tcb = T
      /\ QueuesHold(k1, R) /\ Scheduled(k1) /\ FlagsKept(me, k, k1)
  BY DEF Updated
<1>2. \A u \in Tsk : T[u] = IF u = t THEN new ELSE k.tcb[u]
  BY KernelFields
<1> HIDE DEF T
<1>3. k1.tcb[t] = new /\ \A u \in Tsk \ {t} : k1.tcb[u] = k.tcb[u]
  BY <1>1, <1>2
<1>4. R = Ready(k1)
  <2>1. CASE "RUNNABLE" \in new.tstat
    BY <1>3, <2>1 DEF Ready, TstatRunnable
  <2>2. CASE "RUNNABLE" \notin new.tstat
    BY <1>3, <2>2 DEF Ready, TstatRunnable
  <2> QED
    BY <2>1, <2>2
<1> QED
  BY <1>1, <1>3, <1>4 DEF Becomes, Changes, Sound

\* A change that leaves the task where it is.
LEMMA SetChanges ==
    ASSUME NEW k, Sound(k), NEW me \in Prc, NEW t \in Tsk, NEW new \in TCB,
           TstatRunnable(k, t) <=> "RUNNABLE" \in new.tstat,
           TstatRunnable(k, t) => SamePlace(k, t, new)
    PROVE  Becomes(me, k, SetTcb(k, t, new), t, new)
<1>1. /\ k \in Kernel /\ QueuesHold(k, Ready(k)) /\ Scheduled(k) /\ Ready(k) \in SUBSET Tsk
      /\ t \in Ready(k) <=> TstatRunnable(k, t)
  BY DEF Sound, Ready
<1>2. Updated(me, k, SetTcb(k, t, new), [k.tcb EXCEPT ![t] = new], Ready(k))
  BY <1>1, SetTcbFacts
<1>3. Ready(k) = IF "RUNNABLE" \in new.tstat THEN Ready(k) \cup {t} ELSE Ready(k) \ {t}
  BY <1>1
<1> QED
  BY <1>1, <1>2, <1>3, UpdatedChanges

\* A blocked or dormant task becomes runnable.
LEMMA RunChanges ==
    ASSUME NEW k, Sound(k), NEW me \in Prc, NEW t \in Tsk, NEW new \in TCB,
           ~TstatRunnable(k, t), "RUNNABLE" \in new.tstat
    PROVE  Becomes(me, k, MakeRunnable(SetTcb(k, t, new), me, t), t, new)
<1> DEFINE kt == SetTcb(k, t, new)
           k1 == MakeRunnable(kt, me, t)
<1>1. /\ k \in Kernel /\ QueuesHold(k, Ready(k)) /\ Scheduled(k) /\ Ready(k) \in SUBSET Tsk
      /\ t \notin Ready(k)
  BY DEF Sound, Ready
<1>2. Updated(me, k, kt, [k.tcb EXCEPT ![t] = new], Ready(k))
  BY <1>1, SetTcbFacts
<1> HIDE DEF kt
<1>3. Requeued(me, kt, k1, Ready(k) \cup {t})
  BY <1>1, <1>2, MakeRunnableFacts DEF Updated
<1> HIDE DEF k1
<1>4. Updated(me, k, k1, [k.tcb EXCEPT ![t] = new], Ready(k) \cup {t})
  BY <1>2, <1>3 DEF Requeued, Updated, FlagsKept
<1>5. Becomes(me, k, k1, t, new)
  BY <1>1, <1>4, UpdatedChanges
<1> QED
  BY <1>5 DEF k1, kt

\* A runnable task is blocked.
LEMMA BlockChanges ==
    ASSUME NEW k, Sound(k), NEW me \in Prc, NEW t \in Tsk, NEW new \in TCB,
           TstatRunnable(k, t), "RUNNABLE" \notin new.tstat, SamePlace(k, t, new)
    PROVE  Becomes(me, k, MakeNonRunnable(SetTcb(k, t, new), me, t), t, new)
<1> DEFINE kt == SetTcb(k, t, new)
           k1 == MakeNonRunnable(kt, me, t)
<1>1. /\ k \in Kernel /\ QueuesHold(k, Ready(k)) /\ Scheduled(k) /\ Ready(k) \in SUBSET Tsk
      /\ t \in Ready(k)
  BY DEF Sound, Ready
<1>2. Updated(me, k, kt, [k.tcb EXCEPT ![t] = new], Ready(k))
  BY <1>1, SetTcbFacts
<1> HIDE DEF kt
<1>3. Requeued(me, kt, k1, Ready(k) \ {t})
  BY <1>1, <1>2, MakeNonRunnableFacts DEF Updated
<1> HIDE DEF k1
<1>4. Updated(me, k, k1, [k.tcb EXCEPT ![t] = new], Ready(k) \ {t})
  BY <1>2, <1>3 DEF Requeued, Updated, FlagsKept
<1>5. Becomes(me, k, k1, t, new)
  BY <1>1, <1>4, UpdatedChanges
<1> QED
  BY <1>5 DEF k1, kt

\* A runnable task leaves its queue and changes, to run elsewhere or to stop.
LEMMA LeaveFacts ==
    ASSUME NEW k, Sound(k), NEW me \in Prc, NEW t \in Tsk, NEW new \in TCB,
           TstatRunnable(k, t)
    PROVE  Updated(me, k, SetTcb(MakeNonRunnable(k, me, t), t, new),
                   [k.tcb EXCEPT ![t] = new], Ready(k) \ {t})
<1> DEFINE kn == MakeNonRunnable(k, me, t)
           kt == SetTcb(kn, t, new)
<1>1. /\ k \in Kernel /\ QueuesHold(k, Ready(k)) /\ Scheduled(k) /\ Ready(k) \in SUBSET Tsk
      /\ t \in Ready(k)
  BY DEF Sound, Ready
<1>2. Requeued(me, k, kn, Ready(k) \ {t})
  BY <1>1, MakeNonRunnableFacts
<1> HIDE DEF kn
<1>3. Updated(me, kn, kt, [kn.tcb EXCEPT ![t] = new], Ready(k) \ {t})
  BY <1>1, <1>2, SetTcbFacts DEF Requeued, Updated
<1> HIDE DEF kt
<1>4. Updated(me, k, kt, [k.tcb EXCEPT ![t] = new], Ready(k) \ {t})
  BY <1>2, <1>3 DEF Requeued, Updated, FlagsKept
<1> QED
  BY <1>4 DEF kt, kn

LEMMA StopChanges ==
    ASSUME NEW k, Sound(k), NEW me \in Prc, NEW t \in Tsk, NEW new \in TCB,
           TstatRunnable(k, t), "RUNNABLE" \notin new.tstat
    PROVE  Becomes(me, k, SetTcb(MakeNonRunnable(k, me, t), t, new), t, new)
<1> DEFINE k1 == SetTcb(MakeNonRunnable(k, me, t), t, new)
<1>1. k \in Kernel
  BY DEF Sound
<1>2. Updated(me, k, k1, [k.tcb EXCEPT ![t] = new], Ready(k) \ {t})
  BY LeaveFacts
<1> HIDE DEF k1
<1>3. Becomes(me, k, k1, t, new)
  BY <1>1, <1>2, UpdatedChanges
<1> QED
  BY <1>3 DEF k1

LEMMA MoveChanges ==
    ASSUME NEW k, Sound(k), NEW me \in Prc, NEW t \in Tsk, NEW new \in TCB,
           TstatRunnable(k, t), "RUNNABLE" \in new.tstat
    PROVE  Becomes(me, k, MakeRunnable(SetTcb(MakeNonRunnable(k, me, t), t, new), me, t), t, new)
<1> DEFINE kt == SetTcb(MakeNonRunnable(k, me, t), t, new)
           k1 == MakeRunnable(kt, me, t)
<1>1. k \in Kernel /\ Ready(k) \ {t} \in SUBSET Tsk /\ t \in Ready(k)
  BY DEF Sound, Ready
<1>2. Updated(me, k, kt, [k.tcb EXCEPT ![t] = new], Ready(k) \ {t})
  BY LeaveFacts
<1> HIDE DEF kt
<1>3. Requeued(me, kt, k1, (Ready(k) \ {t}) \cup {t})
  BY <1>1, <1>2, MakeRunnableFacts DEF Updated
<1> HIDE DEF k1
<1>4. (Ready(k) \ {t}) \cup {t} = Ready(k) \cup {t}
  BY <1>1
<1>5. Updated(me, k, k1, [k.tcb EXCEPT ![t] = new], Ready(k) \cup {t})
  BY <1>2, <1>3, <1>4 DEF Requeued, Updated, FlagsKept
<1>6. Becomes(me, k, k1, t, new)
  BY <1>1, <1>5, UpdatedChanges
<1> QED
  BY <1>6 DEF k1, kt

\* A task of the processor that is not the one to execute does not get in front
\* of that when it leaves the queues and comes back.
LEMMA MoveStays ==
    ASSUME NEW k, Sound(k), NEW me \in Prc, k.pcb[me].dspflg, NEW s \in Tsk,
           Schedtsk(k, me) = s, NEW t \in Tsk \ {s}, TstatRunnable(k, t),
           k.tcb[t].p_pcb = me, NEW new \in TCB, new.priority = k.tcb[t].priority,
           new.boosted = k.tcb[t].boosted, new.subpri = k.tcb[t].subpri
    PROVE  Schedtsk(MakeRunnable(SetTcb(MakeNonRunnable(k, me, t), t, new), me, t), me) = s
<1> DEFINE pri == new.priority
           p   == new.p_pcb
           old == Queue(k, me, pri)
           q   == QueueDelete(old, t)
           kn  == MakeNonRunnable(k, me, t)
           kt  == SetTcb(kn, t, new)
           q1  == InsertLast(kt, Queue(kt, p, pri), t)
           kq  == Enqueue(kt, t, q1)
           k1  == MakeRunnable(kt, me, t)
           f   == Subpri(k.tcb)
<1>1. /\ k \in Kernel /\ QueuesHold(k, Ready(k)) /\ Scheduled(k) /\ Ready(k) \in SUBSET Tsk
      /\ t \in Ready(k) /\ IsTop(k, me, s)
  BY DEF Sound, Ready, Scheduled
<1>2. /\ pri \in Pri /\ p \in Prc /\ old \in Seq(Tsk) /\ k.tcb \in [Tsk -> TCB]
      /\ k.tcb[s].priority \in Pri /\ Ordered(k.tcb, pri, old) /\ t \in ToSet(old)
  <2>1. t \in {u \in Ready(k) : k.tcb[u].p_pcb = me /\ k.tcb[u].priority = pri}
    BY <1>1
  <2>2. pri \in Pri /\ p \in Prc
    BY DEF TCB
  <2> QED
    BY <1>1, <2>1, <2>2, KernelFields DEF QueuesHold
<1>3. DequeuedFrom(me, k, Ready(k), t, kn)
  <2>1. kn = Dequeue(k, t)
    BY DEF MakeNonRunnable
  <2>2. OthersScheduled(k, k.tcb[t].p_pcb)
    BY <1>1 DEF Scheduled, OthersScheduled
  <2> HIDE DEF kn
  <2> QED
    BY <1>1, <2>1, <2>2, DequeueFacts
<1>4. /\ kn \in Kernel /\ kn.tcb = k.tcb /\ Schedtsk(kn, me) = s
      /\ Queue(kn, me, pri) = q /\ q \in Seq(Tsk)
      /\ Head(old) # t => q # << >> /\ Head(q) = Head(old)
  <2> HIDE DEF kn
  <2> QED
    BY <1>2, <1>3 DEF DequeuedFrom
<1> HIDE DEF kn
<1>5. /\ kt \in Kernel /\ kt.tcb = [k.tcb EXCEPT ![t] = new] /\ Schedtsk(kt, me) = s
      /\ Queue(kt, me, pri) = q /\ QueuesHold(kt, Ready(k) \ {t})
  <2>1. QueuesHold(kn, Ready(k) \ {t}) /\ Ready(k) \ {t} \in SUBSET Tsk
    BY <1>1, <1>3 DEF DequeuedFrom
  <2> QED
    BY <1>2, <1>4, <2>1, TcbFacts
<1> HIDE DEF kt, q, old, f
<1>6. /\ kt.tcb[t] = new /\ kt.tcb[s] = k.tcb[s] /\ kt.tcb \in [Tsk -> TCB]
      /\ Subpri(kt.tcb) = f
  BY <1>2, <1>5 DEF Subpri, f
<1>7. Queue(kt, p, pri) \in Seq(Tsk) /\ kt.pcb[p].ready_primap \in SUBSET Pri
  BY <1>2, <1>5, KernelFields
<1>8. q1 \in Seq(Tsk)
  <2>1. IsInjective(Queue(kt, p, pri)) /\ t \notin ToSet(Queue(kt, p, pri))
    BY <1>2, <1>5 DEF QueuesHold
  <2> QED
    BY <1>7, <2>1, InsertLastFacts DEF InsertedInto
<1>9. /\ kq \in Kernel /\ Schedtsk(kq, me) = s /\ Queue(kq, p, pri) = q1
  <2>1. kq = WithQueue(kt, p, pri, q1, kt.pcb[p].ready_primap \cup {pri})
    BY <1>6 DEF Enqueue, SetQueue, WithQueue
  <2> HIDE DEF q1, kq
  <2> QED
    BY <1>2, <1>5, <1>7, <1>8, <2>1, QueueUpdate, SMTT(30)
<1>10. k1 = IF Schedtsk(kt, p) = NULL \/ pri < kt.tcb[Schedtsk(kt, p)].priority
              THEN UpdateSchedtskDsp(kq, me, p, t)
            ELSE IF pri = kt.tcb[Schedtsk(kt, p)].priority
              THEN UpdateSchedtskDsp(kq, me, p, Head(Queue(kq, p, pri)))
            ELSE kq
  BY <1>6 DEF MakeRunnable
<1> HIDE DEF q1, kq, k1
<1>11. CASE p # me
  <2>1. ASSUME NEW x PROVE Schedtsk(UpdateSchedtskDsp(kq, me, p, x), me) = s
    BY <1>9, <1>11 DEF UpdateSchedtskDsp, Schedtsk, Kernel
  <2>2. Schedtsk(k1, me) = s
    BY <1>9, <1>10, <2>1
  <2> QED
    BY <2>2 DEF k1, kt, kn
<1>12. CASE p = me
  <2>1. /\ s # NULL /\ Queue(k, me, k.tcb[s].priority) # << >>
        /\ s = Head(Queue(k, me, k.tcb[s].priority))
        /\ \A other \in Pri : other < k.tcb[s].priority => Queue(k, me, other) = << >>
    BY <1>1, TopFacts, ConfigAssumption
  <2>2. ~(pri < k.tcb[s].priority)
    BY <1>2, <2>1, EmptyQueue DEF old
  <2>3. ASSUME pri = k.tcb[s].priority PROVE Head(Queue(kq, p, pri)) = s
    <3>1. Head(old) = s /\ q # << >> /\ Head(q) = s
      BY <1>4, <2>1, <2>3 DEF old
    <3>2. pri \in SubprioPri => f[s] <= f[t]
      <4> SUFFICES ASSUME pri \in SubprioPri PROVE f[s] <= f[t]
        OBVIOUS
      <4>1. Sorted(old, f) /\ f \in [Tsk -> Nat]
        BY <1>2, SubpriFacts DEF Ordered, f
      <4>2. PICK i \in 1 .. Len(old) : old[i] = t
        BY <1>2, LenProperties DEF ToSet
      <4>3. /\ 1 \in 1 .. Len(old) /\ Len(old) \in Nat /\ old[1] = s /\ i # 1
        BY <1>2, <3>1, <4>2, EmptySeq, LenProperties
      <4> QED
        BY <4>1, <4>2, <4>3 DEF Sorted
    <3>3. Ordered(kt.tcb, pri, q)
      BY <1>2, <1>5 DEF QueuesHold
    <3>4. q1 = InsertLast(kt, q, t) /\ kt.tcb[t].priority = pri
      BY <1>5, <1>6, <1>12 DEF q1
    <3>5. Head(q1) = s
      BY <1>4, <1>6, <3>1, <3>2, <3>3, <3>4, InsertLastOrder
    <3> QED
      BY <1>9, <3>5
  <2>4. k1 = UpdateSchedtskDsp(kq, me, p, s) \/ k1 = kq
    BY <1>5, <1>6, <1>10, <1>12, <2>1, <2>2, <2>3
  <2>5. Schedtsk(k1, me) = s
    BY <1>2, <1>9, <2>4, UpdateFacts
  <2> QED
    BY <2>5 DEF k1, kt, kn
<1> QED
  BY <1>11, <1>12

\* make_active, make_dormant, make_wait, wait_complete and task_terminate.
LEMMA MakeActiveFacts ==
    ASSUME NEW k, Sound(k), NEW me \in Prc, NEW t \in Tsk, ~TstatRunnable(k, t)
    PROVE  Becomes(me, k, MakeActive(k, me, t), t,
                   [k.tcb[t] EXCEPT !.tskctxb = "start_r", !.tstat = {"RUNNABLE"}])
<1> DEFINE new == [k.tcb[t] EXCEPT !.tskctxb = "start_r", !.tstat = {"RUNNABLE"}]
<1>1. k \in Kernel /\ k.tcb[t] \in TCB
  BY KernelFields DEF Sound
<1>2. new \in TCB /\ "RUNNABLE" \in new.tstat
  BY <1>1 DEF TCB, Bits, Contexts
<1>3. MakeActive(k, me, t) = MakeRunnable(SetTcb(k, t, new), me, t)
  <2>1. [k EXCEPT !.tcb[t].tskctxb = "start_r", !.tcb[t].tstat = {"RUNNABLE"}]
        = SetTcb(k, t, new)
    BY <1>1 DEF SetTcb, Kernel
  <2> QED
    BY <2>1 DEF MakeActive
<1> HIDE DEF new
<1>4. Becomes(me, k, MakeRunnable(SetTcb(k, t, new), me, t), t, new)
  BY <1>2, RunChanges
<1> QED
  BY <1>3, <1>4 DEF new

LEMMA MakeDormantFacts ==
    ASSUME NEW k, NEW t \in Tsk, k.tcb[t] \in TCB
    PROVE  \E new \in TCB :
              /\ MakeDormant(k, t) = SetTcb(k, t, new)
              /\ new.tstat = DORMANT /\ new.tskctxb = "none"
              /\ ~new.wupque /\ ~new.raster /\ new.enater
              /\ new.p_pcb = k.tcb[t].p_pcb /\ new.tmevtb = k.tcb[t].tmevtb
              /\ new.actque = k.tcb[t].actque /\ new.actprc = k.tcb[t].actprc
<1> DEFINE new == [k.tcb[t] EXCEPT
                      !.tstat = DORMANT, !.bpriority = ipriority[t],
                      !.priority = ipriority[t], !.wupque = FALSE, !.raster = FALSE,
                      !.enater = TRUE, !.boosted = FALSE, !.tskctxb = "none"]
<1>1. k.tcb[t] \in TCB /\ ipriority[t] \in Pri
  BY ConfigAssumption
<1>2. /\ new \in TCB /\ new.tstat = DORMANT /\ new.tskctxb = "none"
      /\ ~new.wupque /\ ~new.raster /\ new.enater
      /\ new.p_pcb = k.tcb[t].p_pcb /\ new.tmevtb = k.tcb[t].tmevtb
      /\ new.actque = k.tcb[t].actque /\ new.actprc = k.tcb[t].actprc
  BY <1>1 DEF TCB, Contexts, DORMANT
<1>3. MakeDormant(k, t) = SetTcb(k, t, new)
  BY DEF MakeDormant, SetTcb
<1> HIDE DEF new
<1> QED
  BY <1>2, <1>3

LEMMA DequeueTmevtbFacts ==
    ASSUME NEW k, Sound(k), NEW me \in Prc, NEW t \in Tsk
    PROVE  Becomes(me, k, WaitDequeueTmevtb(k, t), t, [k.tcb[t] EXCEPT !.tmevtb = NULL])
<1> DEFINE new == [k.tcb[t] EXCEPT !.tmevtb = NULL]
<1>1. k \in Kernel /\ k.tcb[t] \in TCB
  BY KernelFields DEF Sound
<1>2. /\ new \in TCB /\ new.tstat = k.tcb[t].tstat
      /\ SamePlace(k, t, new)
  BY <1>1 DEF TCB, SamePlace, CurrentSubpri
<1>3. WaitDequeueTmevtb(k, t) = SetTcb(k, t, new)
  BY DEF WaitDequeueTmevtb, SetTcb
<1> HIDE DEF new
<1>4. Becomes(me, k, SetTcb(k, t, new), t, new)
  BY <1>2, SetChanges DEF TstatRunnable
<1> QED
  BY <1>3, <1>4 DEF new

LEMMA MakeNonWaitFacts ==
    ASSUME NEW k, Sound(k), NEW me \in Prc, NEW t \in Tsk, ~TstatRunnable(k, t)
    PROVE  Becomes(me, k, MakeNonWait(k, me, t), t,
                   [k.tcb[t] EXCEPT !.tstat = IF TstatSuspended(k, t) THEN {"SUSPENDED"}
                                                                      ELSE {"RUNNABLE"}])
<1>1. k \in Kernel /\ k.tcb[t] \in TCB
  BY KernelFields DEF Sound
<1>2. CASE TstatSuspended(k, t)
  <2> DEFINE new == [k.tcb[t] EXCEPT !.tstat = {"SUSPENDED"}]
  <2>1. /\ new \in TCB /\ new.tstat = {"SUSPENDED"}
    BY <1>1 DEF TCB, Bits
  <2>2. MakeNonWait(k, me, t) = SetTcb(k, t, new)
    BY <1>2 DEF MakeNonWait, SetTcb
  <2> HIDE DEF new
  <2>3. Becomes(me, k, SetTcb(k, t, new), t, new)
    BY <2>1, SetChanges
  <2> QED
    BY <1>2, <2>2, <2>3 DEF new
<1>3. CASE ~TstatSuspended(k, t)
  <2> DEFINE new == [k.tcb[t] EXCEPT !.tstat = {"RUNNABLE"}]
  <2>1. /\ new \in TCB /\ new.tstat = {"RUNNABLE"}
    BY <1>1 DEF TCB, Bits
  <2>2. MakeNonWait(k, me, t) = MakeRunnable(SetTcb(k, t, new), me, t)
    BY <1>3 DEF MakeNonWait, SetTcb
  <2> HIDE DEF new
  <2>3. Becomes(me, k, MakeRunnable(SetTcb(k, t, new), me, t), t, new)
    BY <2>1, RunChanges
  <2> QED
    BY <1>3, <2>2, <2>3 DEF new
<1> QED
  BY <1>2, <1>3

LEMMA WaitCompleteFacts ==
    ASSUME NEW k, Sound(k), NEW me \in Prc, NEW t \in Tsk, ~TstatRunnable(k, t)
    PROVE  Becomes(me, k, WaitComplete(k, me, t), t,
                   [k.tcb[t] EXCEPT !.tmevtb = NULL,
                                    !.tstat = IF TstatSuspended(k, t) THEN {"SUSPENDED"}
                                                                      ELSE {"RUNNABLE"}])
<1> DEFINE k1 == WaitDequeueTmevtb(k, t)
           new == [k.tcb[t] EXCEPT !.tmevtb = NULL]
<1>1. k \in Kernel /\ k.tcb[t] \in TCB
  BY KernelFields DEF Sound
<1>2. Becomes(me, k, k1, t, new) /\ new.tstat = k.tcb[t].tstat
  BY <1>1, DequeueTmevtbFacts DEF TCB
<1> HIDE DEF k1, new
<1>3. /\ Sound(k1) /\ k1.tcb[t] = new
      /\ TstatRunnable(k1, t) <=> TstatRunnable(k, t)
      /\ TstatSuspended(k1, t) <=> TstatSuspended(k, t)
  BY <1>2 DEF Becomes, Changes, TstatRunnable, TstatSuspended
<1> DEFINE k2 == MakeNonWait(k1, me, t)
           s == IF TstatSuspended(k, t) THEN {"SUSPENDED"} ELSE {"RUNNABLE"}
<1>4. Becomes(me, k1, k2, t, [new EXCEPT !.tstat = s])
  BY <1>3, MakeNonWaitFacts
<1> HIDE DEF k2, s
<1>5. Becomes(me, k, k2, t, [new EXCEPT !.tstat = s])
  BY <1>2, <1>4, ChangesTrans DEF Becomes
<1>6. [new EXCEPT !.tstat = s] = [k.tcb[t] EXCEPT !.tmevtb = NULL, !.tstat = s]
  BY DEF new
<1> QED
  BY <1>5, <1>6 DEF k1, k2, s, WaitComplete

LEMMA MakeWaitFacts ==
    ASSUME NEW k, Sound(k), NEW me \in Prc, NEW t \in Tsk, NEW bit \in {"SLP", "DLY"},
           TstatSuspended(k, t) \/ TstatRunnable(k, t),
           TstatRunnable(k, t) => k.tcb[t].tstat = {"RUNNABLE"}
    PROVE  Becomes(me, k, MakeWait(k, me, bit, t), t,
                   [k.tcb[t] EXCEPT !.tstat = IF TstatSuspended(k, t) THEN @ \cup {bit}
                                                                      ELSE {bit},
                                    !.tmevtb = NULL])
<1> DEFINE s   == IF TstatSuspended(k, t) THEN k.tcb[t].tstat \cup {bit} ELSE {bit}
           new == [k.tcb[t] EXCEPT !.tstat = s]
           k1  == IF TstatSuspended(k, t) THEN [k EXCEPT !.tcb[t].tstat = @ \cup {bit}]
                  ELSE MakeNonRunnable([k EXCEPT !.tcb[t].tstat = {bit}], me, t)
<1>1. /\ k \in Kernel /\ k.tcb[t] \in TCB
      /\ TstatRunnable(k, t) <=> ~TstatSuspended(k, t)
  BY KernelFields DEF Sound, TstatSuspended, TstatRunnable
<1>2. s \in SUBSET Bits /\ "RUNNABLE" \notin s
  BY <1>1 DEF TCB, Bits, TstatSuspended, TstatRunnable
<1>3. /\ new \in TCB /\ "RUNNABLE" \notin new.tstat
      /\ SamePlace(k, t, new)
  <2> HIDE DEF s
  <2> QED
    BY <1>1, <1>2 DEF TCB, SamePlace, CurrentSubpri
<1>4. ASSUME TstatSuspended(k, t) PROVE k1 = SetTcb(k, t, new)
  BY <1>4 DEF SetTcb
<1>5. ASSUME ~TstatSuspended(k, t)
      PROVE  k1 = MakeNonRunnable(SetTcb(k, t, new), me, t)
  BY <1>5 DEF SetTcb
<1> HIDE DEF k1, new
<1>6. Becomes(me, k, k1, t, new)
  <2>1. CASE TstatSuspended(k, t)
    <3>1. Becomes(me, k, SetTcb(k, t, new), t, new)
      BY <1>1, <1>3, <2>1, SetChanges
    <3> QED
      BY <1>4, <2>1, <3>1
  <2>2. CASE ~TstatSuspended(k, t)
    <3>1. Becomes(me, k, MakeNonRunnable(SetTcb(k, t, new), me, t), t, new)
      BY <1>1, <1>3, <2>2, BlockChanges
    <3> QED
      BY <1>5, <2>2, <3>1
  <2> QED
    BY <2>1, <2>2
<1>7. Sound(k1) /\ k1.tcb[t] = new
  BY <1>6 DEF Becomes, Changes
<1> DEFINE k2 == WaitDequeueTmevtb(k1, t)
<1>8. Becomes(me, k1, k2, t, [new EXCEPT !.tmevtb = NULL])
  BY <1>7, DequeueTmevtbFacts
<1>9. k2 = MakeWait(k, me, bit, t)
  BY DEF WaitDequeueTmevtb, MakeWait, k1
<1> HIDE DEF k2
<1>10. Becomes(me, k, k2, t, [new EXCEPT !.tmevtb = NULL])
  BY <1>6, <1>8, ChangesTrans DEF Becomes
<1> QED
  BY <1>9, <1>10 DEF new, s

LEMMA MakeWaitTmoutFacts ==
    ASSUME NEW k, Sound(k), NEW me \in Prc, NEW t \in Tsk, NEW bit \in {"SLP", "DLY"},
           TstatSuspended(k, t) \/ TstatRunnable(k, t),
           TstatRunnable(k, t) => k.tcb[t].tstat = {"RUNNABLE"}
    PROVE  Becomes(me, k, MakeWaitTmout(k, me, bit, t), t,
                   [k.tcb[t] EXCEPT !.tstat = IF TstatSuspended(k, t) THEN @ \cup {bit}
                                                                      ELSE {bit},
                                    !.tmevtb = me])
<1> DEFINE k1  == MakeWait(k, me, bit, t)
           new == [k.tcb[t] EXCEPT !.tstat = IF TstatSuspended(k, t) THEN @ \cup {bit}
                                                                      ELSE {bit},
                                    !.tmevtb = NULL]
           nw2 == [new EXCEPT !.tmevtb = me]
<1>1. Becomes(me, k, k1, t, new)
  BY MakeWaitFacts
<1>2. nw2 = [k.tcb[t] EXCEPT !.tstat = IF TstatSuspended(k, t) THEN @ \cup {bit}
                                                                 ELSE {bit},
                              !.tmevtb = me]
  OBVIOUS
<1> HIDE DEF k1, new
<1>3. Sound(k1) /\ k1.tcb[t] = new /\ new \in TCB
  BY <1>1 DEF Becomes, Changes
<1>4. /\ nw2 \in TCB /\ nw2.tstat = new.tstat
      /\ SamePlace(k1, t, nw2)
  BY <1>3 DEF TCB, SamePlace, CurrentSubpri
<1> HIDE DEF nw2
<1>5. Becomes(me, k1, SetTcb(k1, t, nw2), t, nw2)
  BY <1>3, <1>4, SetChanges DEF TstatRunnable
<1>6. Becomes(me, k, SetTcb(k1, t, nw2), t, nw2)
  BY <1>1, <1>5, ChangesTrans DEF Becomes
<1>7. SetTcb(k1, t, nw2) = MakeWaitTmout(k, me, bit, t)
  BY <1>3 DEF k1, MakeWaitTmout, SetTcb, nw2
<1> QED
  BY <1>2, <1>6, <1>7

\* The queued activation request moves the dormant task.
Moved(old, new) ==
    /\ new.tstat = old.tstat /\ new.tskctxb = old.tskctxb /\ new.tmevtb = old.tmevtb
    /\ new.wupque = old.wupque /\ new.raster = old.raster /\ new.enater = old.enater
    /\ ~new.actque /\ new.actprc = NULL
    /\ new.p_pcb = IF old.actprc # NULL THEN old.actprc ELSE old.p_pcb

LEMMA TakeActqueFacts ==
    ASSUME NEW k, Sound(k), NEW me \in Prc, NEW t \in Tsk, ~TstatRunnable(k, t)
    PROVE  \E new \in TCB : /\ Becomes(me, k, TakeActque(k, t), t, new)
                            /\ Moved(k.tcb[t], new)
<1> DEFINE new == [k.tcb[t] EXCEPT
                      !.actque = FALSE, !.actprc = NULL,
                      !.p_pcb = IF k.tcb[t].actprc # NULL THEN k.tcb[t].actprc ELSE @]
<1>1. k \in Kernel /\ k.tcb[t] \in TCB
  BY KernelFields DEF Sound
<1>2. new \in TCB /\ Moved(k.tcb[t], new)
  BY <1>1 DEF TCB, Moved
<1>3. TakeActque(k, t) = SetTcb(k, t, new)
  BY <1>1 DEF TakeActque, SetTcb, Kernel
<1> HIDE DEF new
<1>4. Becomes(me, k, SetTcb(k, t, new), t, new)
  BY <1>2, SetChanges DEF TstatRunnable, Moved
<1> QED
  BY <1>2, <1>3, <1>4

\* Of one task: it is dormant, runnable or blocked, never both, and a dormant
\* task has kept no request; only a waiting task has a time event, which its own
\* processor watches; it is on a processor of its affinity, and so is the one of
\* its queued activation; a termination that was requested finds it runnable.
TcbState(t, c) ==
    /\ "RUNNABLE" \in c.tstat => c.tstat = {"RUNNABLE"}
    /\ ~({"SLP", "DLY"} \subseteq c.tstat)
    /\ c.tstat = DORMANT => /\ c.tskctxb = "none" /\ ~c.wupque /\ ~c.raster
                            /\ c.enater /\ ~c.actque
    /\ c.tmevtb # NULL => c.tstat \cap {"SLP", "DLY"} # {} /\ c.tmevtb = c.p_pcb
    /\ c.p_pcb \in affinity[t]
    /\ c.actprc # NULL => c.actque /\ c.actprc \in affinity[t]
    /\ c.raster => c.tstat = {"RUNNABLE"}

\* What a task that ends leaves behind.
Cleared(t, c) ==
    /\ ~c.wupque /\ ~c.raster /\ c.enater /\ c.tmevtb = NULL
    /\ c.p_pcb \in affinity[t]
    /\ c.actprc # NULL => c.actque /\ c.actprc \in affinity[t]

\* The task has been terminated, and activated again if it starts anew.
Ended(me, k, k1, t, again) ==
    /\ Changes(me, k, k1, t) /\ Cleared(t, k1.tcb[t])
    /\ IF again THEN k1.tcb[t].tstat = {"RUNNABLE"} /\ k1.tcb[t].tskctxb = "start_r"
                ELSE k1.tcb[t].tstat = DORMANT /\ k1.tcb[t].tskctxb = "none"

\* It is then in a proper state, if the queued activation has been used up.
LEMMA EndedState ==
    ASSUME NEW me, NEW k, NEW k1, NEW t, NEW again \in BOOLEAN, Ended(me, k, k1, t, again),
           ~k1.tcb[t].actque
    PROVE  TcbState(t, k1.tcb[t])
<1>1. CASE again
  BY <1>1 DEF Ended, Cleared, TcbState, DORMANT
<1>2. CASE ~again
  BY <1>2 DEF Ended, Cleared, TcbState, DORMANT
<1> QED
  BY <1>1, <1>2

LEMMA TerminateOnlyFacts ==
    ASSUME NEW k, Sound(k), NEW me \in Prc, NEW t \in Tsk, TcbState(t, k.tcb[t])
    PROVE  /\ Ended(me, k, TerminateOnly(k, me, t), t, FALSE)
           /\ TerminateOnly(k, me, t).tcb[t].actque = k.tcb[t].actque
<1>1. k \in Kernel /\ k.tcb[t] \in TCB
  BY KernelFields DEF Sound
<1> DEFINE Stopped(old, new) ==
              /\ new.tstat = DORMANT /\ new.tskctxb = "none"
              /\ ~new.wupque /\ ~new.raster /\ new.enater
              /\ new.p_pcb = old.p_pcb /\ new.tmevtb = old.tmevtb
              /\ new.actque = old.actque /\ new.actprc = old.actprc
<1>2. CASE TstatRunnable(k, t)
  <2> DEFINE kn == MakeNonRunnable(k, me, t)
  <2>1. Requeued(me, k, kn, Ready(k) \ {t})
    BY <1>2, MakeNonRunnableFacts DEF Sound, Ready
  <2>2. TerminateOnly(k, me, t) = MakeDormant(kn, t)
    BY <1>2 DEF TerminateOnly
  <2> HIDE DEF kn
  <2>3. kn.tcb = k.tcb
    BY <2>1 DEF Requeued, Updated
  <2>4. PICK new \in TCB : MakeDormant(kn, t) = SetTcb(kn, t, new) /\ Stopped(k.tcb[t], new)
    BY <1>1, <2>3, MakeDormantFacts
  <2>5. "RUNNABLE" \notin new.tstat
    BY <2>4 DEF DORMANT
  <2>6. Becomes(me, k, SetTcb(MakeNonRunnable(k, me, t), t, new), t, new)
    BY <1>2, <2>5, StopChanges
  <2>7. Cleared(t, new)
    BY <1>2, <2>4 DEF TcbState, Cleared, TstatRunnable
  <2> QED
    BY <2>2, <2>4, <2>6, <2>7 DEF kn, Becomes, Ended
<1>3. CASE ~TstatRunnable(k, t)
  <2> DEFINE k1 == IF TstatWaiting(k, t) THEN WaitDequeueTmevtb(k, t) ELSE k
             old == IF TstatWaiting(k, t) THEN [k.tcb[t] EXCEPT !.tmevtb = NULL]
                                          ELSE k.tcb[t]
  <2>1. TerminateOnly(k, me, t) = MakeDormant(k1, t)
    BY <1>3 DEF TerminateOnly
  <2>2. Becomes(me, k, k1, t, old)
    <3>1. CASE TstatWaiting(k, t)
      BY <3>1, DequeueTmevtbFacts
    <3>2. CASE ~TstatWaiting(k, t)
      BY <1>1, <3>2 DEF Becomes, Changes, FlagsKept
    <3> QED
      BY <3>1, <3>2
  <2>3. /\ old.tstat = k.tcb[t].tstat /\ old.p_pcb = k.tcb[t].p_pcb /\ old.tmevtb = NULL
        /\ old.actque = k.tcb[t].actque /\ old.actprc = k.tcb[t].actprc
    BY <1>1 DEF TCB, TcbState, TstatWaiting
  <2> HIDE DEF k1, old
  <2>4. Sound(k1) /\ k1.tcb[t] = old /\ old \in TCB /\ ~TstatRunnable(k1, t)
    BY <1>3, <2>2, <2>3 DEF Becomes, Changes, TstatRunnable
  <2>5. PICK new \in TCB : MakeDormant(k1, t) = SetTcb(k1, t, new) /\ Stopped(old, new)
    BY <2>4, MakeDormantFacts
  <2>6. "RUNNABLE" \notin new.tstat
    BY <2>5 DEF DORMANT
  <2>7. Becomes(me, k1, SetTcb(k1, t, new), t, new)
    BY <2>4, <2>6, SetChanges
  <2>8. Becomes(me, k, SetTcb(k1, t, new), t, new)
    BY <2>2, <2>7, ChangesTrans DEF Becomes
  <2>9. Cleared(t, new)
    BY <2>3, <2>5 DEF TcbState, Cleared
  <2> QED
    BY <2>1, <2>3, <2>5, <2>8, <2>9 DEF Becomes, Ended
<1> QED
  BY <1>2, <1>3

\* A dormant task is activated: the whole of its history is gone.
LEMMA ActivateEnded ==
    ASSUME NEW k, NEW k1, NEW me \in Prc, NEW t \in Tsk, Ended(me, k, k1, t, FALSE)
    PROVE  /\ Ended(me, k, MakeActive(k1, me, t), t, TRUE)
           /\ MakeActive(k1, me, t).tcb[t].actque = k1.tcb[t].actque
<1> DEFINE new == [k1.tcb[t] EXCEPT !.tskctxb = "start_r", !.tstat = {"RUNNABLE"}]
<1>1. /\ Sound(k1) /\ Changes(me, k, k1, t) /\ k1.tcb[t] \in TCB /\ ~TstatRunnable(k1, t)
      /\ Cleared(t, k1.tcb[t])
  BY DEF Ended, Changes, TstatRunnable, DORMANT
<1>2. Becomes(me, k1, MakeActive(k1, me, t), t, new)
  BY <1>1, MakeActiveFacts
<1>3. /\ new.tstat = {"RUNNABLE"} /\ new.tskctxb = "start_r" /\ Cleared(t, new)
      /\ new.actque = k1.tcb[t].actque
  BY <1>1 DEF TCB, Cleared
<1> HIDE DEF new
<1>4. Changes(me, k, MakeActive(k1, me, t), t)
  BY <1>1, <1>2, ChangesTrans DEF Becomes
<1> QED
  BY <1>2, <1>3, <1>4 DEF Ended, Becomes

LEMMA TakeActqueEnded ==
    ASSUME NEW k, NEW me \in Prc, NEW k1, NEW t \in Tsk, Ended(me, k, k1, t, FALSE)
    PROVE  Ended(me, k, TakeActque(k1, t), t, FALSE) /\ ~TakeActque(k1, t).tcb[t].actque
<1>1. Sound(k1) /\ Changes(me, k, k1, t) /\ ~TstatRunnable(k1, t) /\ Cleared(t, k1.tcb[t])
  BY DEF Ended, Changes, TstatRunnable, DORMANT
<1>2. PICK new \in TCB : Becomes(me, k1, TakeActque(k1, t), t, new) /\ Moved(k1.tcb[t], new)
  BY <1>1, TakeActqueFacts
<1>3. Changes(me, k, TakeActque(k1, t), t)
  BY <1>1, <1>2, ChangesTrans DEF Becomes
<1>4. Cleared(t, new)
  BY <1>1, <1>2 DEF Cleared, Moved
<1> QED
  BY <1>2, <1>3, <1>4 DEF Ended, Becomes, Moved

LEMMA TaskTerminateFacts ==
    ASSUME NEW k, Sound(k), NEW me \in Prc, NEW t \in Tsk, NEW runtsk,
           TcbState(t, k.tcb[t])
    PROVE  /\ Ended(me, k, TaskTerminate(k, me, t, runtsk), t,
                    k.tcb[t].actque /\ ~ActivateElsewhere(k, me, t, runtsk))
           /\ ~TaskTerminate(k, me, t, runtsk).tcb[t].actque
<1> DEFINE k1 == TerminateOnly(k, me, t)
           k2 == TakeActque(k1, t)
           k3 == MakeActive(k2, me, t)
<1>1. Ended(me, k, k1, t, FALSE) /\ k1.tcb[t].actque = k.tcb[t].actque
  BY TerminateOnlyFacts
<1>2. TaskTerminate(k, me, t, runtsk) =
         IF ~k.tcb[t].actque THEN k1
         ELSE IF ActivateElsewhere(k, me, t, runtsk) THEN k2 ELSE k3
  BY DEF TaskTerminate
<1> HIDE DEF k1
<1>3. Ended(me, k, k2, t, FALSE) /\ ~k2.tcb[t].actque
  BY <1>1, TakeActqueEnded
<1> HIDE DEF k2
<1>4. Ended(me, k, k3, t, TRUE) /\ ~k3.tcb[t].actque
  <2>1. Ended(me, k, k2, t, FALSE) /\ k2.tcb[t].actque = FALSE
    BY <1>3 DEF Ended, Changes, TCB
  <2>2. Ended(me, k, k3, t, TRUE) /\ k3.tcb[t].actque = k2.tcb[t].actque
    BY <2>1, ActivateEnded
  <2> QED
    BY <2>1, <2>2
<1> HIDE DEF k3
<1>5. k.tcb[t].actque \in BOOLEAN
  BY KernelFields DEF Sound, TCB
<1> QED
  BY <1>1, <1>2, <1>3, <1>4, <1>5 DEF Ended

\* change_priority and change_subprio.
LEMMA ChangePriorityChanges ==
    ASSUME NEW k, Sound(k), NEW me \in Prc, NEW t \in Tsk, NEW newpri \in Pri
    PROVE  Becomes(me, k, ChangePriority(k, me, t, newpri, FALSE), t,
                   [k.tcb[t] EXCEPT !.priority = newpri])
<1> DEFINE new == [k.tcb[t] EXCEPT !.priority = newpri]
           k1  == ChangePriority(k, me, t, newpri, FALSE)
<1>1. /\ k \in Kernel /\ QueuesHold(k, Ready(k)) /\ Scheduled(k) /\ Ready(k) \in SUBSET Tsk
      /\ TstatRunnable(k, t) <=> t \in Ready(k)
      /\ k.tcb[t] \in TCB
  BY KernelFields DEF Sound, Ready
<1>2. new \in TCB /\ new.tstat = k.tcb[t].tstat
  BY <1>1 DEF TCB
<1>3. Updated(me, k, k1, [k.tcb EXCEPT ![t].priority = newpri], Ready(k))
  BY <1>1, ChangePriorityFacts
<1>4. [k.tcb EXCEPT ![t].priority = newpri] = [k.tcb EXCEPT ![t] = new]
  OBVIOUS
<1> HIDE DEF k1, new
<1>5. Updated(me, k, k1, [k.tcb EXCEPT ![t] = new], Ready(k))
  BY <1>3, <1>4
<1>6. Ready(k) = IF "RUNNABLE" \in new.tstat THEN Ready(k) \cup {t} ELSE Ready(k) \ {t}
  BY <1>1, <1>2 DEF TstatRunnable
<1>7. Becomes(me, k, k1, t, new)
  BY <1>1, <1>2, <1>5, <1>6, UpdatedChanges
<1> QED
  BY <1>7 DEF k1, new

LEMMA ChangeSubprioChanges ==
    ASSUME NEW k, Sound(k), NEW me \in Prc, NEW t \in Tsk, NEW subpri \in SubPri,
           TstatRunnable(k, t), k.tcb[t].priority \in SubprioPri
    PROVE  Becomes(me, k, ChangeSubprio(k, me, t, subpri, k.tcb[t].p_pcb), t,
                   [k.tcb[t] EXCEPT !.subpri = subpri])
<1> DEFINE new == [k.tcb[t] EXCEPT !.subpri = subpri]
           k1  == ChangeSubprio(k, me, t, subpri, k.tcb[t].p_pcb)
<1>1. /\ k \in Kernel /\ QueuesHold(k, Ready(k)) /\ Scheduled(k) /\ Ready(k) \in SUBSET Tsk
      /\ t \in Ready(k)
      /\ k.tcb[t] \in TCB
  BY KernelFields DEF Sound, Ready
<1>2. new \in TCB /\ new.tstat = k.tcb[t].tstat
  BY <1>1 DEF TCB
<1>3. Updated(me, k, k1, [k.tcb EXCEPT ![t].subpri = subpri], Ready(k))
  BY <1>1, ChangeSubprioFacts
<1>4. [k.tcb EXCEPT ![t].subpri = subpri] = [k.tcb EXCEPT ![t] = new]
  OBVIOUS
<1> HIDE DEF k1, new
<1>5. Updated(me, k, k1, [k.tcb EXCEPT ![t] = new], Ready(k))
  BY <1>3, <1>4
<1>6. Ready(k) = IF "RUNNABLE" \in new.tstat THEN Ready(k) \cup {t} ELSE Ready(k) \ {t}
  BY <1>1, <1>2 DEF TstatRunnable
<1>7. Becomes(me, k, k1, t, new)
  BY <1>1, <1>2, <1>5, <1>6, UpdatedChanges
<1> QED
  BY <1>7 DEF k1, new

LEMMA RotateChanges ==
    ASSUME NEW k, Sound(k), NEW me \in Prc, NEW pri \in Pri \ SubprioPri, NEW p \in Prc
    PROVE  /\ Sound(RotateReadyQueue(k, me, pri, p))
           /\ RotateReadyQueue(k, me, pri, p).tcb = k.tcb
           /\ FlagsKept(me, k, RotateReadyQueue(k, me, pri, p))
<1> DEFINE k1 == RotateReadyQueue(k, me, pri, p)
<1>1. Requeued(me, k, k1, Ready(k))
  BY RotateFacts DEF Sound, Ready
<1> HIDE DEF k1
<1>2. Ready(k1) = Ready(k)
  BY <1>1 DEF Requeued, Updated, Ready, TstatRunnable
<1>3. Sound(k1) /\ k1.tcb = k.tcb /\ FlagsKept(me, k, k1)
  BY <1>1, <1>2 DEF Requeued, Updated, Sound
<1> QED
  BY <1>3 DEF k1

----------------------------------------------------------------------------
\* The flags of a processor

\* The operation has changed the control block of p only.
Flagged(k, k1, p) ==
    /\ Sound(k1) /\ k1.tcb = k.tcb /\ k1.ipi = k.ipi
    /\ \A o \in Prc \ {p} : k1.pcb[o] = k.pcb[o]

SetPcb(k, p, new) == [k EXCEPT !.pcb[p] = new]

\* dispatching is not enabled behind the back of the queues.
LEMMA SetPcbFacts ==
    ASSUME NEW k, Sound(k), NEW p \in Prc, NEW new \in PCB,
           new.p_schedtsk = k.pcb[p].p_schedtsk, new.ready_queue = k.pcb[p].ready_queue,
           new.ready_primap = k.pcb[p].ready_primap, new.dspflg => k.pcb[p].dspflg
    PROVE  Flagged(k, SetPcb(k, p, new), p) /\ SetPcb(k, p, new).pcb[p] = new
<1> DEFINE k1 == SetPcb(k, p, new)
           P  == [k.pcb EXCEPT ![p] = new]
<1>1. /\ k \in Kernel /\ QueuesHold(k, Ready(k)) /\ Scheduled(k)
      /\ k.tcb \in [Tsk -> TCB] /\ k.pcb \in [Prc -> PCB] /\ k.ipi \in SUBSET Prc
      /\ k = [tcb |-> k.tcb, pcb |-> k.pcb, ipi |-> k.ipi]
  BY KernelFields DEF Sound, Kernel
<1>2. k1 = [tcb |-> k.tcb, pcb |-> P, ipi |-> k.ipi]
  BY <1>1 DEF SetPcb
<1>3. P \in [Prc -> PCB] /\ P[p] = new /\ \A o \in Prc \ {p} : P[o] = k.pcb[o]
  BY <1>1
<1> HIDE DEF k1, P
<1>4. k1.tcb = k.tcb /\ k1.pcb = P /\ k1 \in Kernel /\ k1.ipi = k.ipi
  BY <1>1, <1>2, <1>3 DEF Kernel
<1>5. ASSUME NEW o \in Prc
      PROVE  /\ k1.pcb[o].ready_queue = k.pcb[o].ready_queue
             /\ k1.pcb[o].ready_primap = k.pcb[o].ready_primap
             /\ k1.pcb[o].p_schedtsk = k.pcb[o].p_schedtsk
             /\ k1.pcb[o].dspflg => k.pcb[o].dspflg
  BY <1>3, <1>4
<1>6. Ready(k1) = Ready(k)
  BY <1>4 DEF Ready, TstatRunnable
<1>7. QueuesHold(k1, Ready(k1))
  BY <1>1, <1>4, <1>5, <1>6 DEF QueuesHold, Queue
<1>8. Scheduled(k1)
  BY <1>1, <1>5 DEF Scheduled, IsTop, Queue, Schedtsk
<1>9. Flagged(k, k1, p) /\ k1.pcb[p] = new
  BY <1>3, <1>4, <1>7, <1>8 DEF Flagged, Sound
<1> QED
  BY <1>9 DEF k1

LEMMA SetDspflgChanges ==
    ASSUME NEW k, Sound(k), NEW me \in Prc
    PROVE  /\ Flagged(k, SetDspflg(k, me), me)
           /\ SetDspflg(k, me).pcb[me].dspflg /\ ~SetDspflg(k, me).pcb[me].ipm
           /\ SetDspflg(k, me).pcb[me].enadsp = k.pcb[me].enadsp
<1> DEFINE k1 == SetDspflg(k, me)
<1>1. k \in Kernel /\ QueuesHold(k, Ready(k)) /\ Scheduled(k) /\ Ready(k) \in SUBSET Tsk
  BY DEF Sound, Ready
<1>2. /\ k1 \in Kernel /\ k1.tcb = k.tcb
      /\ QueuesHold(k1, Ready(k)) /\ Scheduled(k1)
      /\ k1.pcb[me].dspflg /\ k1.ipi = k.ipi
      /\ k1.pcb[me].enadsp = k.pcb[me].enadsp /\ ~k1.pcb[me].ipm
      /\ \A o \in Prc \ {me} : k1.pcb[o] = k.pcb[o]
  BY <1>1, SetDspflgFacts
<1> HIDE DEF k1
<1>3. Ready(k1) = Ready(k)
  BY <1>2 DEF Ready, TstatRunnable
<1>4. /\ Flagged(k, k1, me) /\ k1.pcb[me].dspflg /\ ~k1.pcb[me].ipm
      /\ k1.pcb[me].enadsp = k.pcb[me].enadsp
  BY <1>2, <1>3 DEF Flagged, Sound
<1> QED
  BY <1>4 DEF k1

----------------------------------------------------------------------------
\* The inductive invariant

\* p executes on behalf of t, or is about to.
Executes(p, t) == run[p] = t /\ mode[p] \notin {"disp", "idle"}

\* In the CPU locked state the running task executes.
PlaceAt(p) == at[p] = "locked" => mode[p] = "task"

\* The running task belongs to the processor, and its context is in its TCB
\* exactly while the processor is about to resume it.
HoldAt(p) ==
    /\ mode[p] \in {"task", "save", "switch"} => run[p] # NULL
    /\ mode[p] = "idle" => run[p] = NULL
    /\ run[p] # NULL /\ mode[p] \notin {"disp", "idle"} =>
          /\ tcb[run[p]].p_pcb = p
          /\ ~TstatDormant(ker, run[p])
          /\ mode[p] # "save" => ~TstatWaiting(ker, run[p])
          /\ tcb[run[p]].tskctxb = "none" <=> mode[p] # "switch"

PinnedAt(p) ==
    ~pcb[p].dspflg => /\ run[p] # NULL /\ Schedtsk(ker, p) = run[p]
                      /\ mode[p] \in {"task", "int"}

\* The flag says whether dispatching is enabled, and a processor that has
\* settled while another task is scheduled has an interrupt coming.
DispatchAt(p) ==
    /\ pcb[p].dspflg <=> pcb[p].enadsp /\ ~pcb[p].ipm
    /\ mode[p] \in {"task", "switch", "idle"} /\ Schedtsk(ker, p) # run[p] => p \in ker.ipi

\* A task whose context is not in its TCB is dormant or executes where it is.
ContextOf(t) ==
    tcb[t].tskctxb = "none" => TstatDormant(ker, t) \/ Holds(tcb[t].p_pcb, t)

StateOf(k, t) ==
    /\ TcbState(t, k.tcb[t])
    /\ TstatSuspended(k, t) => "sus_tsk" \in Calls

\* A task whose termination is due is kept going by a processor on which
\* dispatching is disabled.
Deferred(k, t) == k.tcb[t].raster /\ k.tcb[t].enater
Pins(p, t)     == run[p] = t /\ ~pcb[p].dspflg
PendingOf(t)   == Deferred(ker, t) => \E p \in Prc : Pins(p, t)

IInv ==
    /\ TypeOK
    /\ Sound(ker)
    /\ \A p \in Prc : PlaceAt(p) /\ HoldAt(p) /\ PinnedAt(p) /\ DispatchAt(p)
    /\ \A t \in Tsk : ContextOf(t) /\ StateOf(ker, t) /\ PendingOf(t)

\* The suspended tasks stay suspended.
KeepsSuspended == \A t \in Tsk : TstatSuspended(ker, t) => TstatSuspended(ker', t)

----------------------------------------------------------------------------
\* Steps of one processor

\* What another processor that executes on behalf of t relies on.
Calm(k, k1, t) ==
    /\ k1.tcb[t].tskctxb = k.tcb[t].tskctxb
    /\ k1.tcb[t].p_pcb = k.tcb[t].p_pcb
    /\ TstatDormant(k1, t) <=> TstatDormant(k, t)
    /\ TstatWaiting(k1, t) => TstatWaiting(k, t)

\* The step leaves the registers and flags of the other processors alone, does
\* not take the task away where dispatching is disabled, and interrupts a
\* processor for which it schedules another task.
Local(p) ==
    \A q \in Prc \ {p} :
        /\ run'[q] = run[q] /\ mode'[q] = mode[q] /\ at'[q] = at[q]
        /\ ker'.pcb[q].dspflg = pcb[q].dspflg
        /\ ker'.pcb[q].enadsp = pcb[q].enadsp /\ ker'.pcb[q].ipm = pcb[q].ipm
        /\ ~pcb[q].dspflg => Schedtsk(ker', q) = Schedtsk(ker, q)
        /\ Schedtsk(ker', q) # Schedtsk(ker, q) => q \in ker'.ipi
        /\ q \in ker.ipi => q \in ker'.ipi

\* A termination that is due stays with another processor, or is p's.
KeepsPending(p, t) ==
    Deferred(ker', t) => (Deferred(ker, t) /\ ~Pins(p, t)) \/ Pins(p, t)'

LEMMA LocalStep ==
    ASSUME IInv, NEW p \in Prc, Sound(ker'), Local(p),
           run' \in [Prc -> Tsk \cup {NULL}], mode' \in [Prc -> Modes],
           at' \in [Prc -> Places],
           \A u \in Tsk : StateOf(ker', u) /\ ContextOf(u)' /\ KeepsPending(p, u),
           \A u \in Tsk, q \in Prc \ {p} : Executes(q, u) => Calm(ker, ker', u),
           PlaceAt(p)', HoldAt(p)', PinnedAt(p)', DispatchAt(p)'
    PROVE  IInv'
<1>1. TypeOK'
  BY DEF TypeOK, Sound
<1>2. ASSUME NEW q \in Prc \ {p}
      PROVE  PlaceAt(q)' /\ HoldAt(q)' /\ PinnedAt(q)' /\ DispatchAt(q)'
  <2>1. /\ run'[q] = run[q] /\ mode'[q] = mode[q] /\ at'[q] = at[q]
        /\ ker'.pcb[q].dspflg = pcb[q].dspflg
        /\ ker'.pcb[q].enadsp = pcb[q].enadsp /\ ker'.pcb[q].ipm = pcb[q].ipm
        /\ ~pcb[q].dspflg => Schedtsk(ker', q) = Schedtsk(ker, q)
        /\ Schedtsk(ker', q) # Schedtsk(ker, q) => q \in ker'.ipi
        /\ q \in ker.ipi => q \in ker'.ipi
    BY DEF Local
  <2>2. /\ PlaceAt(q) /\ HoldAt(q) /\ PinnedAt(q) /\ DispatchAt(q)
        /\ run[q] \in Tsk \cup {NULL}
    BY DEF IInv, TypeOK
  <2>3. PlaceAt(q)'
    BY <2>1, <2>2 DEF PlaceAt
  <2>4. PinnedAt(q)'
    BY <2>1, <2>2 DEF PinnedAt, pcb
  <2>5. ASSUME run[q] # NULL, mode[q] \notin {"disp", "idle"}
        PROVE  Calm(ker, ker', run[q])
    BY <2>2, <2>5 DEF Executes
  <2>6. HoldAt(q)'
    BY <2>1, <2>2, <2>5 DEF HoldAt, Calm, tcb
  <2>7. DispatchAt(q)'
    BY <2>1, <2>2 DEF DispatchAt, pcb
  <2> QED
    BY <2>3, <2>4, <2>6, <2>7
<1>3. ASSUME NEW u \in Tsk PROVE PendingOf(u)'
  <2> SUFFICES ASSUME Deferred(ker', u), Deferred(ker, u), ~Pins(p, u)
               PROVE  \E q \in Prc : Pins(q, u)'
    BY DEF PendingOf, KeepsPending
  <2>1. PICK q \in Prc : Pins(q, u)
    BY DEF IInv, PendingOf
  <2>2. q \in Prc \ {p}
    BY <2>1
  <2>3. Pins(q, u)'
    BY <2>1, <2>2 DEF Local, Pins, pcb
  <2> QED
    BY <2>3
<1> QED
  BY <1>1, <1>2, <1>3 DEF IInv

\* The operations of the kernel leave the other processors alone; k is the
\* kernel data in which p has changed its own flags.
LEMMA LocalFacts ==
    ASSUME NEW p \in Prc, NEW k, k.ipi = ker.ipi,
           \A q \in Prc \ {p} : k.pcb[q] = ker.pcb[q],
           FlagsKept(p, k, ker'), run' = run,
           \A q \in Prc \ {p} : mode'[q] = mode[q] /\ at'[q] = at[q]
    PROVE  Local(p)
<1> SUFFICES ASSUME NEW q \in Prc \ {p}
             PROVE  /\ run'[q] = run[q] /\ mode'[q] = mode[q] /\ at'[q] = at[q]
                    /\ ker'.pcb[q].dspflg = ker.pcb[q].dspflg
                    /\ ker'.pcb[q].enadsp = ker.pcb[q].enadsp
                    /\ ker'.pcb[q].ipm = ker.pcb[q].ipm
                    /\ ~ker.pcb[q].dspflg => Schedtsk(ker', q) = Schedtsk(ker, q)
                    /\ Schedtsk(ker', q) # Schedtsk(ker, q) => q \in ker'.ipi
                    /\ q \in ker.ipi => q \in ker'.ipi
  BY DEF Local, pcb
<1>1. /\ ker'.pcb[q].dspflg = k.pcb[q].dspflg
      /\ ker'.pcb[q].enadsp = k.pcb[q].enadsp /\ ker'.pcb[q].ipm = k.pcb[q].ipm
      /\ ~k.pcb[q].dspflg => Schedtsk(ker', q) = Schedtsk(k, q)
      /\ Schedtsk(ker', q) # Schedtsk(k, q) => q \in ker'.ipi
      /\ q \in k.ipi => q \in ker'.ipi
  BY DEF FlagsKept
<1>2. Schedtsk(k, q) = Schedtsk(ker, q) /\ k.pcb[q] = ker.pcb[q]
  BY DEF Schedtsk
<1> QED
  BY <1>1, <1>2

\* A processor executes on behalf of the tasks that are assigned to it.
LEMMA ExecutesFacts ==
    ASSUME IInv, NEW p \in Prc, NEW t \in Tsk, Executes(p, t)
    PROVE  /\ tcb[t].p_pcb = p /\ ~TstatDormant(ker, t)
           /\ mode[p] # "save" => ~TstatWaiting(ker, t)
           /\ tcb[t].tskctxb = "none" <=> mode[p] # "switch"
BY ConfigAssumption DEF IInv, HoldAt, Executes

\* A task that no other processor can be disturbed by: the step leaves alone
\* what they rely on, or the task executes nowhere and gets a context.
Fits(p, k, k1, t) ==
    /\ StateOf(k1, t)
    /\ Deferred(k1, t) => Deferred(k, t) \/ Pins(p, t)
    /\ \/ Calm(k, k1, t)
       \/ /\ \A q \in Prc : ~Executes(q, t)
          /\ k1.tcb[t].tskctxb # "none" \/ TstatDormant(k1, t)

\* The call returns with or without the final test; without it, it has not
\* scheduled another task on its own processor.
Finish(p, k1) ==
    \/ EndCall(p, k1)
    \/ Return(k1) /\ (Schedtsk(ker, p) = run[p] => Schedtsk(k1, p) = run[p])

\* The end of a service call that leaves the calling task on its processor.
LEMMA CallStep ==
    ASSUME IInv, NEW p \in Prc, mode[p] \in {"task", "int"}, at[p] # "locked", NEW k1,
           Sound(k1), FlagsKept(p, ker, k1), \A u \in Tsk : Fits(p, ker, k1, u),
           Finish(p, k1)
    PROVE  IInv'
<1>1. /\ ker' = k1 /\ run' = run /\ at' = at /\ run \in [Prc -> Tsk \cup {NULL}]
      /\ mode \in [Prc -> Modes] /\ at \in [Prc -> Places]
  BY DEF IInv, TypeOK, Finish, EndCall, Return
<1>2. /\ mode' \in [Prc -> Modes]
      /\ \A q \in Prc \ {p} : mode'[q] = mode[q]
      /\ \/ mode'[p] = mode[p]
         \/ mode[p] = "task" /\ mode'[p] = "save" /\ run[p] # Schedtsk(k1, p)
      /\ \/ mode'[p] # "task"
         \/ Schedtsk(ker, p) = run[p] => Schedtsk(k1, p) = run[p]
  BY <1>1 DEF Finish, EndCall, Return, Modes
<1>3. Local(p)
  BY <1>1, <1>2, LocalFacts
<1>4. ASSUME NEW q \in Prc, NEW u \in Tsk, Executes(q, u) PROVE Calm(ker, ker', u)
  BY <1>1, <1>4 DEF Fits
<1>5. \A u \in Tsk : StateOf(ker', u)
  BY <1>1 DEF Fits
<1>6. ASSUME NEW u \in Tsk PROVE ContextOf(u)'
  <2>1. CASE Calm(ker, k1, u)
    <3>1. ContextOf(u)
      BY DEF IInv
    <3>2. \A q \in Prc : Holds(q, u) => Holds(q, u)'
      BY <1>1, <1>2 DEF Holds
    <3>3. tcb[u].p_pcb \in Prc
      BY KernelFields DEF IInv, Sound, tcb
    <3> QED
      BY <1>1, <2>1, <3>1, <3>2, <3>3 DEF ContextOf, Calm, tcb
  <2>2. CASE k1.tcb[u].tskctxb # "none" \/ TstatDormant(k1, u)
    BY <1>1, <2>2 DEF ContextOf, tcb
  <2> QED
    BY <2>1, <2>2 DEF Fits
<1>7. /\ PlaceAt(p) /\ HoldAt(p) /\ PinnedAt(p) /\ DispatchAt(p)
      /\ run[p] \in Tsk \cup {NULL}
  BY <1>1 DEF IInv
<1>8. /\ k1.pcb[p].dspflg = ker.pcb[p].dspflg
      /\ k1.pcb[p].enadsp = ker.pcb[p].enadsp /\ k1.pcb[p].ipm = ker.pcb[p].ipm
      /\ ~ker.pcb[p].dspflg => Schedtsk(k1, p) = Schedtsk(ker, p)
      /\ ker.ipi \subseteq k1.ipi
  BY DEF FlagsKept
<1>9. PinnedAt(p)'
  BY <1>1, <1>2, <1>7, <1>8 DEF PinnedAt, pcb
<1>10. HoldAt(p)'
  <2>1. ASSUME run[p] # NULL PROVE Calm(ker, ker', run[p])
    BY <1>4, <1>7, <2>1 DEF Executes
  <2> QED
    BY <1>1, <1>2, <1>7, <2>1 DEF HoldAt, Calm, tcb
<1>11. PlaceAt(p)'
  BY <1>1 DEF PlaceAt
<1>12. DispatchAt(p)'
  BY <1>1, <1>2, <1>7, <1>8 DEF DispatchAt, pcb
<1>13. ASSUME NEW u \in Tsk PROVE KeepsPending(p, u)
  <2>1. Pins(p, u) => Pins(p, u)'
    BY <1>1, <1>8 DEF Pins, pcb
  <2> QED
    BY <1>1, <2>1 DEF KeepsPending, Fits
<1> QED
  BY <1>1, <1>2, <1>3, <1>4, <1>5, <1>6, <1>9, <1>10, <1>11, <1>12, <1>13, LocalStep

LEMMA CallOn ==
    ASSUME IInv, NEW p \in Prc, mode[p] \in {"task", "int"}, at[p] # "locked",
           NEW t \in Tsk, NEW k1, Changes(p, ker, k1, t), Fits(p, ker, k1, t), Finish(p, k1)
    PROVE  /\ IInv'
           /\ (TstatSuspended(ker, t) => TstatSuspended(k1, t)) => KeepsSuspended
<1>1. Sound(k1) /\ FlagsKept(p, ker, k1) /\ \A u \in Tsk \ {t} : k1.tcb[u] = ker.tcb[u]
  BY DEF Changes
<1>2. ASSUME NEW u \in Tsk \ {t} PROVE Fits(p, ker, k1, u)
  <2>1. k1.tcb[u] = ker.tcb[u] /\ StateOf(ker, u)
    BY <1>1 DEF IInv
  <2> QED
    BY <2>1 DEF Fits, StateOf, Deferred, Calm, TstatDormant, TstatSuspended, TstatWaiting
<1>3. IInv'
  BY <1>1, <1>2, CallStep
<1>4. ker' = k1
  BY DEF Finish, EndCall, Return
<1>5. (TstatSuspended(ker, t) => TstatSuspended(k1, t)) => KeepsSuspended
  BY <1>1, <1>4 DEF KeepsSuspended, TstatSuspended
<1> QED
  BY <1>3, <1>5

\* A field of the TCB that says nothing of where the task is.
LEMMA FieldStep ==
    ASSUME IInv, NEW p \in Prc, mode[p] \in {"task", "int"}, at[p] # "locked",
           NEW t \in Tsk, NEW new \in TCB, TcbState(t, new),
           new.tstat = tcb[t].tstat, TstatRunnable(ker, t) => SamePlace(ker, t, new),
           new.p_pcb = tcb[t].p_pcb, new.tskctxb = tcb[t].tskctxb,
           new.raster /\ new.enater => Deferred(ker, t) \/ Pins(p, t),
           EndCall(p, SetTcb(ker, t, new)) \/ Return(SetTcb(ker, t, new))
    PROVE  IInv' /\ KeepsSuspended
<1> DEFINE k1 == SetTcb(ker, t, new)
<1>1. Sound(ker) /\ StateOf(ker, t)
  BY DEF IInv
<1>2. Becomes(p, ker, k1, t, new)
  BY <1>1, SetChanges DEF TstatRunnable, tcb
<1>3. Schedtsk(k1, p) = Schedtsk(ker, p)
  BY DEF SetTcb, Schedtsk
<1> HIDE DEF k1
<1>4. Fits(p, ker, k1, t) /\ (TstatSuspended(ker, t) => TstatSuspended(k1, t))
  BY <1>1, <1>2 DEF Becomes, Fits, StateOf, Deferred, Calm, TstatDormant,
                    TstatSuspended, TstatWaiting, tcb
<1>5. Finish(p, k1)
  BY <1>3 DEF k1, Finish
<1> QED
  BY <1>2, <1>4, <1>5, CallOn DEF Becomes

LEMMA CallerFacts ==
    ASSUME IInv, NEW p \in Prc
    PROVE  /\ ker \in Kernel /\ Sound(ker)
           /\ \A t \in Tsk : tcb[t] \in TCB /\ StateOf(ker, t) /\ ContextOf(t)
           /\ \A c : InTask(p, c) => mode[p] = "task" /\ at[p] = "user"
           /\ \A c : InAny(p, c) => mode[p] \in {"task", "int"} /\ at[p] # "locked"
           /\ mode[p] = "int" => at[p] # "locked"
           /\ mode[p] = "task" => run[p] \in Tsk /\ Executes(p, run[p])
<1>1. /\ ker \in Kernel /\ Sound(ker) /\ PlaceAt(p) /\ HoldAt(p)
      /\ run[p] \in Tsk \cup {NULL}
      /\ \A t \in Tsk : StateOf(ker, t) /\ ContextOf(t)
  BY DEF IInv, TypeOK
<1>2. \A t \in Tsk : tcb[t] \in TCB
  BY <1>1, KernelFields DEF tcb
<1> QED
  BY <1>1, <1>2 DEF InTask, InAny, PlaceAt, HoldAt, Executes

\* A task that is started or has ended, and that executes nowhere.
LEMMA EndedFits ==
    ASSUME NEW p \in Prc, NEW t \in Tsk, NEW k1, NEW again \in BOOLEAN,
           Ended(p, ker, k1, t, again), ~k1.tcb[t].actque,
           \A q \in Prc : ~Executes(q, t)
    PROVE  Fits(p, ker, k1, t) /\ ~TstatSuspended(k1, t)
<1>1. TcbState(t, k1.tcb[t]) /\ ~k1.tcb[t].raster
  BY EndedState DEF Ended, Cleared
<1>2. CASE again
  BY <1>1, <1>2 DEF Ended, Fits, StateOf, Deferred, TstatDormant, TstatSuspended, DORMANT
<1>3. CASE ~again
  BY <1>1, <1>3 DEF Ended, Fits, StateOf, Deferred, TstatDormant, TstatSuspended, DORMANT
<1> QED
  BY <1>2, <1>3

----------------------------------------------------------------------------
\* The service calls

LEMMA ActivateStep ==
    ASSUME IInv, NEW p \in Prc, mode[p] \in {"task", "int"}, at[p] # "locked",
           NEW t \in Tsk, NEW prc \in Prc \cup {NULL}, prc # NULL => prc \in affinity[t],
           Activate(p, t, prc)
    PROVE  IInv' /\ KeepsSuspended
<1>1. ker \in Kernel /\ Sound(ker) /\ tcb[t] \in TCB /\ StateOf(ker, t)
  BY CallerFacts
<1>2. CASE TstatDormant(ker, t)
  <2> DEFINE new == [tcb[t] EXCEPT !.p_pcb = prc]
             k0  == IF prc = NULL THEN ker ELSE [ker EXCEPT !.tcb[t].p_pcb = prc]
  <2>1. ~TstatRunnable(ker, t) /\ ker.tcb[t].tstat = DORMANT
    BY <1>2 DEF TstatDormant, TstatRunnable, DORMANT
  <2>2. /\ Cleared(t, tcb[t]) /\ ~tcb[t].actque
        /\ prc # NULL => Cleared(t, new) /\ ~new.actque
    <3>1. Cleared(t, tcb[t]) /\ ~tcb[t].actque
      BY <1>1, <2>1 DEF StateOf, TcbState, Cleared, DORMANT, tcb
    <3> QED
      BY <1>1, <3>1 DEF Cleared, TCB
  <2>3. Changes(p, ker, k0, t) /\ k0.tcb[t].tstat = DORMANT
        /\ Cleared(t, k0.tcb[t]) /\ ~k0.tcb[t].actque
    <3>1. CASE prc = NULL
      BY <1>1, <2>1, <2>2, <3>1 DEF Changes, FlagsKept, tcb
    <3>2. CASE prc # NULL
      <4>1. new \in TCB /\ new.tstat = DORMANT
        BY <1>1, <2>1, <3>2 DEF TCB, tcb
      <4>2. k0 = SetTcb(ker, t, new)
        BY <3>2 DEF SetTcb, tcb
      <4> HIDE DEF new, k0
      <4>3. "RUNNABLE" \notin new.tstat
        BY <4>1 DEF DORMANT
      <4>4. Becomes(p, ker, SetTcb(ker, t, new), t, new)
        BY <1>1, <2>1, <4>1, <4>3, SetChanges
      <4> QED
        BY <2>2, <3>2, <4>1, <4>2, <4>4 DEF Becomes
    <3> QED
      BY <3>1, <3>2
  <2> DEFINE k1 == MakeActive(k0, p, t)
  <2>4. EndCall(p, k1)
    BY <1>2 DEF Activate
  <2> HIDE DEF k0
  <2>5. /\ Sound(k0) /\ ~TstatRunnable(k0, t) /\ k0.tcb[t] \in TCB
    BY <2>3 DEF Changes, TstatRunnable, DORMANT
  <2> DEFINE nw1 == [k0.tcb[t] EXCEPT !.tskctxb = "start_r", !.tstat = {"RUNNABLE"}]
  <2>6. Becomes(p, k0, k1, t, nw1)
    BY <2>5, MakeActiveFacts
  <2>7. /\ nw1.tstat = {"RUNNABLE"} /\ nw1.tskctxb = "start_r"
        /\ Cleared(t, nw1) /\ ~nw1.actque
    BY <2>3, <2>5 DEF Cleared, TCB
  <2> HIDE DEF k1, nw1
  <2>8. Changes(p, ker, k1, t)
    BY <2>3, <2>6, ChangesTrans DEF Becomes
  <2>9. Ended(p, ker, k1, t, TRUE) /\ ~k1.tcb[t].actque
    BY <2>6, <2>7, <2>8 DEF Becomes, Ended
  <2>10. \A q \in Prc : ~Executes(q, t)
    BY <1>2, ExecutesFacts
  <2>11. Fits(p, ker, k1, t)
    BY <2>9, <2>10, EndedFits
  <2>12. ~TstatSuspended(ker, t)
    BY <2>1 DEF TstatSuspended, DORMANT
  <2> QED
    BY <2>4, <2>8, <2>11, <2>12, CallOn DEF Finish
<1>3. CASE ~TstatDormant(ker, t)
  <2> DEFINE new == [tcb[t] EXCEPT !.actque = TRUE,
                                   !.actprc = IF prc = NULL THEN @ ELSE prc]
  <2>1. /\ new \in TCB /\ new.tstat = tcb[t].tstat /\ new.p_pcb = tcb[t].p_pcb
        /\ new.tskctxb = tcb[t].tskctxb
        /\ new.raster /\ new.enater => Deferred(ker, t)
        /\ SamePlace(ker, t, new)
    BY <1>1 DEF TCB, Deferred, SamePlace, CurrentSubpri, tcb
  <2>2. TcbState(t, new)
    <3>1. tcb[t].tstat # DORMANT
      BY <1>3 DEF TstatDormant, tcb
    <3> QED
      BY <1>1, <3>1 DEF TcbState, StateOf, TCB, tcb
  <2>3. SetTcb(ker, t, new) = [ker EXCEPT !.tcb[t].actque = TRUE,
                                 !.tcb[t].actprc = IF prc = NULL THEN @ ELSE prc]
    BY <1>1 DEF SetTcb, tcb, Kernel, TCB
  <2>4. Return(SetTcb(ker, t, new))
    BY <1>3, <2>3 DEF Activate
  <2> HIDE DEF new
  <2> QED
    BY <2>1, <2>2, <2>4, FieldStep
<1> QED
  BY <1>2, <1>3

\* The processor gives up its task, whose context is saved or thrown away; k
\* is the kernel data in which dispatching has been enabled.
LEMMA LeaveStep ==
    ASSUME IInv, NEW p \in Prc, NEW t \in Tsk, Executes(p, t),
           NEW k, k.tcb = ker.tcb, k.ipi = ker.ipi,
           k.pcb[p].dspflg, k.pcb[p].enadsp, ~k.pcb[p].ipm,
           \A q \in Prc \ {p} : k.pcb[q] = ker.pcb[q],
           Changes(p, k, ker', t), StateOf(ker', t), ~Deferred(ker', t),
           ker'.tcb[t].tskctxb # "none" \/ TstatDormant(ker', t),
           mode' = [mode EXCEPT ![p] = "disp"], run' = run,
           at' \in [Prc -> Places], at'[p] # "locked",
           \A q \in Prc \ {p} : at'[q] = at[q]
    PROVE  /\ IInv'
           /\ (TstatSuspended(ker, t) => TstatSuspended(ker', t)) => KeepsSuspended
<1>1. /\ run \in [Prc -> Tsk \cup {NULL}] /\ mode \in [Prc -> Modes]
      /\ Sound(ker') /\ FlagsKept(p, k, ker')
      /\ \A u \in Tsk \ {t} : ker'.tcb[u] = ker.tcb[u]
  BY DEF IInv, TypeOK, Changes
<1>2. /\ mode' \in [Prc -> Modes] /\ mode'[p] = "disp"
      /\ \A q \in Prc \ {p} : mode'[q] = mode[q]
  BY <1>1 DEF Modes
<1>3. Local(p)
  BY <1>1, <1>2, LocalFacts
<1>4. ASSUME NEW u \in Tsk, NEW q \in Prc \ {p}, Executes(q, u) PROVE Calm(ker, ker', u)
  <2>1. u # t
    BY <1>4, ExecutesFacts
  <2> QED
    BY <1>1, <2>1 DEF Calm, TstatDormant, TstatWaiting
<1>5. ASSUME NEW u \in Tsk PROVE StateOf(ker', u) /\ ContextOf(u)' /\ KeepsPending(p, u)
  <2>1. CASE u = t
    BY <2>1 DEF ContextOf, KeepsPending, tcb
  <2>2. CASE u # t
    <3>1. ker'.tcb[u] = ker.tcb[u] /\ StateOf(ker, u) /\ ContextOf(u)
      BY <1>1, <2>2 DEF IInv
    <3>2. StateOf(ker', u) /\ KeepsPending(p, u)
      BY <2>2, <3>1 DEF StateOf, TstatSuspended, KeepsPending, Deferred, Pins, Executes
    <3>3. \A q \in Prc : Holds(q, u) => Holds(q, u)'
      BY <1>2, <2>2 DEF Holds, Executes
    <3>4. tcb[u].p_pcb \in Prc
      BY KernelFields DEF IInv, Sound, tcb
    <3> QED
      BY <3>1, <3>2, <3>3, <3>4 DEF ContextOf, TstatDormant, tcb
  <2> QED
    BY <2>1, <2>2
<1>6. PlaceAt(p)' /\ HoldAt(p)'
  BY <1>2 DEF PlaceAt, HoldAt
<1>7. PinnedAt(p)' /\ DispatchAt(p)'
  <2>1. /\ ker'.pcb[p].dspflg = k.pcb[p].dspflg
        /\ ker'.pcb[p].enadsp = k.pcb[p].enadsp /\ ker'.pcb[p].ipm = k.pcb[p].ipm
    BY <1>1 DEF FlagsKept
  <2> QED
    BY <1>2, <2>1 DEF PinnedAt, DispatchAt, pcb
<1>8. IInv'
  BY <1>1, <1>2, <1>3, <1>4, <1>5, <1>6, <1>7, LocalStep
<1>9. (TstatSuspended(ker, t) => TstatSuspended(ker', t)) => KeepsSuspended
  BY <1>1 DEF KeepsSuspended, TstatSuspended
<1> QED
  BY <1>8, <1>9

LEMMA ExitStep ==
    ASSUME IInv, NEW p \in Prc, mode[p] = "task",
           NEW k, Sound(k), k.tcb = ker.tcb, k.ipi = ker.ipi,
           k.pcb[p].dspflg, k.pcb[p].enadsp, ~k.pcb[p].ipm,
           \A q \in Prc \ {p} : k.pcb[q] = ker.pcb[q], ExitSelf(p, k)
    PROVE  IInv' /\ (~TstatSuspended(ker, run[p]) => KeepsSuspended)
<1> DEFINE t  == run[p]
           k1 == TaskTerminate(k, p, t, t)
           k2 == MakeActive(k1, p, t)
           elsewhere == ActivateElsewhere(k, p, t, t)
<1>1. t \in Tsk /\ Executes(p, t) /\ at \in [Prc -> Places] /\ TcbState(t, k.tcb[t])
  BY CallerFacts DEF IInv, TypeOK, StateOf
<1>2. /\ ker' = IF elsewhere THEN k2 ELSE k1
      /\ mode' = [mode EXCEPT ![p] = "disp"] /\ run' = run
      /\ at' = [at EXCEPT ![p] = "user"]
  BY DEF ExitSelf
<1>3. Ended(p, k, k1, t, k.tcb[t].actque /\ ~elsewhere) /\ ~k1.tcb[t].actque
  BY <1>1, TaskTerminateFacts
<1> HIDE DEF k1
<1>4. elsewhere => Ended(p, k, k2, t, TRUE) /\ ~k2.tcb[t].actque
  <2> SUFFICES ASSUME elsewhere
               PROVE  Ended(p, k, k2, t, TRUE) /\ ~k2.tcb[t].actque
    OBVIOUS
  <2>1. Ended(p, k, k1, t, FALSE) /\ k1.tcb[t].actque = FALSE
    <3>1. Ended(p, k, k1, t, FALSE)
      BY <1>3
    <3> QED
      BY <1>3, <3>1 DEF Ended, Changes, TCB
  <2>2. t \in Tsk /\ Ended(p, k, k1, t, FALSE)
    BY <1>1, <2>1
  <2> HIDE DEF t
  <2>3. Ended(p, k, k2, t, TRUE) /\ k2.tcb[t].actque = k1.tcb[t].actque
    BY <2>2, ActivateEnded
  <2> QED
    BY <2>1, <2>3
<1> HIDE DEF k2, elsewhere, t
<1>5. /\ Ended(p, k, ker', t, TRUE) \/ Ended(p, k, ker', t, FALSE)
      /\ ~ker'.tcb[t].actque
  BY <1>2, <1>3, <1>4 DEF Ended
<1>6. TcbState(t, ker'.tcb[t])
  BY <1>5, EndedState
<1>7. /\ Changes(p, k, ker', t) /\ StateOf(ker', t) /\ ~Deferred(ker', t)
      /\ ker'.tcb[t].tskctxb # "none" \/ TstatDormant(ker', t)
  BY <1>5, <1>6 DEF Ended, Cleared, Deferred, StateOf, TstatDormant, TstatSuspended, DORMANT
<1>8. /\ at' \in [Prc -> Places] /\ at'[p] # "locked"
      /\ \A q \in Prc \ {p} : at'[q] = at[q]
  BY <1>1, <1>2 DEF Places, Locations
<1>9. /\ IInv'
      /\ (TstatSuspended(ker, t) => TstatSuspended(ker', t)) => KeepsSuspended
  BY <1>1, <1>2, <1>7, <1>8, LeaveStep
<1> QED
  BY <1>9 DEF t

LEMMA CanActStep ==
    ASSUME IInv, NEW p \in Prc, can_act(p)
    PROVE  IInv' /\ KeepsSuspended
<1>1. PICK t \in Tsk : Return([ker EXCEPT !.tcb[t].actque = FALSE, !.tcb[t].actprc = NULL])
  BY DEF can_act
<1> DEFINE new == [tcb[t] EXCEPT !.actque = FALSE, !.actprc = NULL]
<1>2. /\ ker \in Kernel /\ tcb[t] \in TCB /\ mode[p] = "task" /\ at[p] = "user"
      /\ StateOf(ker, t)
  BY CallerFacts DEF can_act
<1>3. /\ new \in TCB /\ new.tstat = tcb[t].tstat /\ new.p_pcb = tcb[t].p_pcb
      /\ new.tskctxb = tcb[t].tskctxb
      /\ new.raster /\ new.enater => Deferred(ker, t)
      /\ SamePlace(ker, t, new)
  BY <1>2 DEF TCB, Deferred, SamePlace, CurrentSubpri, tcb
<1>4. TcbState(t, new)
  BY <1>2 DEF StateOf, TcbState, TCB, tcb
<1>5. SetTcb(ker, t, new) = [ker EXCEPT !.tcb[t].actque = FALSE, !.tcb[t].actprc = NULL]
  BY <1>2 DEF SetTcb, tcb, Kernel, TCB
<1>6. Return(SetTcb(ker, t, new))
  BY <1>1, <1>5
<1> HIDE DEF new
<1> QED
  BY <1>2, <1>3, <1>4, <1>6, FieldStep

\* Without sus_tsk and the migration of the calling task together, the caller
\* of mig_tsk for itself is runnable.
NoSelfMigrationSuspended == ~({"sus_tsk", "mig_self"} \subseteq Calls)

LEMMA RunningFacts ==
    ASSUME IInv, NEW p \in Prc, mode[p] = "task"
    PROVE  TstatRunnable(ker, run[p]) \/ TstatSuspended(ker, run[p])
<1>1. /\ run[p] \in Tsk /\ ~TstatDormant(ker, run[p]) /\ ~TstatWaiting(ker, run[p])
      /\ tcb[run[p]] \in TCB
  BY CallerFacts, ExecutesFacts
<1> QED
  BY <1>1 DEF TstatDormant, TstatWaiting, TstatRunnable, TstatSuspended, TCB, Bits,
              DORMANT, tcb

\* A task that executes where dispatching is enabled is not to be terminated.
LEMMA PendingFacts ==
    ASSUME IInv, NEW p \in Prc, NEW t \in Tsk, Executes(p, t), pcb[p].dspflg
    PROVE  ~Deferred(ker, t)
<1> SUFFICES ASSUME Deferred(ker, t) PROVE FALSE
  OBVIOUS
<1>1. PICK q \in Prc : Pins(q, t)
  BY DEF IInv, PendingOf
<1>2. Executes(q, t)
  BY <1>1 DEF IInv, PinnedAt, Pins, Executes
<1>3. p = q
  BY <1>2, ExecutesFacts
<1> QED
  BY <1>1, <1>3 DEF Pins

LEMMA MigrateStep ==
    ASSUME IInv, NEW p \in Prc, mode[p] = "task", at[p] = "user",
           NEW t \in Tsk, t # run[p], NEW prc \in affinity[t], MigrateTask(p, t, prc)
    PROVE  IInv' /\ KeepsSuspended
<1>1. /\ ker \in Kernel /\ Sound(ker) /\ tcb[t] \in TCB /\ StateOf(ker, t) /\ ContextOf(t)
      /\ tcb[t].p_pcb = p /\ prc \in Prc /\ run[p] \in Tsk /\ PinnedAt(p)
  BY CallerFacts, ConfigAssumption DEF MigrateTask, IInv
<1>2. \A q \in Prc : ~Executes(q, t)
  BY <1>1, ExecutesFacts DEF Executes
<1>3. tcb[t].tskctxb # "none" \/ TstatDormant(ker, t)
  BY <1>1 DEF ContextOf, Holds
<1>4. ASSUME NEW new \in TCB, NEW k1, Becomes(p, ker, k1, t, new), TcbState(t, new),
             new.tstat = tcb[t].tstat, new.tskctxb = tcb[t].tskctxb,
             new.raster = tcb[t].raster, new.enater = tcb[t].enater, Return(k1),
             Schedtsk(ker, p) = run[p] => Schedtsk(k1, p) = run[p]
      PROVE  IInv' /\ KeepsSuspended
  <2>1. Fits(p, ker, k1, t) /\ (TstatSuspended(ker, t) => TstatSuspended(k1, t))
    BY <1>1, <1>2, <1>3, <1>4 DEF Becomes, Fits, StateOf, Deferred, TstatDormant,
                                  TstatSuspended, tcb
  <2> QED
    BY <1>4, <2>1, CallOn DEF Becomes, Finish
<1>5. CASE TstatRunnable(ker, t)
  <2> DEFINE new == [tcb[t] EXCEPT !.p_pcb = prc]
             kn  == MakeNonRunnable(ker, p, t)
             k1  == MakeRunnable(SetTcb(kn, t, new), p, t)
  <2>1. /\ new \in TCB /\ new.tstat = tcb[t].tstat /\ new.tskctxb = tcb[t].tskctxb
        /\ new.raster = tcb[t].raster /\ new.enater = tcb[t].enater
        /\ new.priority = tcb[t].priority /\ new.subpri = tcb[t].subpri
        /\ new.boosted = tcb[t].boosted /\ "RUNNABLE" \in new.tstat
    BY <1>1, <1>5 DEF TCB, TstatRunnable, tcb
  <2>2. TcbState(t, new)
    <3>1. tcb[t].tstat = {"RUNNABLE"}
      BY <1>1, <1>5 DEF TcbState, StateOf, TstatRunnable, tcb
    <3> QED
      BY <1>1, <3>1 DEF TcbState, StateOf, TCB, DORMANT, tcb
  <2>3. Return(MakeRunnable([kn EXCEPT !.tcb[t].p_pcb = prc], p, t))
    BY <1>5 DEF MigrateTask, MigrateOther
  <2>4. Becomes(p, ker, k1, t, new)
    <3> HIDE DEF new
    <3> QED
      BY <1>1, <1>5, <2>1, MoveChanges
  <2>5. Requeued(p, ker, kn, Ready(ker) \ {t})
    BY <1>1, <1>5, MakeNonRunnableFacts DEF Sound, Ready
  <2>6. Schedtsk(ker, p) = run[p] => Schedtsk(k1, p) = run[p]
    <3> SUFFICES ASSUME Schedtsk(ker, p) = run[p] PROVE Schedtsk(k1, p) = run[p]
      OBVIOUS
    <3>1. CASE ker.pcb[p].dspflg
      <4> HIDE DEF new
      <4> QED
        BY <1>1, <1>5, <2>1, <3>1, MoveStays DEF tcb
    <3>2. CASE ~ker.pcb[p].dspflg
      <4> HIDE DEF k1
      <4> QED
        BY <2>4, <3>2 DEF Becomes, Changes, FlagsKept
    <3> QED
      BY <3>1, <3>2
  <2> HIDE DEF kn
  <2>7. kn.tcb = ker.tcb
    BY <2>5 DEF Requeued, Updated
  <2>8. [kn EXCEPT !.tcb[t].p_pcb = prc] = SetTcb(kn, t, new)
    BY <2>7 DEF SetTcb, tcb
  <2>9. Return(k1)
    BY <2>3, <2>8
  <2> HIDE DEF new, k1
  <2> QED
    BY <1>4, <2>1, <2>2, <2>4, <2>6, <2>9
<1>6. CASE ~TstatRunnable(ker, t)
  <2> DEFINE new == [tcb[t] EXCEPT
                        !.p_pcb = prc,
                        !.tmevtb = IF TstatWaiting(ker, t) /\ @ # NULL THEN prc ELSE @]
  <2>1. /\ new \in TCB /\ new.tstat = tcb[t].tstat /\ new.tskctxb = tcb[t].tskctxb
        /\ new.raster = tcb[t].raster /\ new.enater = tcb[t].enater
        /\ "RUNNABLE" \notin new.tstat
    BY <1>1, <1>6 DEF TCB, TstatRunnable, tcb
  <2>2. TcbState(t, new)
    <3>1. new.tmevtb # NULL => TstatWaiting(ker, t) /\ new.tmevtb = new.p_pcb
      BY <1>1 DEF TcbState, StateOf, TstatWaiting, TCB, tcb
    <3> QED
      BY <1>1, <3>1 DEF TcbState, StateOf, TstatWaiting, TCB, tcb
  <2>3. [ker EXCEPT !.tcb[t].p_pcb = prc,
                    !.tcb[t].tmevtb = IF TstatWaiting(ker, t) /\ @ # NULL THEN prc ELSE @]
        = SetTcb(ker, t, new)
    BY <1>1 DEF SetTcb, tcb, Kernel, TCB
  <2>4. Return(SetTcb(ker, t, new))
    BY <1>6, <2>3 DEF MigrateTask, MigrateBlocked
  <2> HIDE DEF new
  <2>5. Becomes(p, ker, SetTcb(ker, t, new), t, new)
    BY <1>1, <1>6, <2>1, SetChanges
  <2>6. Schedtsk(SetTcb(ker, t, new), p) = Schedtsk(ker, p)
    BY DEF SetTcb, Schedtsk
  <2> QED
    BY <1>4, <2>1, <2>2, <2>4, <2>5, <2>6
<1> QED
  BY <1>5, <1>6

LEMMA MigrateSelfStep ==
    ASSUME IInv, NEW p \in Prc, mode[p] = "task", at[p] = "user", pcb[p].dspflg,
           TstatRunnable(ker, run[p]), NEW prc \in affinity[run[p]], MigrateSelf(p, prc)
    PROVE  IInv' /\ KeepsSuspended
<1> DEFINE t   == run[p]
           new == [tcb[t] EXCEPT !.p_pcb = prc, !.tskctxb = "user"]
           kn  == MakeNonRunnable(ker, p, t)
           k2  == MakeRunnable(SetTcb(kn, t, new), p, t)
<1>1. /\ ker \in Kernel /\ Sound(ker) /\ t \in Tsk /\ Executes(p, t)
      /\ tcb[t] \in TCB /\ StateOf(ker, t) /\ at \in [Prc -> Places]
      /\ prc \in Prc /\ DispatchAt(p) /\ PendingOf(t) /\ ~Deferred(ker, t)
  <2>1. /\ ker \in Kernel /\ Sound(ker) /\ t \in Tsk /\ Executes(p, t)
        /\ tcb[t] \in TCB /\ StateOf(ker, t) /\ at \in [Prc -> Places]
        /\ DispatchAt(p) /\ PendingOf(t)
    BY CallerFacts DEF IInv, TypeOK
  <2>2. ~Deferred(ker, t)
    BY <2>1, PendingFacts
  <2> QED
    BY <2>1, <2>2, ConfigAssumption
<1>2. /\ new \in TCB /\ new.tstat = tcb[t].tstat /\ new.tskctxb = "user"
      /\ new.raster = tcb[t].raster /\ new.enater = tcb[t].enater
      /\ "RUNNABLE" \in new.tstat /\ TcbState(t, new)
  <2>1. /\ new \in TCB /\ new.tstat = tcb[t].tstat /\ new.tskctxb = "user"
        /\ new.raster = tcb[t].raster /\ new.enater = tcb[t].enater
    BY <1>1 DEF TCB, Contexts, Locations
  <2>2. tcb[t].tstat = {"RUNNABLE"}
    BY <1>1 DEF TcbState, StateOf, TstatRunnable, tcb
  <2>3. TcbState(t, new)
    BY <1>1, <2>2 DEF TcbState, StateOf, TCB, DORMANT, tcb
  <2> QED
    BY <2>1, <2>2, <2>3
<1>3. /\ ker' = MakeRunnable([kn EXCEPT !.tcb[t].p_pcb = prc, !.tcb[t].tskctxb = "user"], p, t)
      /\ mode' = [mode EXCEPT ![p] = "disp"] /\ run' = run /\ at' = at
  BY DEF MigrateSelf
<1>4. Requeued(p, ker, kn, Ready(ker) \ {t})
  BY <1>1, MakeNonRunnableFacts DEF Sound, Ready
<1>5. Becomes(p, ker, k2, t, new)
  <2> HIDE DEF new, t
  <2> QED
    BY <1>1, <1>2, MoveChanges DEF t
<1> HIDE DEF kn
<1>6. kn.tcb = ker.tcb /\ kn \in Kernel
  BY <1>4 DEF Requeued, Updated
<1>7. [kn EXCEPT !.tcb[t].p_pcb = prc, !.tcb[t].tskctxb = "user"] = SetTcb(kn, t, new)
  <2> HIDE DEF t
  <2> QED
    BY <1>1, <1>6 DEF SetTcb, tcb, Kernel, TCB
<1>8. ker' = k2
  BY <1>3, <1>7
<1> HIDE DEF new, k2, t
<1>9. Changes(p, ker, k2, t) /\ k2.tcb[t] = new
  BY <1>5 DEF Becomes
<1>10. /\ StateOf(k2, t) /\ k2.tcb[t].tskctxb # "none" /\ ~Deferred(k2, t)
       /\ TstatSuspended(ker, t) => TstatSuspended(k2, t)
  BY <1>1, <1>2, <1>9 DEF StateOf, Deferred, TstatSuspended, tcb
<1>11. at'[p] # "locked" /\ ker.pcb[p].dspflg /\ ker.pcb[p].enadsp /\ ~ker.pcb[p].ipm
  BY <1>1, <1>3 DEF DispatchAt, pcb
<1> QED
  BY <1>1, <1>3, <1>8, <1>9, <1>10, <1>11, LeaveStep

LEMMA MigSelfStep ==
    ASSUME IInv, NoSelfMigrationSuspended, NEW p \in Prc, mig_self(p)
    PROVE  IInv' /\ KeepsSuspended
<1>1. /\ mode[p] = "task" /\ at[p] = "user" /\ pcb[p].dspflg /\ run[p] \in Tsk
      /\ "mig_self" \in Calls /\ StateOf(ker, run[p])
  BY CallerFacts DEF mig_self, InTask
<1>2. PICK prc \in affinity[run[p]] : MigrateTask(p, run[p], prc)
  BY DEF mig_self
<1>3. TstatRunnable(ker, run[p])
  BY <1>1, RunningFacts DEF NoSelfMigrationSuspended, StateOf
<1> QED
  BY <1>1, <1>2, <1>3, MigrateSelfStep DEF MigrateTask

LEMMA MigTskStep ==
    ASSUME IInv, NEW p \in Prc, mig_tsk(p)
    PROVE  IInv' /\ KeepsSuspended
<1>1. mode[p] = "task" /\ at[p] = "user"
  BY DEF mig_tsk, InTask
<1>2. PICK t \in Tsk \ {run[p]} : \E prc \in affinity[t] : MigrateTask(p, t, prc)
  BY DEF mig_tsk
<1>3. PICK prc \in affinity[t] : MigrateTask(p, t, prc)
  BY <1>2
<1> QED
  BY <1>1, <1>3, MigrateStep

\* The call has changed the place of the task in the queues at most.
LEMMA BecomesStep ==
    ASSUME IInv, NEW p \in Prc, mode[p] \in {"task", "int"}, at[p] # "locked",
           NEW t \in Tsk, NEW new, NEW k1, Becomes(p, ker, k1, t, new), TcbState(t, new),
           new.tstat = tcb[t].tstat, new.p_pcb = tcb[t].p_pcb,
           new.tskctxb = tcb[t].tskctxb,
           new.raster /\ new.enater => Deferred(ker, t), Finish(p, k1)
    PROVE  IInv' /\ KeepsSuspended
<1>1. StateOf(ker, t)
  BY DEF IInv
<1>2. Fits(p, ker, k1, t) /\ (TstatSuspended(ker, t) => TstatSuspended(k1, t))
  BY <1>1 DEF Becomes, Fits, StateOf, Deferred, Calm, TstatDormant, TstatSuspended,
              TstatWaiting, tcb
<1> QED
  BY <1>2, CallOn DEF Becomes

LEMMA ChgPriStep ==
    ASSUME IInv, NEW p \in Prc, chg_pri(p)
    PROVE  IInv' /\ KeepsSuspended
<1>1. PICK t \in Tsk, pri \in Pri :
         LET k == [ker EXCEPT !.tcb[t].bpriority = pri]
         IN  IF tcb[t].boosted THEN Return(k)
             ELSE EndCall(p, ChangePriority(k, p, t, pri, FALSE))
  BY DEF chg_pri
<1> DEFINE k0  == [ker EXCEPT !.tcb[t].bpriority = pri]
           nw0 == [tcb[t] EXCEPT !.bpriority = pri]
           nw1 == [nw0 EXCEPT !.priority = pri]
           k1  == ChangePriority(k0, p, t, pri, FALSE)
<1>2. /\ ker \in Kernel /\ Sound(ker) /\ tcb[t] \in TCB /\ mode[p] = "task"
      /\ at[p] = "user" /\ StateOf(ker, t)
  BY CallerFacts DEF chg_pri
<1>3. /\ nw0 \in TCB /\ nw0.tstat = tcb[t].tstat /\ nw0.p_pcb = tcb[t].p_pcb
      /\ nw0.tskctxb = tcb[t].tskctxb /\ SamePlace(ker, t, nw0)
      /\ nw0.raster /\ nw0.enater => Deferred(ker, t)
      /\ nw1.tstat = tcb[t].tstat /\ nw1.p_pcb = tcb[t].p_pcb
      /\ nw1.tskctxb = tcb[t].tskctxb
      /\ nw1.raster /\ nw1.enater => Deferred(ker, t)
  BY <1>2 DEF TCB, Deferred, SamePlace, CurrentSubpri, tcb
<1>12. TcbState(t, nw0) /\ TcbState(t, nw1)
  BY <1>2 DEF TcbState, StateOf, TCB, tcb
<1>4. k0 = SetTcb(ker, t, nw0)
  BY DEF SetTcb, tcb
<1>5. IF tcb[t].boosted THEN Return(k0) ELSE EndCall(p, k1)
  BY <1>1
<1> HIDE DEF k0, nw0
<1>6. Becomes(p, ker, k0, t, nw0)
  BY <1>2, <1>3, <1>4, SetChanges DEF TstatRunnable, tcb
<1>7. Sound(k0) /\ k0.tcb[t] = nw0
  BY <1>6 DEF Becomes, Changes
<1>8. Becomes(p, k0, k1, t, nw1)
  BY <1>7, ChangePriorityChanges
<1> HIDE DEF k1, nw1
<1>9. Becomes(p, ker, k1, t, nw1)
  BY <1>6, <1>8, ChangesTrans DEF Becomes
<1>10. CASE tcb[t].boosted
  <2>1. Schedtsk(k0, p) = Schedtsk(ker, p)
    BY <1>4 DEF SetTcb, Schedtsk
  <2>2. Finish(p, k0)
    BY <1>5, <1>10, <2>1 DEF Finish
  <2> QED
    BY <1>2, <1>3, <1>6, <1>12, <2>2, BecomesStep
<1>11. CASE ~tcb[t].boosted
  <2>1. Finish(p, k1)
    BY <1>5, <1>11 DEF Finish
  <2> QED
    BY <1>2, <1>3, <1>9, <1>12, <2>1, BecomesStep
<1> QED
  BY <1>10, <1>11

LEMMA ChgSprStep ==
    ASSUME IInv, NEW p \in Prc, chg_spr(p)
    PROVE  IInv' /\ KeepsSuspended
<1>1. PICK t \in Tsk, subpri \in SubPri :
         IF TstatRunnable(ker, t) /\ tcb[t].priority \in SubprioPri /\ ~tcb[t].boosted
           THEN EndCall(p, ChangeSubprio(ker, p, t, subpri, tcb[t].p_pcb))
           ELSE Return([ker EXCEPT !.tcb[t].subpri = subpri])
  BY DEF chg_spr
<1> DEFINE new == [tcb[t] EXCEPT !.subpri = subpri]
           k1  == ChangeSubprio(ker, p, t, subpri, tcb[t].p_pcb)
           changes == TstatRunnable(ker, t) /\ tcb[t].priority \in SubprioPri
<1>2. /\ ker \in Kernel /\ Sound(ker) /\ tcb[t] \in TCB /\ mode[p] = "task"
      /\ at[p] = "user" /\ StateOf(ker, t)
  BY CallerFacts DEF chg_spr
<1>3. /\ new \in TCB /\ new.tstat = tcb[t].tstat /\ new.p_pcb = tcb[t].p_pcb
      /\ new.tskctxb = tcb[t].tskctxb
      /\ new.raster /\ new.enater => Deferred(ker, t)
      /\ tcb[t].priority \notin SubprioPri \/ tcb[t].boosted => SamePlace(ker, t, new)
  BY <1>2 DEF TCB, Deferred, SamePlace, CurrentSubpri, tcb
<1>9. TcbState(t, new)
  BY <1>2 DEF TcbState, StateOf, TCB, tcb
<1>4. changes => Becomes(p, ker, k1, t, new)
  BY <1>2, ChangeSubprioChanges DEF tcb
<1>5. [ker EXCEPT !.tcb[t].subpri = subpri] = SetTcb(ker, t, new)
  BY DEF SetTcb, tcb
<1>6. \/ /\ Return(SetTcb(ker, t, new))
         /\ TstatRunnable(ker, t) => SamePlace(ker, t, new)
      \/ changes /\ EndCall(p, k1)
  <2> HIDE DEF new
  <2> QED
    BY <1>1, <1>3, <1>5
<1> HIDE DEF new, k1, changes
<1>7. CASE /\ Return(SetTcb(ker, t, new))
           /\ TstatRunnable(ker, t) => SamePlace(ker, t, new)
  BY <1>2, <1>3, <1>7, <1>9, FieldStep
<1>8. CASE changes /\ EndCall(p, k1)
  BY <1>2, <1>3, <1>4, <1>8, <1>9, BecomesStep DEF Finish
<1> QED
  BY <1>6, <1>7, <1>8

LEMMA RotateStep ==
    ASSUME IInv, NEW p \in Prc, mode[p] \in {"task", "int"}, at[p] # "locked",
           NEW pri \in Pri \ SubprioPri, NEW prc \in Prc,
           EndCall(p, RotateReadyQueue(ker, p, pri, prc))
    PROVE  IInv' /\ KeepsSuspended
<1> DEFINE k1 == RotateReadyQueue(ker, p, pri, prc)
<1>1. Sound(k1) /\ k1.tcb = ker.tcb /\ FlagsKept(p, ker, k1)
  BY CallerFacts, RotateChanges
<1> HIDE DEF k1
<1>2. Finish(p, k1) /\ ker' = k1
  BY DEF k1, Finish, EndCall
<1>3. ASSUME NEW u \in Tsk PROVE Fits(p, ker, k1, u)
  <2>1. k1.tcb[u] = ker.tcb[u] /\ StateOf(ker, u)
    BY <1>1 DEF IInv
  <2> QED
    BY <2>1 DEF Fits, StateOf, Deferred, Calm, TstatDormant, TstatSuspended, TstatWaiting
<1>4. IInv'
  BY <1>1, <1>2, <1>3, CallStep
<1>5. KeepsSuspended
  BY <1>1, <1>2 DEF KeepsSuspended, TstatSuspended
<1> QED
  BY <1>4, <1>5

LEMMA ExtTskStep ==
    ASSUME IInv, NEW p \in Prc, ext_tsk(p)
    PROVE  IInv'
<1> DEFINE new == [pcb[p] EXCEPT !.enadsp = TRUE]
           ke  == [ker EXCEPT !.pcb[p].enadsp = TRUE]
           k   == IF pcb[p].dspflg THEN ker ELSE SetDspflg(ke, p)
<1>1. mode[p] = "task" /\ ExitSelf(p, k)
  BY DEF ext_tsk
<1>2. ker \in Kernel /\ Sound(ker) /\ pcb[p] \in PCB /\ DispatchAt(p)
  BY CallerFacts DEF Kernel, IInv, pcb
<1>3. /\ Sound(k) /\ k.tcb = ker.tcb /\ k.ipi = ker.ipi
      /\ k.pcb[p].dspflg /\ k.pcb[p].enadsp /\ ~k.pcb[p].ipm
      /\ \A q \in Prc \ {p} : k.pcb[q] = ker.pcb[q]
  <2>1. CASE pcb[p].dspflg
    BY <1>2, <2>1 DEF DispatchAt, pcb
  <2>2. CASE ~pcb[p].dspflg
    <3>1. /\ new \in PCB /\ new.p_schedtsk = pcb[p].p_schedtsk
          /\ new.ready_queue = pcb[p].ready_queue /\ new.ready_primap = pcb[p].ready_primap
          /\ new.dspflg = pcb[p].dspflg /\ new.enadsp
      BY <1>2 DEF PCB
    <3>2. ke = SetPcb(ker, p, new)
      BY DEF SetPcb, pcb
    <3> HIDE DEF new, ke
    <3>3. Flagged(ker, ke, p) /\ ke.pcb[p].enadsp
      BY <1>2, <3>1, <3>2, SetPcbFacts DEF pcb
    <3>4. /\ Flagged(ke, SetDspflg(ke, p), p)
          /\ SetDspflg(ke, p).pcb[p].dspflg /\ ~SetDspflg(ke, p).pcb[p].ipm
          /\ SetDspflg(ke, p).pcb[p].enadsp = ke.pcb[p].enadsp
      BY <3>3, SetDspflgChanges DEF Flagged
    <3> QED
      BY <2>2, <3>3, <3>4 DEF Flagged
  <2> QED
    BY <2>1, <2>2
<1> HIDE DEF k
<1> QED
  BY <1>1, <1>3, ExitStep

LEMMA TerminateStep ==
    ASSUME IInv, NEW p \in Prc, mode[p] = "task", at[p] = "user",
           NEW t \in Tsk \ {run[p]}, tcb[t].p_pcb = p,
           EndCall(p, TaskTerminate(ker, p, t, run[p]))
    PROVE  IInv'
<1> DEFINE k1    == TaskTerminate(ker, p, t, run[p])
           again == ker.tcb[t].actque /\ ~ActivateElsewhere(ker, p, t, run[p])
<1>1. \A q \in Prc : ~Executes(q, t)
  BY ExecutesFacts DEF Executes
<1>2. Ended(p, ker, k1, t, again) /\ ~k1.tcb[t].actque
  <2>1. Sound(ker) /\ TcbState(t, ker.tcb[t])
    BY CallerFacts DEF StateOf
  <2> QED
    BY <2>1, TaskTerminateFacts
<1>3. Finish(p, k1)
  BY DEF Finish
<1> HIDE DEF k1, again
<1>4. Ended(p, ker, k1, t, TRUE) \/ Ended(p, ker, k1, t, FALSE)
  BY <1>2 DEF Ended
<1>5. Fits(p, ker, k1, t)
  BY <1>1, <1>2, <1>4, EndedFits
<1> QED
  BY <1>3, <1>4, <1>5, CallOn DEF Ended

\* The task stays alive where it is; it may have been released or suspended.
LEMMA ShiftStep ==
    ASSUME IInv, NEW p \in Prc, mode[p] \in {"task", "int"}, at[p] # "locked",
           NEW t \in Tsk, NEW new, NEW k1, Becomes(p, ker, k1, t, new),
           new.p_pcb = tcb[t].p_pcb, new.tskctxb = tcb[t].tskctxb,
           ~TstatDormant(ker, t), new.tstat # DORMANT, TcbState(t, new),
           "SUSPENDED" \in new.tstat => "sus_tsk" \in Calls,
           new.tstat \cap {"SLP", "DLY"} # {} => TstatWaiting(ker, t),
           new.raster /\ new.enater => Deferred(ker, t), Finish(p, k1)
    PROVE  /\ IInv'
           /\ (TstatSuspended(ker, t) => "SUSPENDED" \in new.tstat) => KeepsSuspended
<1>1. Fits(p, ker, k1, t) /\ (TstatSuspended(k1, t) <=> "SUSPENDED" \in new.tstat)
  BY DEF Becomes, Fits, StateOf, Deferred, Calm, TstatDormant, TstatSuspended,
         TstatWaiting, tcb
<1> QED
  BY <1>1, CallOn DEF Becomes

LEMMA RasTerStep ==
    ASSUME IInv, NEW p \in Prc, ras_ter(p)
    PROVE  IInv'
<1>1. PICK t \in Tsk \ {run[p]} :
         /\ tcb[t].p_pcb = p /\ ~TstatDormant(ker, t)
         /\ IF tcb[t].enater THEN EndCall(p, TaskTerminate(ker, p, t, run[p]))
                             ELSE RequestTermination(p, t)
  BY DEF ras_ter
<1>2. /\ ker \in Kernel /\ Sound(ker) /\ tcb[t] \in TCB /\ mode[p] = "task"
      /\ at[p] = "user" /\ StateOf(ker, t)
  BY CallerFacts DEF ras_ter
<1>3. CASE EndCall(p, TaskTerminate(ker, p, t, run[p]))
  BY <1>1, <1>2, <1>3, TerminateStep
<1>4. CASE RequestTermination(p, t) /\ ~tcb[t].enater
  <2> DEFINE nw1 == [tcb[t] EXCEPT !.raster = TRUE]
             k1  == [ker EXCEPT !.tcb[t].raster = TRUE]
             nw2 == IF TstatWaiting(ker, t) THEN [nw1 EXCEPT !.tmevtb = NULL] ELSE nw1
             k2  == IF TstatWaiting(ker, t) THEN WaitDequeueTmevtb(k1, t) ELSE k1
             nw3 == [nw2 EXCEPT !.tstat = {"RUNNABLE"}]
             k3  == MakeRunnable([k2 EXCEPT !.tcb[t].tstat = {"RUNNABLE"}], p, t)
  <2>1. /\ nw1 \in TCB /\ nw1.tstat = tcb[t].tstat /\ nw1.p_pcb = tcb[t].p_pcb
        /\ nw1.tskctxb = tcb[t].tskctxb /\ SamePlace(ker, t, nw1)
        /\ ~nw1.enater /\ nw1.wupque = tcb[t].wupque
        /\ nw1.actque = tcb[t].actque /\ nw1.actprc = tcb[t].actprc
        /\ nw1.tmevtb = tcb[t].tmevtb
    BY <1>2, <1>4 DEF TCB, SamePlace, CurrentSubpri, tcb
  <2>13. /\ tcb[t].tstat # DORMANT /\ TcbState(t, tcb[t])
         /\ TstatWaiting(ker, t) <=> tcb[t].tstat \cap {"SLP", "DLY"} # {}
    BY <1>1, <1>2 DEF StateOf, TstatDormant, TstatWaiting, tcb
  <2>14. TstatRunnable(ker, t) => TcbState(t, nw1)
    BY <2>1, <2>13 DEF TcbState, TstatRunnable, tcb
  <2>2. k1 = SetTcb(ker, t, nw1)
    BY DEF SetTcb, tcb
  <2>3. IF TstatRunnable(ker, t) THEN Return(k1) ELSE EndCall(p, k3)
    BY <1>4 DEF RequestTermination
  <2> HIDE DEF k1, nw1
  <2>4. Becomes(p, ker, k1, t, nw1)
    BY <1>2, <2>1, <2>2, SetChanges DEF TstatRunnable, tcb
  <2>5. Sound(k1) /\ k1.tcb[t] = nw1
    BY <2>4 DEF Becomes, Changes
  <2>6. Becomes(p, k1, k2, t, nw2)
    <3>1. CASE TstatWaiting(ker, t)
      BY <2>5, <3>1, DequeueTmevtbFacts
    <3>2. CASE ~TstatWaiting(ker, t)
      BY <2>1, <2>5, <3>2 DEF Becomes, Changes, FlagsKept
    <3> QED
      BY <3>1, <3>2
  <2>7. /\ nw2 \in TCB /\ nw2.tstat = tcb[t].tstat /\ nw2.p_pcb = tcb[t].p_pcb
        /\ nw2.tskctxb = tcb[t].tskctxb /\ ~nw2.enater
        /\ nw2.actque = tcb[t].actque /\ nw2.actprc = tcb[t].actprc
        /\ nw2.tmevtb = NULL
    BY <2>1, <2>13 DEF TCB, TcbState
  <2> HIDE DEF k2, nw2
  <2>8. Sound(k2) /\ k2.tcb[t] = nw2
    BY <2>6 DEF Becomes, Changes
  <2>9. [k2 EXCEPT !.tcb[t].tstat = {"RUNNABLE"}] = SetTcb(k2, t, nw3)
    BY <2>8 DEF SetTcb
  <2>10. /\ nw3 \in TCB /\ nw3.tstat = {"RUNNABLE"} /\ nw3.p_pcb = tcb[t].p_pcb
         /\ nw3.tskctxb = tcb[t].tskctxb /\ ~nw3.enater
         /\ nw3.actque = tcb[t].actque /\ nw3.actprc = tcb[t].actprc
         /\ nw3.tmevtb = NULL
    BY <2>7 DEF TCB, Bits
  <2>15. TcbState(t, nw3)
    BY <2>10, <2>13 DEF TcbState, DORMANT
  <2>11. CASE TstatRunnable(ker, t)
    <3>1. Schedtsk(k1, p) = Schedtsk(ker, p)
      BY <2>2 DEF SetTcb, Schedtsk
    <3>2. Finish(p, k1)
      BY <2>3, <2>11, <3>1 DEF Finish
    <3> QED
      BY <1>2, <2>1, <2>4, <2>11, <2>14, <3>2, BecomesStep
  <2>12. CASE ~TstatRunnable(ker, t)
    <3>1. ~TstatRunnable(k2, t)
      BY <2>7, <2>8, <2>12 DEF TstatRunnable, tcb
    <3> HIDE DEF nw3
    <3>2. Becomes(p, k2, MakeRunnable(SetTcb(k2, t, nw3), p, t), t, nw3)
      BY <2>8, <2>10, <3>1, RunChanges
    <3>3. Becomes(p, k2, k3, t, nw3)
      BY <2>9, <3>2
    <3> HIDE DEF k3
    <3>4. Becomes(p, ker, k3, t, nw3)
      BY <2>4, <2>6, <3>3, ChangesTrans DEF Becomes
    <3> QED
      BY <1>1, <1>2, <2>3, <2>10, <2>12, <2>15, <3>4, ShiftStep DEF DORMANT, Finish
  <2> QED
    BY <2>11, <2>12
<1>5. tcb[t].enater \/ ~tcb[t].enater
  OBVIOUS
<1> QED
  BY <1>1, <1>3, <1>4, <1>5

LEMMA EnaterStep ==
    ASSUME IInv, NEW p \in Prc, dis_ter(p) \/ ena_ter(p)
    PROVE  IInv' /\ KeepsSuspended
<1>1. /\ ker \in Kernel /\ Sound(ker) /\ mode[p] = "task" /\ at[p] = "user"
      /\ run[p] \in Tsk /\ tcb[run[p]] \in TCB
      /\ StateOf(ker, run[p]) /\ ~TstatDormant(ker, run[p])
  <2>1. /\ ker \in Kernel /\ Sound(ker) /\ mode[p] = "task" /\ at[p] = "user"
        /\ run[p] \in Tsk /\ Executes(p, run[p])
        /\ \A t \in Tsk : tcb[t] \in TCB /\ StateOf(ker, t)
    BY CallerFacts DEF dis_ter, ena_ter
  <2> QED
    BY <2>1, ExecutesFacts
<1>2. ASSUME NEW b \in BOOLEAN, Return([ker EXCEPT !.tcb[run[p]].enater = b]),
             b => ~tcb[run[p]].raster \/ Pins(p, run[p])
      PROVE  IInv' /\ KeepsSuspended
  <2> DEFINE t   == run[p]
             new == [tcb[t] EXCEPT !.enater = b]
  <2>1. [ker EXCEPT !.tcb[t].enater = b] = SetTcb(ker, t, new)
    BY DEF SetTcb, tcb
  <2>2. /\ new \in TCB /\ new.tstat = tcb[t].tstat /\ new.p_pcb = tcb[t].p_pcb
        /\ new.tskctxb = tcb[t].tskctxb /\ SamePlace(ker, t, new)
        /\ new.raster /\ new.enater => Pins(p, t)
    BY <1>1, <1>2 DEF TCB, SamePlace, CurrentSubpri, tcb
  <2>3. TcbState(t, new)
    BY <1>1 DEF TcbState, StateOf, TstatDormant, TCB, tcb
  <2>4. Return(SetTcb(ker, t, new))
    BY <1>2, <2>1
  <2> HIDE DEF new
  <2> QED
    BY <1>1, <2>2, <2>3, <2>4, FieldStep
<1>3. CASE tcb[run[p]].raster /\ pcb[p].dspflg /\ ExitSelf(p, ker)
  <2>1. ~TstatSuspended(ker, run[p])
    BY <1>1, <1>3 DEF StateOf, TcbState, TstatSuspended, tcb
  <2>2. DispatchAt(p)
    BY DEF IInv
  <2> QED
    BY <1>1, <1>3, <2>1, <2>2, ExitStep DEF DispatchAt, pcb
<1>4. CASE ena_ter(p)
  BY <1>2, <1>3, <1>4 DEF ena_ter, Pins
<1> QED
  BY <1>2, <1>4 DEF dis_ter

\* The caller waits: it executes dispatch, and is assigned to its processor
\* until its context is saved.
LEMMA WaitStep ==
    ASSUME IInv, NEW p \in Prc, mode[p] = "task", at[p] = "user", pcb[p].dspflg,
           NEW new, NEW k1, Becomes(p, ker, k1, run[p], new),
           new.p_pcb = tcb[run[p]].p_pcb, new.tskctxb = tcb[run[p]].tskctxb,
           new.tstat # DORMANT, TcbState(run[p], new), ~new.raster,
           "SUSPENDED" \in new.tstat <=> TstatSuspended(ker, run[p]),
           WaitCall(p, k1)
    PROVE  IInv' /\ KeepsSuspended
<1> DEFINE t == run[p]
<1>1. /\ t \in Tsk /\ Executes(p, t) /\ StateOf(ker, t) /\ ContextOf(t)
      /\ tcb[t].p_pcb = p /\ tcb[t].tskctxb = "none"
  BY CallerFacts, ExecutesFacts
<1>2. /\ ker' = k1 /\ run' = run /\ at' = at /\ run \in [Prc -> Tsk \cup {NULL}]
      /\ mode' \in [Prc -> Modes] /\ at \in [Prc -> Places] /\ mode'[p] = "save"
      /\ \A q \in Prc \ {p} : mode'[q] = mode[q]
  BY DEF IInv, TypeOK, WaitCall, Modes
<1> HIDE DEF t
<1>3. /\ Sound(k1) /\ FlagsKept(p, ker, k1) /\ k1.tcb[t] = new
      /\ \A u \in Tsk \ {t} : k1.tcb[u] = ker.tcb[u]
  BY DEF Becomes, Changes, t
<1>4. Local(p)
  BY <1>2, <1>3, LocalFacts
<1>5. ASSUME NEW u \in Tsk, NEW q \in Prc \ {p}, Executes(q, u) PROVE Calm(ker, ker', u)
  <2>1. u # t
    BY <1>1, <1>5, ExecutesFacts
  <2> QED
    BY <1>2, <1>3, <2>1 DEF Calm, TstatDormant, TstatWaiting
<1>6. ASSUME NEW u \in Tsk PROVE StateOf(ker', u) /\ ContextOf(u)' /\ KeepsPending(p, u)
  <2>1. CASE u = t
    <3>1. StateOf(ker', u) /\ KeepsPending(p, u)
      BY <1>1, <1>2, <1>3, <2>1 DEF StateOf, TstatSuspended, KeepsPending, Deferred, t
    <3>2. Holds(p, t)'
      BY <1>1, <1>2 DEF Holds, t
    <3>3. ContextOf(u)'
      BY <1>1, <1>2, <1>3, <2>1, <3>2 DEF ContextOf, tcb, t
    <3> QED
      BY <3>1, <3>3
  <2>2. CASE u # t
    <3>1. ker'.tcb[u] = ker.tcb[u] /\ StateOf(ker, u) /\ ContextOf(u)
      BY <1>2, <1>3, <2>2 DEF IInv
    <3>2. StateOf(ker', u) /\ KeepsPending(p, u)
      BY <2>2, <3>1 DEF StateOf, TstatSuspended, KeepsPending, Deferred, Pins, t
    <3>3. \A q \in Prc : Holds(q, u) => Holds(q, u)'
      BY <1>2, <2>2 DEF Holds
    <3>4. tcb[u].p_pcb \in Prc
      BY KernelFields DEF IInv, Sound, tcb
    <3> QED
      BY <3>1, <3>2, <3>3, <3>4 DEF ContextOf, TstatDormant, tcb
  <2> QED
    BY <2>1, <2>2
<1>7. PlaceAt(p)'
  BY <1>2 DEF PlaceAt
<1>8. HoldAt(p)'
  <2>1. run'[p] = t /\ t # NULL
    BY <1>1, <1>2, ConfigAssumption DEF t
  <2> QED
    BY <1>1, <1>2, <1>3, <2>1 DEF HoldAt, TstatDormant, tcb, t
<1>9. PinnedAt(p)' /\ DispatchAt(p)'
  <2>1. /\ k1.pcb[p].dspflg = ker.pcb[p].dspflg
        /\ k1.pcb[p].enadsp = ker.pcb[p].enadsp /\ k1.pcb[p].ipm = ker.pcb[p].ipm
    BY <1>3 DEF FlagsKept
  <2>2. DispatchAt(p)
    BY DEF IInv
  <2> QED
    BY <1>2, <2>1, <2>2 DEF PinnedAt, DispatchAt, pcb
<1>10. IInv'
  BY <1>2, <1>3, <1>4, <1>5, <1>6, <1>7, <1>8, <1>9, LocalStep
<1>11. KeepsSuspended
  BY <1>2, <1>3 DEF KeepsSuspended, TstatSuspended, t
<1> QED
  BY <1>10, <1>11

LEMMA SleepStep ==
    ASSUME IInv, NEW p \in Prc, slp_tsk(p) \/ tslp_tsk(p) \/ dly_tsk(p)
    PROVE  IInv' /\ KeepsSuspended
<1> DEFINE t == run[p]
<1>1. /\ ker \in Kernel /\ Sound(ker) /\ mode[p] = "task" /\ at[p] = "user"
      /\ pcb[p].dspflg /\ t \in Tsk /\ tcb[t] \in TCB /\ StateOf(ker, t)
      /\ ~tcb[t].raster
  BY CallerFacts DEF slp_tsk, tslp_tsk, dly_tsk, MayWait
<1>2. /\ TstatSuspended(ker, t) \/ TstatRunnable(ker, t)
      /\ tcb[t].p_pcb = p /\ ~TstatWaiting(ker, t) /\ ~TstatDormant(ker, t)
  BY <1>1, RunningFacts, CallerFacts, ExecutesFacts
<1>3. CASE TakeWupque(p)
  <2> DEFINE new == [tcb[t] EXCEPT !.wupque = FALSE]
  <2>1. Return(SetTcb(ker, t, new))
    BY <1>3 DEF TakeWupque, SetTcb, tcb
  <2>2. /\ new \in TCB /\ new.tstat = tcb[t].tstat /\ new.p_pcb = tcb[t].p_pcb
        /\ SamePlace(ker, t, new) /\ new.tskctxb = tcb[t].tskctxb /\ ~new.raster
    BY <1>1 DEF TCB, SamePlace, CurrentSubpri, tcb
  <2>3. TcbState(t, new)
    BY <1>1 DEF StateOf, TcbState, TCB, tcb
  <2> HIDE DEF new
  <2> QED
    BY <1>1, <2>1, <2>2, <2>3, FieldStep
<1>4. ASSUME NEW bit \in {"SLP", "DLY"}, NEW ev \in {p, NULL}, NEW k1, WaitCall(p, k1),
             Becomes(p, ker, k1, t,
                     [ker.tcb[t] EXCEPT !.tstat = IF TstatSuspended(ker, t)
                                                    THEN @ \cup {bit} ELSE {bit},
                                        !.tmevtb = ev])
      PROVE  IInv' /\ KeepsSuspended
  <2> DEFINE new == [ker.tcb[t] EXCEPT !.tstat = IF TstatSuspended(ker, t)
                                                   THEN @ \cup {bit} ELSE {bit},
                                       !.tmevtb = ev]
  <2>1. /\ new.p_pcb = tcb[t].p_pcb /\ new.tskctxb = tcb[t].tskctxb
        /\ new.tstat = IF TstatSuspended(ker, t) THEN tcb[t].tstat \cup {bit} ELSE {bit}
        /\ new.tmevtb = ev /\ ~new.raster
        /\ new.actque = tcb[t].actque /\ new.actprc = tcb[t].actprc
    BY <1>1 DEF TCB, tcb
  <2>2. Becomes(p, ker, k1, t, new)
    BY <1>4
  <2> HIDE DEF new
  <2>3. /\ new.tstat # DORMANT /\ "RUNNABLE" \notin new.tstat
        /\ ~({"SLP", "DLY"} \subseteq new.tstat)
        /\ new.tstat \cap {"SLP", "DLY"} # {}
        /\ "SUSPENDED" \in new.tstat <=> TstatSuspended(ker, t)
    BY <1>1, <1>2, <2>1 DEF StateOf, TcbState, TstatSuspended, TstatRunnable, TstatWaiting,
                            DORMANT, tcb
  <2>4. TcbState(t, new)
    BY <1>1, <1>2, <2>1, <2>3 DEF StateOf, TcbState, TstatDormant, tcb
  <2> QED
    BY <1>1, <1>4, <2>1, <2>2, <2>3, <2>4, WaitStep
<1>5. TstatRunnable(ker, t) => ker.tcb[t].tstat = {"RUNNABLE"}
  BY <1>1 DEF StateOf, TcbState, TstatRunnable
<1>6. CASE WaitCall(p, MakeWait(ker, p, "SLP", t))
  <2> DEFINE k1 == MakeWait(ker, p, "SLP", t)
  <2>1. Becomes(p, ker, k1, t, [ker.tcb[t] EXCEPT !.tstat = IF TstatSuspended(ker, t)
                                                           THEN @ \cup {"SLP"} ELSE {"SLP"},
                                               !.tmevtb = NULL])
    BY <1>1, <1>2, <1>5, MakeWaitFacts
  <2>2. WaitCall(p, k1)
    BY <1>6
  <2> HIDE DEF k1
  <2> QED
    BY <1>4, <2>1, <2>2
<1>7. ASSUME NEW bit \in {"SLP", "DLY"}, WaitCall(p, MakeWaitTmout(ker, p, bit, t))
      PROVE  IInv' /\ KeepsSuspended
  <2> DEFINE k1 == MakeWaitTmout(ker, p, bit, t)
  <2>1. Becomes(p, ker, k1, t, [ker.tcb[t] EXCEPT !.tstat = IF TstatSuspended(ker, t)
                                                           THEN @ \cup {bit} ELSE {bit},
                                               !.tmevtb = p])
    BY <1>1, <1>2, <1>5, MakeWaitTmoutFacts
  <2>2. WaitCall(p, k1)
    BY <1>7
  <2> HIDE DEF k1
  <2> QED
    BY <1>4, <2>1, <2>2
<1> QED
  BY <1>3, <1>6, <1>7 DEF slp_tsk, tslp_tsk, dly_tsk

LEMMA TerTskStep ==
    ASSUME IInv, NEW p \in Prc, ter_tsk(p)
    PROVE  IInv'
<1>1. PICK t \in Tsk \ {run[p]} : /\ tcb[t].p_pcb = p
                                  /\ EndCall(p, TaskTerminate(ker, p, t, run[p]))
  BY DEF ter_tsk
<1>2. mode[p] = "task" /\ at[p] = "user"
  BY DEF ter_tsk, InTask
<1> QED
  BY <1>1, <1>2, TerminateStep

\* A task that waits is not runnable.
LEMMA WaitingFacts ==
    ASSUME IInv, NEW t \in Tsk, TstatWaiting(ker, t)
    PROVE  ~TstatRunnable(ker, t) /\ ~TstatDormant(ker, t) /\ ~tcb[t].raster
<1>1. StateOf(ker, t)
  BY DEF IInv
<1> QED
  BY <1>1 DEF StateOf, TcbState, TstatRunnable, TstatDormant, TstatWaiting, DORMANT, tcb

\* wait_complete and the time event handlers release a task.
LEMMA ReleaseStep ==
    ASSUME IInv, NEW p \in Prc, mode[p] \in {"task", "int"}, at[p] # "locked",
           NEW t \in Tsk, TstatWaiting(ker, t), EndCall(p, WaitComplete(ker, p, t))
    PROVE  IInv' /\ KeepsSuspended
<1> DEFINE k1  == WaitComplete(ker, p, t)
           s   == IF TstatSuspended(ker, t) THEN {"SUSPENDED"} ELSE {"RUNNABLE"}
           new == [ker.tcb[t] EXCEPT !.tmevtb = NULL, !.tstat = s]
<1>1. /\ ker \in Kernel /\ Sound(ker) /\ tcb[t] \in TCB /\ StateOf(ker, t)
  BY CallerFacts
<1>2. ~TstatRunnable(ker, t) /\ ~TstatDormant(ker, t) /\ ~tcb[t].raster
  BY WaitingFacts
<1>3. Becomes(p, ker, k1, t, new)
  BY <1>1, <1>2, WaitCompleteFacts
<1>4. Finish(p, k1)
  BY DEF Finish
<1>5. /\ new.p_pcb = tcb[t].p_pcb /\ new.tskctxb = tcb[t].tskctxb /\ new.tstat = s
      /\ new.tmevtb = NULL /\ ~new.raster
      /\ new.actque = tcb[t].actque /\ new.actprc = tcb[t].actprc
  BY <1>1, <1>2 DEF TCB, tcb
<1> HIDE DEF k1, new
<1>6. /\ s # DORMANT
      /\ "RUNNABLE" \in s => s = {"RUNNABLE"}
      /\ "SUSPENDED" \in s => "sus_tsk" \in Calls
      /\ s \cap {"SLP", "DLY"} = {}
      /\ TstatSuspended(ker, t) => "SUSPENDED" \in s
  BY <1>1 DEF DORMANT, StateOf
<1> HIDE DEF s
<1>7. TcbState(t, new)
  BY <1>1, <1>5, <1>6 DEF StateOf, TcbState, tcb
<1> QED
  BY <1>2, <1>3, <1>4, <1>5, <1>6, <1>7, ShiftStep

LEMMA WakeStep ==
    ASSUME IInv, NEW p \in Prc, wup_tsk(p) \/ rel_wai(p) \/ wait_tmout(p)
    PROVE  IInv' /\ KeepsSuspended
<1>1. mode[p] \in {"task", "int"} /\ at[p] # "locked"
  BY CallerFacts DEF wup_tsk, rel_wai, wait_tmout
<1>2. ASSUME NEW t \in Tsk, ~TstatDormant(ker, t), Return([ker EXCEPT !.tcb[t].wupque = TRUE])
      PROVE  IInv' /\ KeepsSuspended
  <2> DEFINE new == [tcb[t] EXCEPT !.wupque = TRUE]
  <2>1. tcb[t] \in TCB /\ StateOf(ker, t)
    BY CallerFacts
  <2>2. /\ new \in TCB /\ new.tstat = tcb[t].tstat /\ new.p_pcb = tcb[t].p_pcb
        /\ SamePlace(ker, t, new) /\ new.tskctxb = tcb[t].tskctxb
        /\ new.raster /\ new.enater => Deferred(ker, t)
    BY <2>1 DEF TCB, SamePlace, CurrentSubpri, Deferred, tcb
  <2>3. TcbState(t, new)
    BY <1>2, <2>1 DEF StateOf, TcbState, TstatDormant, TCB, tcb
  <2>4. Return(SetTcb(ker, t, new))
    BY <1>2 DEF SetTcb, tcb
  <2> HIDE DEF new
  <2> QED
    BY <1>1, <2>2, <2>3, <2>4, FieldStep
<1>3. CASE wup_tsk(p)
  <2>1. PICK t \in Tsk :
           /\ ~TstatDormant(ker, t)
           /\ IF TstatWaitSlp(ker, t) THEN EndCall(p, WaitComplete(ker, p, t))
                                      ELSE Return([ker EXCEPT !.tcb[t].wupque = TRUE])
    BY <1>3 DEF wup_tsk
  <2>2. TstatWaitSlp(ker, t) => TstatWaiting(ker, t)
    BY DEF TstatWaitSlp, TstatWaiting
  <2> QED
    BY <1>1, <1>2, <2>1, <2>2, ReleaseStep
<1>4. CASE rel_wai(p)
  BY <1>1, <1>4, ReleaseStep DEF rel_wai
<1>5. CASE wait_tmout(p)
  <2>1. PICK t \in Tsk :
           /\ TstatWaiting(ker, t)
           /\ EndCall(p, MakeNonWait([ker EXCEPT !.tcb[t].tmevtb = NULL], p, t))
    BY <1>5 DEF wait_tmout
  <2>2. EndCall(p, WaitComplete(ker, p, t))
    BY <2>1 DEF WaitComplete, WaitDequeueTmevtb
  <2> QED
    BY <1>1, <2>1, <2>2, ReleaseStep
<1> QED
  BY <1>3, <1>4, <1>5

LEMMA CanWupStep ==
    ASSUME IInv, NEW p \in Prc, can_wup(p)
    PROVE  IInv' /\ KeepsSuspended
<1>1. PICK t \in Tsk : Return([ker EXCEPT !.tcb[t].wupque = FALSE])
  BY DEF can_wup
<1> DEFINE new == [tcb[t] EXCEPT !.wupque = FALSE]
<1>2. tcb[t] \in TCB /\ StateOf(ker, t) /\ mode[p] = "task" /\ at[p] = "user"
  BY CallerFacts DEF can_wup
<1>3. /\ new \in TCB /\ new.tstat = tcb[t].tstat /\ new.p_pcb = tcb[t].p_pcb
      /\ SamePlace(ker, t, new) /\ new.tskctxb = tcb[t].tskctxb
      /\ new.raster /\ new.enater => Deferred(ker, t)
  BY <1>2 DEF TCB, SamePlace, CurrentSubpri, Deferred, tcb
<1>4. TcbState(t, new)
  BY <1>2 DEF StateOf, TcbState, TCB, tcb
<1>5. Return(SetTcb(ker, t, new))
  BY <1>1 DEF SetTcb, tcb
<1> HIDE DEF new
<1> QED
  BY <1>2, <1>3, <1>4, <1>5, FieldStep

LEMMA SuspendStep ==
    ASSUME IInv, NEW p \in Prc, sus_tsk(p)
    PROVE  IInv' /\ KeepsSuspended
<1>1. PICK t \in Tsk :
         /\ ~TstatDormant(ker, t) /\ ~tcb[t].raster /\ ~TstatSuspended(ker, t)
         /\ IF TstatRunnable(ker, t)
              THEN EndCall(p, MakeNonRunnable(
                                  [ker EXCEPT !.tcb[t].tstat = {"SUSPENDED"}], p, t))
              ELSE Return([ker EXCEPT !.tcb[t].tstat = @ \cup {"SUSPENDED"}])
  BY DEF sus_tsk
<1>2. /\ ker \in Kernel /\ Sound(ker) /\ tcb[t] \in TCB /\ StateOf(ker, t)
      /\ mode[p] = "task" /\ at[p] = "user" /\ "sus_tsk" \in Calls
  BY CallerFacts DEF sus_tsk, InTask
<1>3. CASE TstatRunnable(ker, t)
  <2> DEFINE new == [tcb[t] EXCEPT !.tstat = {"SUSPENDED"}]
             kt  == [ker EXCEPT !.tcb[t].tstat = {"SUSPENDED"}]
             k1  == MakeNonRunnable(kt, p, t)
  <2>1. /\ new \in TCB /\ new.tstat = {"SUSPENDED"} /\ new.p_pcb = tcb[t].p_pcb
        /\ SamePlace(ker, t, new) /\ new.tskctxb = tcb[t].tskctxb /\ ~new.raster
        /\ new.tmevtb = tcb[t].tmevtb
        /\ new.actque = tcb[t].actque /\ new.actprc = tcb[t].actprc
    BY <1>1, <1>2 DEF TCB, Bits, SamePlace, CurrentSubpri, tcb
  <2>2. kt = SetTcb(ker, t, new)
    BY DEF SetTcb, tcb
  <2>3. Finish(p, k1)
    BY <1>1, <1>3 DEF Finish
  <2> HIDE DEF new, kt
  <2>4. Becomes(p, ker, MakeNonRunnable(SetTcb(ker, t, new), p, t), t, new)
    BY <1>2, <1>3, <2>1, BlockChanges DEF tcb
  <2>5. Becomes(p, ker, k1, t, new)
    BY <2>2, <2>4
  <2> HIDE DEF k1
  <2>6. TcbState(t, new)
    <3>1. TcbState(t, tcb[t]) /\ tcb[t].tstat = {"RUNNABLE"}
      BY <1>2, <1>3 DEF StateOf, TcbState, TstatRunnable, tcb
    <3>2. tcb[t].tmevtb = NULL
      BY <3>1 DEF TcbState
    <3> QED
      BY <2>1, <3>1, <3>2 DEF TcbState, DORMANT
  <2> QED
    BY <1>1, <1>2, <2>1, <2>3, <2>5, <2>6, ShiftStep DEF DORMANT
<1>4. CASE ~TstatRunnable(ker, t)
  <2> DEFINE new == [tcb[t] EXCEPT !.tstat = @ \cup {"SUSPENDED"}]
             k1  == SetTcb(ker, t, new)
  <2>1. /\ new \in TCB /\ new.tstat = tcb[t].tstat \cup {"SUSPENDED"}
        /\ new.p_pcb = tcb[t].p_pcb /\ new.tskctxb = tcb[t].tskctxb /\ ~new.raster
        /\ new.tmevtb = tcb[t].tmevtb
        /\ new.actque = tcb[t].actque /\ new.actprc = tcb[t].actprc
    BY <1>1, <1>2 DEF TCB, Bits
  <2>2. Finish(p, k1)
    BY <1>1, <1>4 DEF SetTcb, Finish, Schedtsk, tcb
  <2> HIDE DEF new
  <2>3. "RUNNABLE" \notin new.tstat
    BY <1>4, <2>1 DEF TstatRunnable, tcb
  <2>4. Becomes(p, ker, k1, t, new)
    BY <1>2, <1>4, <2>1, <2>3, SetChanges
  <2> HIDE DEF k1
  <2>5. /\ new.tstat # DORMANT
        /\ new.tstat \cap {"SLP", "DLY"} # {} => TstatWaiting(ker, t)
    BY <2>1 DEF DORMANT, TstatWaiting, tcb
  <2>6. TcbState(t, new)
    BY <1>2, <2>1, <2>3, <2>5 DEF StateOf, TcbState, tcb
  <2> QED
    BY <1>1, <1>2, <2>1, <2>2, <2>3, <2>4, <2>5, <2>6, ShiftStep
<1> QED
  BY <1>3, <1>4

LEMMA ResumeTaskStep ==
    ASSUME IInv, NEW p \in Prc, rsm_tsk(p)
    PROVE  IInv'
<1>1. PICK t \in Tsk :
         /\ TstatSuspended(ker, t)
         /\ IF TstatWaiting(ker, t)
              THEN Return([ker EXCEPT !.tcb[t].tstat = @ \ {"SUSPENDED"}])
              ELSE EndCall(p, MakeRunnable([ker EXCEPT !.tcb[t].tstat = {"RUNNABLE"}], p, t))
  BY DEF rsm_tsk
<1>2. /\ ker \in Kernel /\ Sound(ker) /\ tcb[t] \in TCB /\ StateOf(ker, t)
      /\ mode[p] = "task" /\ at[p] = "user"
  BY CallerFacts DEF rsm_tsk
<1>3. ~TstatDormant(ker, t) /\ ~TstatRunnable(ker, t) /\ ~tcb[t].raster
  BY <1>1, <1>2 DEF StateOf, TcbState, TstatDormant, TstatRunnable, TstatSuspended,
                    DORMANT, tcb
<1>4. CASE TstatWaiting(ker, t)
  <2> DEFINE new == [tcb[t] EXCEPT !.tstat = @ \ {"SUSPENDED"}]
             k1  == SetTcb(ker, t, new)
  <2>1. /\ new \in TCB /\ new.tstat = tcb[t].tstat \ {"SUSPENDED"}
        /\ new.p_pcb = tcb[t].p_pcb /\ new.tskctxb = tcb[t].tskctxb /\ ~new.raster
        /\ new.tmevtb = tcb[t].tmevtb
        /\ new.actque = tcb[t].actque /\ new.actprc = tcb[t].actprc
    BY <1>2, <1>3 DEF TCB, Bits
  <2>2. Finish(p, k1)
    BY <1>1, <1>4 DEF SetTcb, Finish, Schedtsk, tcb
  <2> HIDE DEF new
  <2>3. "RUNNABLE" \notin new.tstat /\ "SUSPENDED" \notin new.tstat
    BY <1>3, <2>1 DEF TstatRunnable, tcb
  <2>4. Becomes(p, ker, k1, t, new)
    BY <1>2, <1>3, <2>1, <2>3, SetChanges
  <2> HIDE DEF k1
  <2>5. /\ new.tstat # DORMANT /\ new.tstat \cap {"SLP", "DLY"} # {}
        /\ ~({"SLP", "DLY"} \subseteq new.tstat)
    BY <1>2, <1>4, <2>1 DEF StateOf, TcbState, DORMANT, TstatWaiting, tcb
  <2>6. TcbState(t, new)
    BY <1>2, <2>1, <2>3, <2>5 DEF StateOf, TcbState, tcb
  <2> QED
    BY <1>2, <1>3, <1>4, <2>1, <2>2, <2>3, <2>4, <2>5, <2>6, ShiftStep
<1>5. CASE ~TstatWaiting(ker, t)
  <2> DEFINE new == [tcb[t] EXCEPT !.tstat = {"RUNNABLE"}]
             kt  == [ker EXCEPT !.tcb[t].tstat = {"RUNNABLE"}]
             k1  == MakeRunnable(kt, p, t)
  <2>1. /\ new \in TCB /\ new.tstat = {"RUNNABLE"} /\ new.p_pcb = tcb[t].p_pcb
        /\ new.tskctxb = tcb[t].tskctxb /\ ~new.raster /\ new.tmevtb = tcb[t].tmevtb
        /\ new.actque = tcb[t].actque /\ new.actprc = tcb[t].actprc
    BY <1>2, <1>3 DEF TCB, Bits
  <2>2. kt = SetTcb(ker, t, new)
    BY DEF SetTcb, tcb
  <2>3. Finish(p, k1)
    BY <1>1, <1>5 DEF Finish
  <2> HIDE DEF new, kt
  <2>4. Becomes(p, ker, MakeRunnable(SetTcb(ker, t, new), p, t), t, new)
    BY <1>2, <1>3, <2>1, RunChanges
  <2>5. Becomes(p, ker, k1, t, new)
    BY <2>2, <2>4
  <2> HIDE DEF k1
  <2>6. TcbState(t, new)
    <3>1. TcbState(t, tcb[t]) /\ tcb[t].tmevtb = NULL
      BY <1>2, <1>5 DEF StateOf, TcbState, TstatWaiting, tcb
    <3> QED
      BY <2>1, <3>1 DEF TcbState, DORMANT
  <2> QED
    BY <1>2, <1>3, <2>1, <2>3, <2>5, <2>6, ShiftStep DEF DORMANT
<1> QED
  BY <1>4, <1>5

----------------------------------------------------------------------------
\* The states of a processor

LEMMA FlaggedTrans ==
    ASSUME NEW k, NEW k1, NEW k2, NEW p, Flagged(k, k1, p), Flagged(k1, k2, p)
    PROVE  Flagged(k, k2, p)
BY DEF Flagged

\* The step changes no TCB, and the processor keeps the task it holds.
LEMMA ProcessorStep ==
    ASSUME IInv, NEW p \in Prc, Sound(ker'), ker'.tcb = ker.tcb, run' = run,
           mode' \in [Prc -> Modes], at' \in [Prc -> Places],
           \A q \in Prc \ {p} : /\ mode'[q] = mode[q] /\ at'[q] = at[q]
                                /\ ker'.pcb[q] = ker.pcb[q]
                                /\ q \in ker.ipi => q \in ker'.ipi,
           \A u \in Tsk : Holds(p, u) => Holds(p, u)',
           \A u \in Tsk : Deferred(ker, u) /\ Pins(p, u) => Pins(p, u)',
           PlaceAt(p)', HoldAt(p)', PinnedAt(p)', DispatchAt(p)'
    PROVE  IInv' /\ KeepsSuspended
<1>1. run' \in [Prc -> Tsk \cup {NULL}]
  BY DEF IInv, TypeOK
<1>2. Local(p)
  BY DEF Local, Schedtsk, pcb
<1>3. ASSUME NEW u \in Tsk, NEW q \in Prc \ {p}, Executes(q, u) PROVE Calm(ker, ker', u)
  BY DEF Calm, TstatDormant, TstatWaiting
<1>4. ASSUME NEW u \in Tsk PROVE StateOf(ker', u) /\ ContextOf(u)' /\ KeepsPending(p, u)
  <2>1. StateOf(ker, u) /\ ContextOf(u)
    BY DEF IInv
  <2>2. StateOf(ker', u) /\ KeepsPending(p, u)
    BY <2>1 DEF StateOf, TstatSuspended, KeepsPending, Deferred
  <2>3. \A q \in Prc : Holds(q, u) => Holds(q, u)'
    BY DEF Holds
  <2>4. tcb[u].p_pcb \in Prc
    BY KernelFields DEF IInv, Sound, tcb
  <2> QED
    BY <2>1, <2>2, <2>3, <2>4 DEF ContextOf, TstatDormant, tcb
<1>5. IInv'
  BY <1>1, <1>2, <1>3, <1>4, LocalStep
<1> QED
  BY <1>5 DEF KeepsSuspended, TstatSuspended

\* The running task goes on, or executes dispatch, or is interrupted.
LEMMA RunningStep ==
    ASSUME IInv, NEW p \in Prc, mode[p] = "task", Flagged(ker, ker', p), run' = run,
           NEW m \in {"task", "int", "save"}, mode' = [mode EXCEPT ![p] = m],
           NEW l \in Places, at' = [at EXCEPT ![p] = l],
           l = "locked" => m = "task",
           ~ker'.pcb[p].dspflg => Schedtsk(ker', p) = run[p] /\ m # "save",
           ker'.pcb[p].dspflg <=> ker'.pcb[p].enadsp /\ ~ker'.pcb[p].ipm,
           m = "task" => Schedtsk(ker', p) \in {run[p], Schedtsk(ker, p)},
           ker'.pcb[p].dspflg => pcb[p].dspflg \/ ~Deferred(ker, run[p])
    PROVE  IInv' /\ KeepsSuspended
<1>1. /\ mode \in [Prc -> Modes] /\ at \in [Prc -> Places] /\ HoldAt(p) /\ DispatchAt(p)
      /\ ker'.tcb = ker.tcb /\ run[p] \in Tsk /\ Sound(ker') /\ ker'.ipi = ker.ipi
      /\ \A q \in Prc \ {p} : ker'.pcb[q] = ker.pcb[q]
  BY CallerFacts DEF IInv, TypeOK, Flagged
<1>2. /\ mode' \in [Prc -> Modes] /\ mode'[p] = m
      /\ \A q \in Prc \ {p} : mode'[q] = mode[q]
  BY <1>1 DEF Modes
<1>3. /\ at' \in [Prc -> Places] /\ at'[p] = l
      /\ \A q \in Prc \ {p} : at'[q] = at[q]
  BY <1>1
<1>4. \A u \in Tsk : Holds(p, u) => Holds(p, u)'
  BY <1>2 DEF Holds
<1>5. PlaceAt(p)'
  BY <1>2, <1>3 DEF PlaceAt
<1>6. HoldAt(p)'
  BY <1>1, <1>2 DEF HoldAt, TstatDormant, TstatWaiting, tcb
<1>7. PinnedAt(p)'
  BY <1>1, <1>2, ConfigAssumption DEF PinnedAt, pcb
<1>8. DispatchAt(p)'
  BY <1>1, <1>2 DEF DispatchAt, pcb
<1>9. \A u \in Tsk : Deferred(ker, u) /\ Pins(p, u) => Pins(p, u)'
  BY DEF Pins, pcb
<1> QED
  BY <1>1, <1>2, <1>3, <1>4, <1>5, <1>6, <1>7, <1>8, <1>9, ProcessorStep

LEMMA PlaceStep ==
    ASSUME IInv, NEW p \in Prc, ext_tsk_wait(p) \/ loc_cpu(p) \/ unl_cpu(p)
    PROVE  IInv' /\ KeepsSuspended
<1>1. mode[p] = "task" /\ ker' = ker /\ run' = run /\ mode' = mode
  BY DEF ext_tsk_wait, loc_cpu, unl_cpu, InTask
<1>2. PICK l \in Places : at' = [at EXCEPT ![p] = l]
  BY DEF ext_tsk_wait, loc_cpu, unl_cpu, Places, Locations
<1>3. Flagged(ker, ker', p) /\ mode' = [mode EXCEPT ![p] = "task"]
  BY <1>1 DEF IInv, TypeOK, Flagged
<1>4. /\ ~ker'.pcb[p].dspflg => Schedtsk(ker', p) = run[p]
      /\ ker'.pcb[p].dspflg <=> ker'.pcb[p].enadsp /\ ~ker'.pcb[p].ipm
      /\ Schedtsk(ker', p) = Schedtsk(ker, p)
      /\ ker'.pcb[p].dspflg => pcb[p].dspflg
  BY <1>1 DEF IInv, PinnedAt, DispatchAt, pcb
<1> QED
  BY <1>1, <1>2, <1>3, <1>4, RunningStep

LEMMA RetryStep ==
    ASSUME IInv, NEW p \in Prc, mode[p] = "task", run[p] # Schedtsk(ker, p),
           NEW l \in Locations, RetryAt(p, l)
    PROVE  IInv' /\ KeepsSuspended
<1>1. /\ ker' = ker /\ run' = run /\ mode' = [mode EXCEPT ![p] = "save"]
      /\ at' = [at EXCEPT ![p] = l] /\ l \in Places /\ l # "locked"
  BY DEF RetryAt, Places, Locations
<1>2. Flagged(ker, ker', p)
  BY <1>1 DEF IInv, Flagged
<1>3. /\ ker'.pcb[p].dspflg /\ pcb[p].dspflg
      /\ ker'.pcb[p].dspflg <=> ker'.pcb[p].enadsp /\ ~ker'.pcb[p].ipm
  BY <1>1 DEF IInv, PinnedAt, DispatchAt, pcb
<1> QED
  BY <1>1, <1>2, <1>3, RunningStep

\* dispatching is disabled by the task that is scheduled.
LEMMA DisableStep ==
    ASSUME IInv, NEW p \in Prc, mode[p] = "task", run[p] = Schedtsk(ker, p),
           NEW new \in PCB, new.p_schedtsk = pcb[p].p_schedtsk,
           new.ready_queue = pcb[p].ready_queue, new.ready_primap = pcb[p].ready_primap,
           ~new.dspflg, ~(new.enadsp /\ ~new.ipm), ker' = SetPcb(ker, p, new),
           run' = run, mode' = mode, at' = [at EXCEPT ![p] = "user"]
    PROVE  IInv' /\ KeepsSuspended
<1>1. Flagged(ker, ker', p) /\ ker'.pcb[p] = new
  BY SetPcbFacts DEF IInv, pcb
<1>2. mode' = [mode EXCEPT ![p] = "task"]
  BY DEF IInv, TypeOK
<1>3. Schedtsk(ker', p) = run[p]
  BY <1>1 DEF Schedtsk, pcb
<1> QED
  BY <1>1, <1>2, <1>3, RunningStep DEF Places, Locations

LEMMA EnableStep ==
    ASSUME IInv, NEW p \in Prc, mode[p] = "task", NEW k, Flagged(ker, k, p),
           k.pcb[p].enadsp, EnableDispatch(p, k)
    PROVE  IInv' /\ KeepsSuspended
<1> DEFINE k1 == SetDspflg(k, p)
           m  == IF run[p] # Schedtsk(k1, p) THEN "save" ELSE "task"
<1>1. /\ Flagged(k, k1, p) /\ k1.pcb[p].dspflg /\ k1.pcb[p].enadsp /\ ~k1.pcb[p].ipm
  BY SetDspflgChanges DEF Flagged
<1>2. \/ /\ tcb[run[p]].raster /\ ExitSelf(p, k1)
      \/ /\ ~Deferred(ker, run[p])
         /\ ker' = k1 /\ run' = run /\ mode' = [mode EXCEPT ![p] = m]
         /\ at' = [at EXCEPT ![p] = "user"]
  BY DEF EnableDispatch, Deferred, tcb
<1>3. m \in {"task", "save"} /\ (m = "task" => Schedtsk(k1, p) = run[p])
  OBVIOUS
<1> HIDE DEF k1, m
<1>4. Flagged(ker, k1, p)
  BY <1>1, FlaggedTrans
<1>5. CASE tcb[run[p]].raster /\ ExitSelf(p, k1)
  <2>1. run[p] \in Tsk /\ StateOf(ker, run[p])
    BY CallerFacts
  <2>2. ~TstatSuspended(ker, run[p])
    BY <1>5, <2>1 DEF StateOf, TcbState, TstatSuspended, tcb
  <2> QED
    BY <1>1, <1>4, <1>5, <2>2, ExitStep DEF Flagged
<1>6. CASE /\ ~Deferred(ker, run[p])
           /\ ker' = k1 /\ run' = run /\ mode' = [mode EXCEPT ![p] = m]
           /\ at' = [at EXCEPT ![p] = "user"]
  BY <1>1, <1>3, <1>4, <1>6, RunningStep DEF Places, Locations
<1> QED
  BY <1>2, <1>5, <1>6

LEMMA DisDspStep ==
    ASSUME IInv, NEW p \in Prc, dis_dsp(p)
    PROVE  IInv' /\ KeepsSuspended
<1>1. mode[p] = "task" /\ ker \in Kernel /\ pcb[p] \in PCB
  BY CallerFacts DEF dis_dsp, Retrying, InTask, Kernel, pcb
<1>2. CASE run[p] # Schedtsk(ker, p)
  BY <1>1, <1>2, RetryStep DEF dis_dsp, Locations
<1>3. CASE run[p] = Schedtsk(ker, p)
  <2> DEFINE new == [pcb[p] EXCEPT !.enadsp = FALSE, !.dspflg = FALSE]
  <2>1. /\ ker' = [ker EXCEPT !.pcb[p].enadsp = FALSE, !.pcb[p].dspflg = FALSE]
        /\ run' = run /\ mode' = mode /\ at' = [at EXCEPT ![p] = "user"]
    BY <1>3 DEF dis_dsp
  <2>2. ker' = SetPcb(ker, p, new)
    BY <1>1, <2>1 DEF SetPcb, pcb, Kernel
  <2>3. /\ new \in PCB /\ new.p_schedtsk = pcb[p].p_schedtsk
        /\ new.ready_queue = pcb[p].ready_queue /\ new.ready_primap = pcb[p].ready_primap
        /\ new.dspflg = FALSE /\ new.enadsp = FALSE
    BY <1>1 DEF PCB
  <2> HIDE DEF new
  <2> QED
    BY <1>1, <1>3, <2>1, <2>2, <2>3, DisableStep
<1> QED
  BY <1>2, <1>3

LEMMA EnaDspStep ==
    ASSUME IInv, NEW p \in Prc, ena_dsp(p)
    PROVE  IInv' /\ KeepsSuspended
<1> DEFINE k   == [ker EXCEPT !.pcb[p].enadsp = TRUE]
           new == [pcb[p] EXCEPT !.enadsp = TRUE]
<1>1. /\ mode[p] = "task" /\ at[p] = "user" /\ ker \in Kernel /\ Sound(ker)
      /\ pcb[p] \in PCB
  BY CallerFacts DEF ena_dsp, InTask, Kernel, pcb
<1>2. /\ new \in PCB /\ new.p_schedtsk = pcb[p].p_schedtsk
      /\ new.ready_queue = pcb[p].ready_queue /\ new.ready_primap = pcb[p].ready_primap
      /\ new.dspflg = pcb[p].dspflg /\ new.enadsp /\ new.ipm = pcb[p].ipm
  BY <1>1 DEF PCB
<1>3. k = SetPcb(ker, p, new)
  BY DEF SetPcb, pcb
<1>4. (pcb[p].ipm /\ Return(k)) \/ EnableDispatch(p, k)
  BY DEF ena_dsp
<1> HIDE DEF k, new
<1>5. Flagged(ker, k, p) /\ k.pcb[p] = new
  BY <1>1, <1>2, <1>3, SetPcbFacts DEF pcb
<1>6. CASE pcb[p].ipm /\ Return(k)
  <2>1. ker' = k /\ run' = run /\ mode' = mode /\ at' = at
    BY <1>6 DEF Return
  <2>2. mode' = [mode EXCEPT ![p] = "task"] /\ at' = [at EXCEPT ![p] = "user"]
    BY <1>1, <2>1 DEF IInv, TypeOK
  <2>3. /\ ~pcb[p].dspflg => Schedtsk(ker, p) = run[p]
        /\ ~pcb[p].dspflg
    BY <1>6 DEF IInv, PinnedAt, DispatchAt
  <2>4. Schedtsk(ker', p) = run[p] /\ ker'.pcb[p] = new
    BY <1>2, <1>5, <2>1, <2>3 DEF Schedtsk, pcb
  <2>5. ~ker'.pcb[p].dspflg /\ ker'.pcb[p].ipm
    BY <1>2, <1>6, <2>3, <2>4
  <2> QED
    BY <1>1, <1>5, <2>1, <2>2, <2>4, <2>5, RunningStep DEF Places, Locations
<1>7. CASE EnableDispatch(p, k)
  BY <1>1, <1>2, <1>5, <1>7, EnableStep
<1> QED
  BY <1>4, <1>6, <1>7

LEMMA ChgIpmStep ==
    ASSUME IInv, NEW p \in Prc, chg_ipm(p)
    PROVE  IInv' /\ KeepsSuspended
<1>1. mode[p] = "task" /\ ker \in Kernel /\ Sound(ker) /\ pcb[p] \in PCB
  BY CallerFacts DEF chg_ipm, Retrying, InTask, Kernel, pcb
<1>2. CASE run[p] # Schedtsk(ker, p)
  BY <1>1, <1>2, RetryStep DEF chg_ipm, Locations
<1>3. CASE run[p] = Schedtsk(ker, p)
  <2>1. PICK masked \in BOOLEAN :
           \/ pcb[p].enadsp /\ EnableDispatch(p, ker)
           \/ /\ masked \/ ~pcb[p].enadsp
              /\ ker' = [ker EXCEPT !.pcb[p].ipm = masked, !.pcb[p].dspflg = FALSE]
              /\ run' = run /\ mode' = mode /\ at' = [at EXCEPT ![p] = "user"]
    BY <1>3 DEF chg_ipm
  <2>2. CASE pcb[p].enadsp /\ EnableDispatch(p, ker)
    BY <1>1, <2>2, EnableStep DEF Flagged, pcb
  <2>3. CASE /\ masked \/ ~pcb[p].enadsp
             /\ ker' = [ker EXCEPT !.pcb[p].ipm = masked, !.pcb[p].dspflg = FALSE]
             /\ run' = run /\ mode' = mode /\ at' = [at EXCEPT ![p] = "user"]
    <3> DEFINE new == [pcb[p] EXCEPT !.ipm = masked, !.dspflg = FALSE]
    <3>1. ker' = SetPcb(ker, p, new)
      BY <1>1, <2>3 DEF SetPcb, pcb, Kernel
    <3>2. /\ new \in PCB /\ new.p_schedtsk = pcb[p].p_schedtsk
          /\ new.ready_queue = pcb[p].ready_queue
          /\ new.ready_primap = pcb[p].ready_primap
      BY <1>1 DEF PCB
    <3>3. ~new.dspflg /\ ~(new.enadsp /\ ~new.ipm)
      BY <1>1, <2>3 DEF PCB
    <3> HIDE DEF new
    <3> QED
      BY <1>1, <1>3, <2>3, <3>1, <3>2, <3>3, DisableStep
  <2> QED
    BY <2>1, <2>2, <2>3
<1> QED
  BY <1>2, <1>3

----------------------------------------------------------------------------
\* The dispatcher and the interrupts

LEMMA SaveContextStep ==
    ASSUME IInv, NEW p \in Prc, save_context(p)
    PROVE  IInv' /\ KeepsSuspended
<1> DEFINE t   == run[p]
           new == [tcb[t] EXCEPT !.tskctxb = at[p]]
<1>1. /\ ker \in Kernel /\ Sound(ker) /\ at \in [Prc -> Places]
      /\ mode[p] = "save" /\ PlaceAt(p) /\ HoldAt(p) /\ PinnedAt(p) /\ DispatchAt(p)
      /\ t \in Tsk \cup {NULL}
  BY DEF save_context, IInv, TypeOK
<1>2. t \in Tsk /\ Executes(p, t) /\ at[p] \in Locations
  BY <1>1 DEF HoldAt, PlaceAt, Places, Executes
<1>3. pcb[p].dspflg
  BY <1>1 DEF PinnedAt
<1>4. /\ tcb[t] \in TCB /\ StateOf(ker, t) /\ ~TstatDormant(ker, t)
      /\ ~Deferred(ker, t)
  BY <1>2, <1>3, CallerFacts, ExecutesFacts, PendingFacts
<1>5. /\ new \in TCB /\ new.tstat = tcb[t].tstat /\ new.p_pcb = tcb[t].p_pcb
      /\ SamePlace(ker, t, new) /\ new.tskctxb # "none"
      /\ ~(new.raster /\ new.enater)
  BY <1>2, <1>4 DEF TCB, Contexts, Locations, SamePlace, CurrentSubpri, Deferred, tcb
<1>6. TcbState(t, new)
  BY <1>4 DEF StateOf, TcbState, TstatDormant, TCB, tcb
<1>7. /\ ker' = SetTcb(ker, t, new) /\ run' = run
      /\ mode' = [mode EXCEPT ![p] = "disp"] /\ at' = [at EXCEPT ![p] = "user"]
  BY DEF save_context, SetTcb, tcb
<1> HIDE DEF new, t
<1>8. Becomes(p, ker, SetTcb(ker, t, new), t, new)
  BY <1>1, <1>2, <1>5, SetChanges DEF TstatRunnable, tcb
<1>9. Changes(p, ker, ker', t) /\ ker'.tcb[t] = new
  BY <1>7, <1>8 DEF Becomes
<1>10. /\ StateOf(ker', t) /\ ker'.tcb[t].tskctxb # "none" /\ ~Deferred(ker', t)
       /\ TstatSuspended(ker, t) => TstatSuspended(ker', t)
  BY <1>4, <1>5, <1>6, <1>9 DEF StateOf, TstatSuspended, Deferred, tcb
<1>11. /\ ker.pcb[p].dspflg /\ ker.pcb[p].enadsp /\ ~ker.pcb[p].ipm
  BY <1>1, <1>3 DEF DispatchAt, pcb
<1>12. /\ at' \in [Prc -> Places] /\ at'[p] # "locked"
       /\ \A q \in Prc \ {p} : at'[q] = at[q]
  BY <1>1, <1>7 DEF Places, Locations
<1> QED
  BY <1>2, <1>7, <1>9, <1>10, <1>11, <1>12, LeaveStep

\* The task to execute is ready on its processor.
LEMMA SchedtskFacts ==
    ASSUME IInv, NEW p \in Prc, pcb[p].dspflg, Schedtsk(ker, p) # NULL
    PROVE  LET t == Schedtsk(ker, p)
           IN  t \in Tsk /\ TstatRunnable(ker, t) /\ tcb[t].p_pcb = p
<1> DEFINE t == Schedtsk(ker, p)
<1>1. /\ ker \in Kernel /\ QueuesHold(ker, Ready(ker)) /\ IsTop(ker, p, t)
      /\ Ready(ker) \in SUBSET Tsk
  BY DEF IInv, Sound, Scheduled, Ready, pcb
<1>2. t \in Tsk \cup {NULL} /\ t # NULL
  BY <1>1, KernelFields
<1> HIDE DEF t
<1>3. t \in Ready(ker) /\ ker.tcb[t].p_pcb = p
  BY <1>1, <1>2, TopFacts
<1>4. t \in Tsk /\ TstatRunnable(ker, t) /\ tcb[t].p_pcb = p
  BY <1>3 DEF Ready, tcb
<1> QED
  BY <1>4 DEF t

LEMMA DispatcherStep ==
    ASSUME IInv, NEW p \in Prc, dispatcher(p)
    PROVE  IInv' /\ KeepsSuspended
<1> DEFINE s == Schedtsk(ker, p)
           m == IF s = NULL THEN "idle" ELSE "switch"
<1>1. /\ ker \in Kernel /\ Sound(ker) /\ mode[p] = "disp"
      /\ run \in [Prc -> Tsk \cup {NULL}] /\ mode \in [Prc -> Modes]
      /\ at \in [Prc -> Places] /\ PlaceAt(p) /\ PinnedAt(p) /\ DispatchAt(p)
      /\ \A t \in Tsk : StateOf(ker, t) /\ ContextOf(t)
  BY DEF dispatcher, IInv, TypeOK
<1>2. s \in Tsk \cup {NULL} /\ pcb[p].dspflg
  BY <1>1, KernelFields DEF PinnedAt
<1>3. /\ ker' = ker /\ at' = at /\ run' = [run EXCEPT ![p] = s]
      /\ mode' = [mode EXCEPT ![p] = m]
  BY DEF dispatcher
<1>4. m \in {"idle", "switch"} /\ (m = "idle" <=> s = NULL)
  OBVIOUS
<1>5. s # NULL => s \in Tsk /\ TstatRunnable(ker, s) /\ tcb[s].p_pcb = p
  BY <1>2, SchedtskFacts
<1>6. /\ run' \in [Prc -> Tsk \cup {NULL}] /\ mode' \in [Prc -> Modes]
      /\ run'[p] = s /\ mode'[p] = m /\ s = Schedtsk(ker', p)
      /\ \A q \in Prc \ {p} : run'[q] = run[q] /\ mode'[q] = mode[q]
  BY <1>1, <1>2, <1>3, <1>4 DEF Modes
<1> HIDE DEF s, m
<1>7. Local(p)
  BY <1>3, <1>6 DEF Local, pcb
<1>8. \A u \in Tsk : Calm(ker, ker', u)
  BY <1>3 DEF Calm
<1>9. ASSUME NEW u \in Tsk PROVE StateOf(ker', u) /\ ContextOf(u)' /\ KeepsPending(p, u)
  <2>1. \A q \in Prc : Holds(q, u) => Holds(q, u)'
    BY <1>1, <1>6 DEF Holds
  <2>2. tcb[u].p_pcb \in Prc
    BY <1>1, KernelFields DEF tcb
  <2>3. KeepsPending(p, u)
    BY <1>2, <1>3 DEF KeepsPending, Pins
  <2> QED
    BY <1>1, <1>3, <2>1, <2>2, <2>3 DEF ContextOf, tcb
<1>10. PlaceAt(p)' /\ PinnedAt(p)' /\ DispatchAt(p)'
  BY <1>1, <1>2, <1>3, <1>6 DEF PlaceAt, PinnedAt, DispatchAt, pcb
<1>11. HoldAt(p)'
  <2>1. CASE s = NULL
    BY <1>4, <1>6, <2>1 DEF HoldAt
  <2>2. CASE s # NULL
    <3>1. ~Holds(p, s)
      BY <1>1 DEF Holds
    <3>2. /\ ~TstatDormant(ker, s) /\ ~TstatWaiting(ker, s)
          /\ tcb[s].tskctxb # "none" /\ tcb[s].p_pcb = p
      BY <1>1, <1>5, <2>2, <3>1 DEF StateOf, TcbState, ContextOf, TstatRunnable,
                                    TstatDormant, TstatWaiting, DORMANT
    <3> QED
      BY <1>3, <1>4, <1>6, <2>2, <3>2 DEF HoldAt, tcb
  <2> QED
    BY <2>1, <2>2
<1>12. Sound(ker') /\ at' \in [Prc -> Places]
  BY <1>1, <1>3
<1>13. IInv'
  BY <1>6, <1>7, <1>8, <1>9, <1>10, <1>11, <1>12, LocalStep
<1> QED
  BY <1>3, <1>13 DEF KeepsSuspended

LEMMA ResumeStep ==
    ASSUME IInv, NEW p \in Prc, resume(p)
    PROVE  IInv' /\ KeepsSuspended
<1> DEFINE t   == run[p]
           new == [tcb[t] EXCEPT !.tskctxb = "none"]
           l   == IF tcb[t].tskctxb \in Locations THEN tcb[t].tskctxb ELSE "user"
<1>1. /\ ker \in Kernel /\ Sound(ker) /\ mode[p] = "switch"
      /\ run \in [Prc -> Tsk \cup {NULL}] /\ mode \in [Prc -> Modes]
      /\ at \in [Prc -> Places] /\ HoldAt(p) /\ PinnedAt(p) /\ DispatchAt(p)
  BY DEF resume, IInv, TypeOK
<1>2. t \in Tsk /\ Executes(p, t) /\ pcb[p].dspflg
  BY <1>1 DEF HoldAt, PinnedAt, Executes
<1>3. /\ tcb[t] \in TCB /\ StateOf(ker, t) /\ ~TstatDormant(ker, t)
      /\ ~TstatWaiting(ker, t) /\ tcb[t].p_pcb = p /\ ~Deferred(ker, t)
  BY <1>1, <1>2, CallerFacts, ExecutesFacts, PendingFacts
<1>4. /\ new \in TCB /\ new.tstat = tcb[t].tstat /\ new.p_pcb = tcb[t].p_pcb
      /\ SamePlace(ker, t, new) /\ new.tskctxb = "none"
      /\ ~(new.raster /\ new.enater)
  BY <1>3 DEF TCB, Contexts, SamePlace, CurrentSubpri, Deferred, tcb
<1>5. TcbState(t, new)
  BY <1>3 DEF StateOf, TcbState, TstatDormant, TCB, tcb
<1>6. /\ ker' = SetTcb(ker, t, new) /\ run' = run
      /\ mode' = [mode EXCEPT ![p] = "task"] /\ at' = [at EXCEPT ![p] = l]
  BY DEF resume, SetTcb, tcb
<1>7. l \in Locations
  BY DEF Locations
<1> HIDE DEF new, t, l
<1>8. Becomes(p, ker, SetTcb(ker, t, new), t, new)
  BY <1>1, <1>2, <1>4, SetChanges DEF TstatRunnable, tcb
<1>9. /\ Sound(ker') /\ FlagsKept(p, ker, ker') /\ ker'.tcb[t] = new
      /\ \A u \in Tsk \ {t} : ker'.tcb[u] = ker.tcb[u]
  BY <1>6, <1>8 DEF Becomes, Changes
<1>10. ker'.pcb = ker.pcb /\ ker'.ipi = ker.ipi
  BY <1>1, <1>6 DEF SetTcb, Kernel
<1>11. /\ mode' \in [Prc -> Modes] /\ at' \in [Prc -> Places] /\ mode'[p] = "task"
       /\ at'[p] = l
       /\ \A q \in Prc \ {p} : mode'[q] = mode[q] /\ at'[q] = at[q]
  BY <1>1, <1>6, <1>7 DEF Modes, Places
<1>12. Local(p)
  BY <1>6, <1>9, <1>11, LocalFacts
<1>13. ASSUME NEW u \in Tsk, NEW q \in Prc \ {p}, Executes(q, u) PROVE Calm(ker, ker', u)
  <2>1. u # t
    BY <1>3, <1>13, ExecutesFacts
  <2> QED
    BY <1>9, <2>1 DEF Calm, TstatDormant, TstatWaiting
<1>14. ASSUME NEW u \in Tsk PROVE StateOf(ker', u) /\ ContextOf(u)' /\ KeepsPending(p, u)
  <2>1. CASE u = t
    <3>1. StateOf(ker', u) /\ KeepsPending(p, u)
      BY <1>3, <1>4, <1>5, <1>9, <2>1 DEF StateOf, TstatSuspended, KeepsPending,
                                          Deferred, tcb
    <3>2. Holds(p, u)'
      BY <1>6, <1>11, <2>1 DEF Holds, t
    <3>3. ker'.tcb[u].p_pcb = p
      BY <1>3, <1>4, <1>9, <2>1
    <3>4. ContextOf(u)'
      BY <3>2, <3>3 DEF ContextOf, tcb
    <3> QED
      BY <3>1, <3>4
  <2>2. CASE u # t
    <3>1. ker'.tcb[u] = ker.tcb[u] /\ StateOf(ker, u) /\ ContextOf(u)
      BY <1>9, <2>2 DEF IInv
    <3>2. StateOf(ker', u) /\ KeepsPending(p, u)
      BY <1>2, <3>1 DEF StateOf, TstatSuspended, KeepsPending, Deferred, Pins
    <3>3. \A q \in Prc : Holds(q, u) => Holds(q, u)'
      BY <1>1, <1>6, <1>11 DEF Holds
    <3>4. tcb[u].p_pcb \in Prc
      BY <1>1, KernelFields DEF tcb
    <3> QED
      BY <3>1, <3>2, <3>3, <3>4 DEF ContextOf, TstatDormant, tcb
  <2> QED
    BY <2>1, <2>2
<1>15. PlaceAt(p)'
  BY <1>11 DEF PlaceAt
<1>16. HoldAt(p)'
  <2>1. run'[p] = t /\ t # NULL
    BY <1>2, <1>6, ConfigAssumption DEF t
  <2> QED
    BY <1>3, <1>4, <1>9, <1>11, <2>1 DEF HoldAt, TstatDormant, TstatWaiting, tcb
<1>17. PinnedAt(p)' /\ DispatchAt(p)'
  BY <1>1, <1>2, <1>6, <1>10 DEF PinnedAt, DispatchAt, Schedtsk, pcb
<1>18. run' \in [Prc -> Tsk \cup {NULL}]
  BY <1>1, <1>6
<1>19. IInv'
  BY <1>9, <1>11, <1>12, <1>13, <1>14, <1>15, <1>16, <1>17, <1>18, LocalStep
<1>20. KeepsSuspended
  BY <1>4, <1>9 DEF KeepsSuspended, TstatSuspended, tcb
<1> QED
  BY <1>19, <1>20

\* Only the pending interrupts change.
LEMMA IpiFacts ==
    ASSUME NEW k, Sound(k), NEW S \in SUBSET Prc
    PROVE  LET k1 == [k EXCEPT !.ipi = S]
           IN  Sound(k1) /\ k1.tcb = k.tcb /\ k1.pcb = k.pcb /\ k1.ipi = S
<1> DEFINE k1 == [k EXCEPT !.ipi = S]
<1>1. /\ k \in Kernel /\ QueuesHold(k, Ready(k)) /\ Scheduled(k)
  BY DEF Sound
<1>2. k1 \in Kernel /\ k1.tcb = k.tcb /\ k1.pcb = k.pcb /\ k1.ipi = S
  BY <1>1 DEF Kernel
<1> HIDE DEF k1
<1>3. Ready(k1) = Ready(k)
  BY <1>2 DEF Ready, TstatRunnable
<1>4. QueuesHold(k1, Ready(k1)) /\ Scheduled(k1)
  BY <1>1, <1>2, <1>3 DEF QueuesHold, Scheduled, IsTop, Queue, Schedtsk
<1>5. Sound(k1) /\ k1.tcb = k.tcb /\ k1.pcb = k.pcb /\ k1.ipi = S
  BY <1>2, <1>4 DEF Sound
<1> QED
  BY <1>5 DEF k1

LEMMA InterruptStep ==
    ASSUME IInv, NEW p \in Prc, dispatch_handler(p) \/ int_entry(p)
    PROVE  IInv' /\ KeepsSuspended
<1>1. /\ ker \in Kernel /\ Sound(ker) /\ run \in [Prc -> Tsk \cup {NULL}]
      /\ mode \in [Prc -> Modes] /\ at \in [Prc -> Places] /\ DispatchAt(p)
      /\ PlaceAt(p) /\ HoldAt(p) /\ PinnedAt(p) /\ ker.ipi \in SUBSET Prc
  BY KernelFields DEF IInv, TypeOK
<1>2. /\ mode[p] = "idle" \/ (mode[p] = "task" /\ at[p] # "locked")
      /\ run' = run /\ at' = at /\ mode' = [mode EXCEPT ![p] = "int"]
  BY DEF dispatch_handler, int_entry, Interruptible
<1>3. /\ Sound(ker') /\ ker'.tcb = ker.tcb /\ ker'.pcb = ker.pcb
      /\ ker.ipi \ {p} \subseteq ker'.ipi
  <2>1. CASE dispatch_handler(p)
    <3>1. ker' = [ker EXCEPT !.ipi = ker.ipi \ {p}] /\ ker.ipi \ {p} \in SUBSET Prc
      BY <1>1, <2>1 DEF dispatch_handler
    <3> QED
      BY <1>1, <3>1, IpiFacts
  <2>2. CASE int_entry(p)
    BY <1>1, <2>2 DEF int_entry
  <2> QED
    BY <2>1, <2>2
<1>4. /\ mode' \in [Prc -> Modes] /\ mode'[p] = "int"
      /\ \A q \in Prc \ {p} : mode'[q] = mode[q] /\ at'[q] = at[q]
  BY <1>1, <1>2 DEF Modes
<1>5. \A u \in Tsk : Holds(p, u) => Holds(p, u)'
  BY <1>2, <1>4 DEF Holds
<1>6. PlaceAt(p)'
  BY <1>1, <1>2 DEF PlaceAt
<1>7. HoldAt(p)'
  BY <1>1, <1>2, <1>3, <1>4 DEF HoldAt, TstatDormant, TstatWaiting, tcb
<1>8. PinnedAt(p)' /\ DispatchAt(p)'
  BY <1>1, <1>2, <1>3, <1>4 DEF PinnedAt, DispatchAt, Schedtsk, pcb
<1>9. \A u \in Tsk : Pins(p, u) => Pins(p, u)'
  BY <1>2, <1>3 DEF Pins, pcb
<1> QED
  BY <1>1, <1>2, <1>3, <1>4, <1>5, <1>6, <1>7, <1>8, <1>9, ProcessorStep

LEMMA IntExitStep ==
    ASSUME IInv, NEW p \in Prc, int_exit(p)
    PROVE  IInv' /\ KeepsSuspended
<1> DEFINE m == IF run[p] = NULL THEN "disp"
                ELSE IF run[p] # Schedtsk(ker, p) THEN "save" ELSE "task"
<1>1. /\ run \in [Prc -> Tsk \cup {NULL}] /\ mode \in [Prc -> Modes] /\ Sound(ker)
      /\ at \in [Prc -> Places] /\ PlaceAt(p) /\ HoldAt(p) /\ PinnedAt(p) /\ DispatchAt(p)
  BY DEF IInv, TypeOK
<1>2. /\ mode[p] = "int" /\ ker' = ker /\ run' = run /\ at' = at
      /\ mode' = [mode EXCEPT ![p] = m]
  BY DEF int_exit
<1>3. /\ m \in {"disp", "save", "task"} /\ (m = "disp" <=> run[p] = NULL)
      /\ m = "save" => run[p] # Schedtsk(ker, p)
      /\ m = "task" => run[p] = Schedtsk(ker, p)
  OBVIOUS
<1> HIDE DEF m
<1>4. /\ mode' \in [Prc -> Modes] /\ mode'[p] = m
      /\ \A q \in Prc \ {p} : mode'[q] = mode[q]
  BY <1>1, <1>2, <1>3 DEF Modes
<1>5. \A u \in Tsk : Holds(p, u) => Holds(p, u)'
  BY <1>2, <1>3, <1>4, ConfigAssumption DEF Holds
<1>6. PlaceAt(p)'
  BY <1>1, <1>2 DEF PlaceAt
<1>7. HoldAt(p)'
  BY <1>1, <1>2, <1>3, <1>4 DEF HoldAt, TstatDormant, TstatWaiting, tcb
<1>8. PinnedAt(p)' /\ DispatchAt(p)'
  BY <1>1, <1>2, <1>3, <1>4 DEF PinnedAt, DispatchAt, pcb
<1>9. \A u \in Tsk : Pins(p, u) => Pins(p, u)'
  BY <1>2 DEF Pins, pcb
<1> QED
  BY <1>1, <1>2, <1>4, <1>5, <1>6, <1>7, <1>8, <1>9, ProcessorStep

----------------------------------------------------------------------------
\* The invariant

LEMMA StutterStep ==
    ASSUME IInv, UNCHANGED vars
    PROVE  IInv' /\ KeepsSuspended
<1>1. ker' = ker /\ run' = run /\ mode' = mode /\ at' = at
  BY DEF vars
<1>2. TypeOK' /\ Sound(ker')
  BY <1>1 DEF IInv, TypeOK
<1>3. \A p \in Prc : PlaceAt(p)' /\ HoldAt(p)' /\ PinnedAt(p)' /\ DispatchAt(p)'
  BY <1>1 DEF IInv, PlaceAt, HoldAt, PinnedAt, DispatchAt, tcb, pcb
<1>4. \A t \in Tsk : ContextOf(t)' /\ StateOf(ker', t) /\ PendingOf(t)'
  BY <1>1 DEF IInv, ContextOf, PendingOf, Pins, Holds, tcb, pcb
<1> QED
  BY <1>1, <1>2, <1>3, <1>4 DEF IInv, KeepsSuspended

\* The calls that end a suspension.
Releases == \E p \in Prc : rsm_tsk(p) \/ ras_ter(p) \/ ter_tsk(p) \/ ext_tsk(p)

LEMMA NextStep ==
    ASSUME NoSelfMigrationSuspended, IInv, [Next]_vars
    PROVE  IInv' /\ (KeepsSuspended \/ Releases)
<1>1. ASSUME NEW p \in Prc, act_tsk(p) \/ mact_tsk(p) PROVE IInv' /\ KeepsSuspended
  <2>1. mode[p] \in {"task", "int"} /\ at[p] # "locked"
    BY <1>1, CallerFacts DEF act_tsk, mact_tsk
  <2>2. CASE act_tsk(p)
    BY <2>1, <2>2, ActivateStep DEF act_tsk
  <2>3. CASE mact_tsk(p)
    <3>1. PICK t \in Tsk : \E prc \in affinity[t] : Activate(p, t, prc)
      BY <2>3 DEF mact_tsk
    <3>2. PICK prc \in affinity[t] : Activate(p, t, prc)
      BY <3>1
    <3>3. prc \in Prc
      BY ConfigAssumption
    <3> QED
      BY <2>1, <3>2, <3>3, ActivateStep
  <2> QED
    BY <1>1, <2>2, <2>3
<1>2. ASSUME NEW p \in Prc, rot_rdq(p) \/ mrot_rdq(p) PROVE IInv' /\ KeepsSuspended
  <2>1. mode[p] \in {"task", "int"} /\ at[p] # "locked"
    BY <1>2, CallerFacts DEF rot_rdq, mrot_rdq
  <2> QED
    BY <1>2, <2>1, RotateStep DEF rot_rdq, mrot_rdq
<1>3. ASSUME NEW p \in Prc, Step(p) PROVE IInv' /\ (KeepsSuspended \/ Releases)
  <2>1. CASE can_act(p) \/ mig_self(p) \/ mig_tsk(p) \/ chg_pri(p) \/ chg_spr(p)
    BY <2>1, CanActStep, MigSelfStep, MigTskStep, ChgPriStep, ChgSprStep
  <2>2. CASE ext_tsk_wait(p) \/ dis_ter(p) \/ ena_ter(p)
    BY <2>2, PlaceStep, EnaterStep
  <2>3. CASE slp_tsk(p) \/ tslp_tsk(p) \/ dly_tsk(p) \/ wup_tsk(p) \/ can_wup(p)
             \/ rel_wai(p) \/ wait_tmout(p) \/ sus_tsk(p)
    BY <2>3, SleepStep, WakeStep, CanWupStep, SuspendStep
  <2>4. CASE rsm_tsk(p) \/ ras_ter(p) \/ ter_tsk(p) \/ ext_tsk(p)
    <3>1. IInv'
      BY <2>4, ResumeTaskStep, RasTerStep, TerTskStep, ExtTskStep
    <3> QED
      BY <2>4, <3>1 DEF Releases
  <2>5. CASE loc_cpu(p) \/ unl_cpu(p) \/ dis_dsp(p) \/ ena_dsp(p) \/ chg_ipm(p)
    BY <2>5, PlaceStep, DisDspStep, EnaDspStep, ChgIpmStep
  <2>6. CASE save_context(p) \/ dispatcher(p) \/ resume(p)
             \/ dispatch_handler(p) \/ int_entry(p) \/ int_exit(p)
    BY <2>6, SaveContextStep, DispatcherStep, ResumeStep, InterruptStep, IntExitStep
  <2> QED
    BY <1>1, <1>2, <1>3, <2>1, <2>2, <2>3, <2>4, <2>5, <2>6 DEF Step
<1> QED
  BY <1>3, StutterStep DEF Next

----------------------------------------------------------------------------
\* The initial state

\* The ready queues of p at the start.
LEMMA ArrangementFacts ==
    ASSUME NEW q \in Arrangements(TaAct)
    PROVE  q \in Seq(Tsk) /\ IsInjective(q)
<1>1. TaAct \subseteq Tsk /\ IsFiniteSet(TaAct)
  BY ConfigAssumption, FS_Subset
<1> QED
  BY <1>1, ArrangementSeq

LEMMA InitialPcbFacts ==
    ASSUME NEW rq, NEW p \in Prc, rq[p] \in [Pri -> Arrangements(TaAct)],
           \A pri \in Pri : ToSet(rq[p][pri]) = ReadyAtStart(p, pri)
    PROVE  /\ InitialPcb(rq, p) \in PCB
           /\ InitialPcb(rq, p).ready_queue = rq[p]
           /\ InitialPcb(rq, p).ready_primap = {pri \in Pri : rq[p][pri] # << >>}
           /\ InitialPcb(rq, p).dspflg /\ InitialPcb(rq, p).enadsp /\ ~InitialPcb(rq, p).ipm
           /\ LET s == InitialPcb(rq, p).p_schedtsk
              IN  \/ s = NULL /\ \A pri \in Pri : rq[p][pri] = << >>
                  \/ \E pri \in Pri : /\ rq[p][pri] # << >> /\ s = Head(rq[p][pri])
                                      /\ \A other \in Pri :
                                            other < pri => rq[p][other] = << >>
<1> DEFINE used == {pri \in Pri : ReadyAtStart(p, pri) # {}}
           low  == CHOOSE pri \in used : \A other \in used : pri <= other
           s    == IF used = {} THEN NULL ELSE Head(rq[p][low])
<1>1. \A pri \in Pri : rq[p][pri] \in Seq(Tsk)
  BY ArrangementFacts
<1>2. \A pri \in Pri : rq[p][pri] # << >> <=> pri \in used
  BY <1>1, EmptyQueue
<1>3. used \in SUBSET Pri /\ used \in SUBSET Nat
  BY DEF Pri
<1>4. InitialPcb(rq, p) = [p_schedtsk |-> s, enadsp |-> TRUE, dspflg |-> TRUE,
                           ipm |-> FALSE, ready_queue |-> rq[p], ready_primap |-> used]
  BY DEF InitialPcb
<1> HIDE DEF used
<1>5. used # {} => low \in used /\ \A other \in used : low <= other
  <2> SUFFICES ASSUME used # {} PROVE low \in used /\ \A other \in used : low <= other
    OBVIOUS
  <2>1. \E m \in used : \A n \in used : m <= n
    BY <1>3, Minimum
  <2> QED
    BY <2>1
<1> HIDE DEF low
<1>6. used = {pri \in Pri : rq[p][pri] # << >>}
  BY <1>2, <1>3
<1>7. s \in Tsk \cup {NULL}
  BY <1>1, <1>2, <1>3, <1>5, HeadFacts
<1>8. \/ s = NULL /\ \A pri \in Pri : rq[p][pri] = << >>
      \/ \E pri \in Pri : /\ rq[p][pri] # << >> /\ s = Head(rq[p][pri])
                          /\ \A other \in Pri : other < pri => rq[p][other] = << >>
  <2>1. CASE used = {}
    BY <1>2, <2>1
  <2>2. CASE used # {}
    <3>1. low \in Pri /\ rq[p][low] # << >> /\ s = Head(rq[p][low])
      BY <1>2, <1>3, <1>5, <2>2
    <3>2. \A other \in Pri : other < low => rq[p][other] = << >>
      BY <1>2, <1>5, <2>2, <3>1 DEF Pri
    <3> QED
      BY <3>1, <3>2
  <2> QED
    BY <2>1, <2>2
<1> HIDE DEF s
<1>9. rq[p] \in [Pri -> Seq(Tsk)]
  BY <1>1
<1> QED
  BY <1>3, <1>4, <1>6, <1>7, <1>8, <1>9 DEF PCB

LEMMA InitialTcbFacts ==
    /\ InitialTcb \in [Tsk -> TCB]
    /\ \A t \in Tsk :
          /\ InitialTcb[t].tstat = IF t \in TaAct THEN {"RUNNABLE"} ELSE DORMANT
          /\ InitialTcb[t].tskctxb = IF t \in TaAct THEN "start_r" ELSE "none"
          /\ InitialTcb[t].p_pcb = iprcid[t] /\ InitialTcb[t].priority = ipriority[t]
          /\ InitialTcb[t].actprc = NULL /\ InitialTcb[t].tmevtb = NULL
          /\ InitialTcb[t].subpri = SUBPRI_MAX /\ ~InitialTcb[t].boosted
          /\ ~InitialTcb[t].actque /\ ~InitialTcb[t].wupque
          /\ ~InitialTcb[t].raster /\ InitialTcb[t].enater
<1>1. ASSUME NEW t \in Tsk
      PROVE  /\ ipriority[t] \in Pri /\ iprcid[t] \in Prc /\ SUBPRI_MAX \in SubPri
             /\ (IF t \in TaAct THEN {"RUNNABLE"} ELSE DORMANT) \in SUBSET Bits
             /\ (IF t \in TaAct THEN "start_r" ELSE "none") \in Contexts
  BY ConfigAssumption DEF SubPri, Bits, DORMANT, Contexts
<1> QED
  BY <1>1 DEF InitialTcb, TCB

LEMMA InitStep ==
    ASSUME Init
    PROVE  IInv
<1>1. PICK rq \in [Prc -> [Pri -> Arrangements(TaAct)]] :
         /\ \A p \in Prc, pri \in Pri : ToSet(rq[p][pri]) = ReadyAtStart(p, pri)
         /\ ker = [tcb |-> InitialTcb, pcb |-> [p \in Prc |-> InitialPcb(rq, p)],
                   ipi |-> {}]
  BY DEF Init
<1>2. /\ run = [p \in Prc |-> NULL] /\ mode = [p \in Prc |-> "disp"]
      /\ at = [p \in Prc |-> "user"]
  BY DEF Init
<1>3. ASSUME NEW p \in Prc
      PROVE  /\ ker.pcb[p] \in PCB /\ ker.pcb[p].ready_queue = rq[p]
             /\ ker.pcb[p].ready_primap = {pri \in Pri : rq[p][pri] # << >>}
             /\ ker.pcb[p].dspflg /\ ker.pcb[p].enadsp /\ ~ker.pcb[p].ipm
             /\ IsTop(ker, p, Schedtsk(ker, p))
  <2>1. rq[p] \in [Pri -> Arrangements(TaAct)]
    OBVIOUS
  <2>2. ker.pcb[p] = InitialPcb(rq, p)
    BY <1>1
  <2> DEFINE s == InitialPcb(rq, p).p_schedtsk
  <2>3. /\ InitialPcb(rq, p) \in PCB
        /\ InitialPcb(rq, p).ready_queue = rq[p]
        /\ InitialPcb(rq, p).ready_primap = {pri \in Pri : rq[p][pri] # << >>}
        /\ InitialPcb(rq, p).dspflg /\ InitialPcb(rq, p).enadsp /\ ~InitialPcb(rq, p).ipm
        /\ \/ s = NULL /\ \A pri \in Pri : rq[p][pri] = << >>
           \/ \E pri \in Pri : /\ rq[p][pri] # << >> /\ s = Head(rq[p][pri])
                               /\ \A other \in Pri :
                                     other < pri => rq[p][other] = << >>
    BY <1>1, <2>1, InitialPcbFacts
  <2>4. Schedtsk(ker, p) = s /\ \A pri \in Pri : Queue(ker, p, pri) = rq[p][pri]
    BY <2>2, <2>3 DEF Schedtsk, Queue
  <2> HIDE DEF s
  <2>5. IsTop(ker, p, s)
    BY <2>3, <2>4 DEF IsTop
  <2> QED
    BY <2>2, <2>3, <2>4, <2>5
<1>4. ker.tcb = InitialTcb /\ ker \in Kernel
  <2>1. [p \in Prc |-> InitialPcb(rq, p)] \in [Prc -> PCB]
    BY <1>1, InitialPcbFacts
  <2> QED
    BY <1>1, <2>1, InitialTcbFacts DEF Kernel
<1>5. Ready(ker) = TaAct
  BY <1>4, InitialTcbFacts, ConfigAssumption DEF Ready, TstatRunnable, DORMANT
<1>6. QueuesHold(ker, TaAct)
  <2> SUFFICES ASSUME NEW p \in Prc, NEW pri \in Pri
               PROVE  /\ IsInjective(Queue(ker, p, pri))
                      /\ ToSet(Queue(ker, p, pri)) =
                            {t \in TaAct : ker.tcb[t].p_pcb = p /\ ker.tcb[t].priority = pri}
                      /\ pri \in ker.pcb[p].ready_primap <=> Queue(ker, p, pri) # << >>
                      /\ Ordered(ker.tcb, pri, Queue(ker, p, pri))
    BY DEF QueuesHold
  <2>1. Queue(ker, p, pri) = rq[p][pri] /\ rq[p][pri] \in Arrangements(TaAct)
    BY <1>3 DEF Queue
  <2>2. ToSet(rq[p][pri]) = {t \in TaAct : iprcid[t] = p /\ ipriority[t] = pri}
    BY <1>1 DEF ReadyAtStart
  <2>3. rq[p][pri] \in Seq(Tsk) /\ IsInjective(rq[p][pri])
    BY <2>1, ArrangementFacts
  <2>4. Ordered(ker.tcb, pri, rq[p][pri])
    <3>1. \A t \in Tsk : Subpri(ker.tcb)[t] = SUBPRI_MAX
      BY <1>4, InitialTcbFacts DEF Subpri
    <3>2. \A i \in 1 .. Len(rq[p][pri]) : rq[p][pri][i] \in Tsk
      BY <2>3
    <3> QED
      BY <3>1, <3>2, ConfigAssumption DEF Ordered, Sorted
  <2> QED
    BY <1>3, <1>4, <2>1, <2>2, <2>3, <2>4, InitialTcbFacts, ConfigAssumption
<1>7. Sound(ker)
  BY <1>3, <1>4, <1>5, <1>6 DEF Sound, Scheduled
<1>8. TypeOK
  BY <1>2, <1>4 DEF TypeOK, Modes, Places, Locations
<1>9. \A p \in Prc : PlaceAt(p) /\ HoldAt(p) /\ PinnedAt(p) /\ DispatchAt(p)
  BY <1>2, <1>3 DEF PlaceAt, HoldAt, PinnedAt, DispatchAt, pcb
<1>10. ASSUME NEW t \in Tsk PROVE ContextOf(t) /\ StateOf(ker, t) /\ PendingOf(t)
  <2>1. /\ ker.tcb[t].tstat = IF t \in TaAct THEN {"RUNNABLE"} ELSE DORMANT
        /\ ker.tcb[t].tskctxb = IF t \in TaAct THEN "start_r" ELSE "none"
        /\ ker.tcb[t].p_pcb \in affinity[t]
        /\ ker.tcb[t].actprc = NULL /\ ker.tcb[t].tmevtb = NULL
        /\ ~ker.tcb[t].actque /\ ~ker.tcb[t].wupque
        /\ ~ker.tcb[t].raster /\ ker.tcb[t].enater
    BY <1>4, InitialTcbFacts, ConfigAssumption
  <2>2. PendingOf(t)
    BY <2>1 DEF PendingOf, Deferred
  <2>3. CASE t \in TaAct
    BY <2>1, <2>2, <2>3 DEF ContextOf, StateOf, TcbState, TstatDormant, TstatSuspended,
                            DORMANT, tcb
  <2>4. CASE t \notin TaAct
    BY <2>1, <2>2, <2>4 DEF ContextOf, StateOf, TcbState, TstatDormant, TstatSuspended,
                            DORMANT, tcb
  <2> QED
    BY <2>3, <2>4
<1> QED
  BY <1>7, <1>8, <1>9, <1>10 DEF IInv

----------------------------------------------------------------------------
\* The theorems

\* The invariant holds in every state that the kernel reaches.
THEOREM Invariance ==
    ASSUME NoSelfMigrationSuspended
    PROVE  Spec => []IInv
<1>1. Init => IInv
  BY InitStep
<1>2. IInv /\ [Next]_vars => IInv'
  BY NextStep
<1> QED
  BY <1>1, <1>2, PTL DEF Spec

\* Type correctness of the kernel data and of the registers.
THEOREM TypeCorrect ==
    ASSUME NoSelfMigrationSuspended
    PROVE  Spec => []TypeOK
<1>1. IInv => TypeOK
  BY DEF IInv
<1> QED
  BY <1>1, Invariance, PTL

\* When the dispatcher jumps to a TCB, the TCB holds a context that has not
\* been resumed yet, whatever the other processors did since it was chosen.
THEOREM ResumeCorrect ==
    ASSUME NoSelfMigrationSuspended
    PROVE  Spec => []NoStaleResume
<1>1. IInv => NoStaleResume
  BY DEF IInv, NoStaleResume, HoldAt
<1> QED
  BY <1>1, Invariance, PTL

\* The execution state of a task is in one place: no two processors ever
\* execute the same task, and none executes one whose context is in its TCB.
THEOREM ContextInOnePlace ==
    ASSUME NoSelfMigrationSuspended
    PROVE  Spec => []ContextExclusive
<1>1. IInv => ContextExclusive
  <2> SUFFICES ASSUME IInv, NEW t \in Tsk
               PROVE  /\ tcb[t].tskctxb # "none" => \A p \in Prc : ~Holds(p, t)
                      /\ \A p, q \in Prc : Executes(p, t) /\ Executes(q, t) => p = q
    BY DEF ContextExclusive, Executes
  <2>1. ASSUME NEW p \in Prc, Holds(p, t) PROVE tcb[t].tskctxb = "none"
    BY <2>1, ExecutesFacts DEF Holds, Executes
  <2>2. ASSUME NEW p \in Prc, NEW q \in Prc, Executes(p, t), Executes(q, t) PROVE p = q
    BY <2>2, ExecutesFacts
  <2> QED
    BY <2>1, <2>2
<1> QED
  BY <1>1, Invariance, PTL

\* A processor on which dispatching is disabled stays with its task.
THEOREM PinnedTask ==
    ASSUME NoSelfMigrationSuspended
    PROVE  Spec => []DispatchDisabledPinned
<1>1. IInv => DispatchDisabledPinned
  BY DEF IInv, DispatchDisabledPinned, PinnedAt
<1> QED
  BY <1>1, Invariance, PTL

\* The ready queues hold exactly the runnable tasks, on their processors and
\* at their priorities, and the bitmap says which queues are in use.
THEOREM QueuesCorrect ==
    ASSUME NoSelfMigrationSuspended
    PROVE  Spec => []ReadyQueueCorrect
<1>1. IInv => ReadyQueueCorrect
  <2> SUFFICES ASSUME IInv, NEW p \in Prc PROVE
         /\ \A pri \in Pri :
               /\ IsInjective(Queue(ker, p, pri))
               /\ ToSet(Queue(ker, p, pri)) =
                     {t \in Tsk : /\ TstatRunnable(ker, t)
                                  /\ tcb[t].p_pcb = p /\ tcb[t].priority = pri}
         /\ pcb[p].ready_primap = {pri \in Pri : Queue(ker, p, pri) # << >>}
    BY DEF ReadyQueueCorrect
  <2>1. ker \in Kernel /\ QueuesHold(ker, Ready(ker))
    BY DEF IInv, Sound
  <2>2. pcb[p].ready_primap \in SUBSET Pri
    BY <2>1, KernelFields DEF pcb
  <2>3. ASSUME NEW pri \in Pri
        PROVE  /\ IsInjective(Queue(ker, p, pri))
               /\ ToSet(Queue(ker, p, pri)) =
                     {t \in Tsk : /\ TstatRunnable(ker, t)
                                  /\ tcb[t].p_pcb = p /\ tcb[t].priority = pri}
               /\ pri \in pcb[p].ready_primap <=> Queue(ker, p, pri) # << >>
    BY <2>1 DEF QueuesHold, Ready, tcb, pcb
  <2> QED
    BY <2>2, <2>3
<1> QED
  BY <1>1, Invariance, PTL

\* The first of the highest queue is Highest.
LEMMA TopIsHighest ==
    ASSUME NEW k, NEW p, NEW s, IsTop(k, p, s)
    PROVE  s = Highest(k, p)
<1> DEFINE used == {pri \in Pri : Queue(k, p, pri) # << >>}
           low  == CHOOSE pri \in used : \A other \in used : pri <= other
<1>1. Highest(k, p) = IF used = {} THEN NULL ELSE Head(Queue(k, p, low))
  BY DEF Highest
<1>2. CASE s = NULL /\ \A pri \in Pri : Queue(k, p, pri) = << >>
  <2>1. used = {}
    BY <1>2
  <2> QED
    BY <1>1, <1>2, <2>1
<1>3. ASSUME NEW pri \in Pri, Queue(k, p, pri) # << >>, s = Head(Queue(k, p, pri)),
             \A other \in Pri : other < pri => Queue(k, p, other) = << >>
      PROVE  s = Highest(k, p)
  <2>1. pri \in used /\ \A other \in used : pri <= other
    <3>1. ASSUME NEW other \in used PROVE pri <= other
      <4>1. other \in Pri /\ ~(other < pri)
        BY <1>3
      <4> QED
        BY <4>1, ConfigAssumption DEF Pri
    <3> QED
      BY <1>3, <3>1
  <2>2. used \in SUBSET Nat
    BY DEF Pri
  <2> HIDE DEF used
  <2>3. low \in used /\ \A other \in used : low <= other
    <3>1. \E m \in used : \A other \in used : m <= other
      BY <2>1
    <3> QED
      BY <3>1
  <2> HIDE DEF low
  <2>4. low = pri
    <3>1. low \in Nat /\ pri \in Nat /\ low <= pri /\ pri <= low
      BY <2>1, <2>2, <2>3
    <3> QED
      BY <3>1
  <2> QED
    BY <1>1, <1>3, <2>1, <2>4
<1> QED
  BY <1>2, <1>3 DEF IsTop

\* While dispatching is enabled, p_schedtsk is the first task of the highest
\* ready queue, whatever sequence of calls on whatever processors led there.
THEOREM SchedtskCorrect ==
    ASSUME NoSelfMigrationSuspended
    PROVE  Spec => []SchedtskIsTop
<1>1. IInv => SchedtskIsTop
  BY TopIsHighest DEF IInv, Sound, Scheduled, SchedtskIsTop, pcb
<1> QED
  BY <1>1, Invariance, PTL

\* A processor that has settled on a task, or on idling, while another task is
\* scheduled has a dispatch request interrupt coming: no request is lost,
\* whichever processor made it and wherever this one was.
THEOREM NoDispatchLost ==
    ASSUME NoSelfMigrationSuspended
    PROVE  Spec => []NoLostDispatch
<1>1. IInv => NoLostDispatch
  BY DEF IInv, NoLostDispatch, DispatchAt
<1> QED
  BY <1>1, Invariance, PTL

\* A ready queue with sub-priorities is in their order.
LEMMA OrderedBySubpri ==
    ASSUME IInv
    PROVE  SubprioOrder
<1> SUFFICES ASSUME NEW p \in Prc, NEW pri \in SubprioPri,
                    NEW i \in DOMAIN Queue(ker, p, pri),
                    NEW j \in DOMAIN Queue(ker, p, pri), i < j
             PROVE  CurrentSubpri(ker, Queue(ker, p, pri)[i])
                       <= CurrentSubpri(ker, Queue(ker, p, pri)[j])
  BY DEF SubprioOrder
<1> DEFINE q == Queue(ker, p, pri)
<1>1. pri \in Pri /\ ker \in Kernel /\ QueuesHold(ker, Ready(ker))
  BY ConfigAssumption DEF IInv, Sound
<1>2. q \in Seq(Tsk) /\ ker.tcb \in [Tsk -> TCB]
  BY <1>1, KernelFields
<1>3. Sorted(q, Subpri(ker.tcb))
  BY <1>1 DEF QueuesHold, Ordered
<1> HIDE DEF q
<1>4. i \in 1 .. Len(q) /\ j \in 1 .. Len(q) /\ q[i] \in Tsk /\ q[j] \in Tsk
  BY <1>2 DEF q
<1>5. Subpri(ker.tcb)[q[i]] <= Subpri(ker.tcb)[q[j]]
  BY <1>3, <1>4 DEF Sorted
<1> QED
  BY <1>2, <1>4, <1>5, SubpriFacts DEF q

\* The state of a task, its place in its queue, its time event and its
\* processor agree, whatever sequence of calls on whatever processors moved it.
THEOREM TasksAgreeCorrect ==
    ASSUME NoSelfMigrationSuspended
    PROVE  Spec => []TasksAgree
<1>1. ASSUME IInv PROVE TasksAgree
  <2>1. \A t \in Tsk : TcbState(t, tcb[t])
    BY <1>1 DEF IInv, StateOf, tcb
  <2>2. TaskStates
    BY <2>1 DEF TaskStates, TcbState, TstatRunnable, TstatDormant, tcb
  <2>3. TimeEventOnOwner
    BY <2>1 DEF TimeEventOnOwner, TcbState, TstatWaiting, tcb
  <2>4. AssignedWithinAffinity
    BY <2>1 DEF AssignedWithinAffinity, TcbState
  <2> QED
    BY <1>1, <2>2, <2>3, <2>4, OrderedBySubpri DEF TasksAgree
<1> QED
  BY <1>1, Invariance, PTL

\* A termination that was requested finds its task ready to run, and once the
\* task may be terminated only disabled dispatching keeps it back; dispatching
\* is disabled exactly as dis_dsp and chg_ipm have left it, and the processor
\* then stays with the task that disabled it.
THEOREM NothingKept ==
    ASSUME NoSelfMigrationSuspended
    PROVE  Spec => []NothingKeptBack
<1>1. ASSUME IInv PROVE NothingKeptBack
  <2>1. \A t \in Tsk : TcbState(t, tcb[t]) /\ PendingOf(t)
    BY <1>1 DEF IInv, StateOf, tcb
  <2>2. TerminationNotLost
    BY <2>1 DEF TerminationNotLost, TcbState, PendingOf, Deferred, Pins, tcb
  <2>3. DspflgMeaning /\ DispatchDisabledPinned
    BY <1>1 DEF IInv, DispatchAt, PinnedAt, DspflgMeaning, DispatchDisabledPinned
  <2> QED
    BY <2>2, <2>3 DEF NothingKeptBack
<1> QED
  BY <1>1, Invariance, PTL

\* A suspended task stays suspended until rsm_tsk, or the end of a task:
\* neither its own calls on the processor it still runs on, nor a wake-up, a
\* timeout, a change of its priority or its migration end the suspension.
THEOREM SuspensionKept ==
    ASSUME NoSelfMigrationSuspended
    PROVE  Spec => SuspensionHolds
<1> DEFINE Kept == \A t \in Tsk : TstatSuspended(ker, t) /\ ~TstatSuspended(ker', t) =>
                      \E p \in Prc : rsm_tsk(p) \/ ras_ter(p) \/ ter_tsk(p) \/ ext_tsk(p)
<1>1. IInv /\ [Next]_vars => [Kept]_vars
  BY NextStep DEF KeepsSuspended, Releases
<1> QED
  BY <1>1, Invariance, PTL DEF Spec, SuspensionHolds

----------------------------------------------------------------------------
\* Migration

\* A step of p in task context or in an interrupt handler, which leaves
\* p_runtsk to the dispatchers and the other processors as they are.
AtWork(p) ==
    /\ mode[p] \in {"task", "int"}
    /\ run' = run
    /\ \A q \in Prc \ {p} : mode'[q] = mode[q]

LEMMA EndsAtWork ==
    ASSUME mode \in [Prc -> Modes], NEW p \in Prc, mode[p] \in {"task", "int"}, NEW k,
           EndCall(p, k) \/ Return(k) \/ ExitSelf(p, k) \/ WaitCall(p, k) \/ EnableDispatch(p, k)
    PROVE  AtWork(p)
BY DEF EndCall, Return, ExitSelf, WaitCall, EnableDispatch, AtWork

LEMMA WorkOrDispatch ==
    ASSUME mode \in [Prc -> Modes], NEW p \in Prc, Step(p)
    PROVE  \/ AtWork(p)
           \/ save_context(p) \/ dispatcher(p) \/ resume(p)
           \/ dispatch_handler(p) \/ int_entry(p) \/ int_exit(p)
<1> USE DEF InTask, InAny
<1>1. CASE act_tsk(p) \/ mact_tsk(p) \/ can_act(p)
  BY <1>1, EndsAtWork DEF act_tsk, mact_tsk, can_act, Activate
<1>2. CASE mig_self(p) \/ mig_tsk(p)
  <2>1. ASSUME NEW t, NEW prc, MigrateTask(p, t, prc), mode[p] = "task"
        PROVE  AtWork(p)
    <3>1. mode' = mode \/ mode' = [mode EXCEPT ![p] = "disp"]
      BY <2>1 DEF MigrateTask, MigrateBlocked, MigrateSelf, MigrateOther, Return
    <3>2. run' = run
      BY <2>1 DEF MigrateTask, MigrateBlocked, MigrateSelf, MigrateOther, Return
    <3> QED
      BY <2>1, <3>1, <3>2 DEF AtWork
  <2> QED
    BY <1>2, <2>1 DEF mig_self, mig_tsk
<1>3. CASE chg_pri(p) \/ chg_spr(p) \/ rot_rdq(p) \/ mrot_rdq(p)
  BY <1>3, EndsAtWork DEF chg_pri, chg_spr, rot_rdq, mrot_rdq
<1>4. CASE ext_tsk_wait(p) \/ loc_cpu(p) \/ unl_cpu(p)
  BY <1>4 DEF ext_tsk_wait, loc_cpu, unl_cpu, AtWork
<1>5. CASE ext_tsk(p) \/ ter_tsk(p) \/ ras_ter(p) \/ dis_ter(p) \/ ena_ter(p)
  BY <1>5, EndsAtWork DEF ext_tsk, ter_tsk, ras_ter, RequestTermination, dis_ter, ena_ter
<1>6. CASE slp_tsk(p) \/ tslp_tsk(p) \/ dly_tsk(p)
  BY <1>6, EndsAtWork DEF slp_tsk, tslp_tsk, dly_tsk, MayWait, TakeWupque
<1>7. CASE wup_tsk(p) \/ can_wup(p) \/ rel_wai(p) \/ wait_tmout(p)
  BY <1>7, EndsAtWork DEF wup_tsk, can_wup, rel_wai, wait_tmout
<1>8. CASE sus_tsk(p) \/ rsm_tsk(p)
  BY <1>8, EndsAtWork DEF sus_tsk, rsm_tsk
<1>9. CASE dis_dsp(p) \/ ena_dsp(p) \/ chg_ipm(p)
  BY <1>9, EndsAtWork DEF dis_dsp, ena_dsp, chg_ipm, Retrying, RetryAt, AtWork
<1> QED
  BY <1>1, <1>2, <1>3, <1>4, <1>5, <1>6, <1>7, <1>8, <1>9 DEF Step

\* A processor begins to execute on behalf of a task only by its dispatcher.
LEMMA NewHolder ==
    ASSUME IInv, Next, NEW q \in Prc, NEW t \in Tsk, Holds(q, t)'
    PROVE  Executes(q, t)
<1>1. PICK p \in Prc : Step(p)
  BY DEF Next
<1>2. mode \in [Prc -> Modes] /\ run \in [Prc -> Tsk \cup {NULL}]
  BY DEF IInv, TypeOK
<1>3. run'[q] = t /\ mode'[q] \in {"task", "int", "save"}
  BY DEF Holds
<1>4. NULL \notin Tsk
  BY ConfigAssumption
<1>5. CASE AtWork(p)
  BY <1>3, <1>5 DEF AtWork, Executes
<1>6. CASE dispatcher(p)
  BY <1>2, <1>3, <1>6 DEF dispatcher, Executes, Modes
<1>7. CASE save_context(p) \/ resume(p) \/ int_exit(p)
  BY <1>2, <1>3, <1>7 DEF save_context, resume, int_exit, Executes
<1>8. CASE dispatch_handler(p) \/ int_entry(p)
  BY <1>2, <1>3, <1>4, <1>8
     DEF dispatch_handler, int_entry, Interruptible, Executes, IInv, HoldAt
<1> QED
  BY <1>1, <1>2, <1>5, <1>6, <1>7, <1>8, WorkOrDispatch

\* A task that is not dormant moves to another processor only with its context
\* saved in its TCB: whoever its new processor is, it can resume the task.
THEOREM MigrationKeepsContext ==
    ASSUME NoSelfMigrationSuspended
    PROVE  Spec => MigrateWithContext
<1> DEFINE Moves == \A t \in Tsk : ker'.tcb[t].p_pcb # tcb[t].p_pcb =>
                       ker'.tcb[t].tstat = DORMANT \/ ker'.tcb[t].tskctxb # "none"
<1>1. ASSUME IInv, IInv', [Next]_vars PROVE [Moves]_vars
  <2> SUFFICES ASSUME Next, NEW t \in Tsk, ker'.tcb[t].p_pcb # tcb[t].p_pcb,
                      ker'.tcb[t].tstat # DORMANT, ker'.tcb[t].tskctxb = "none"
               PROVE  FALSE
    BY <1>1
  <2>1. /\ ker'.tcb[t].p_pcb \in Prc /\ tcb[t] \in TCB
        /\ Holds(tcb[t].p_pcb, t)'
    BY <1>1 DEF IInv, TypeOK, Kernel, TCB, ContextOf, TstatDormant, tcb
  <2>2. PICK q \in Prc : q = ker'.tcb[t].p_pcb
    BY <2>1
  <2>3. Holds(q, t)'
    BY <2>1, <2>2 DEF Holds, tcb
  <2>4. Executes(q, t)
    BY <1>1, <2>3, NewHolder
  <2> QED
    BY <1>1, <2>2, <2>4, ExecutesFacts
<1> QED
  BY <1>1, Invariance, PTL DEF Spec, MigrateWithContext
==============================================================================
