----------------------------- MODULE ObjectProofs -----------------------------
(***************************************************************************)
(* The wait queues, the semaphores, the mutexes, the event flags and the   *)
(* data queues are correct for every number of tasks, objects and          *)
(* priorities, whatever ends the waits: a queue holds the tasks that wait  *)
(* in it, in its order; nobody waits for what is available; a semaphore    *)
(* implements a shared resource; tasks and mutexes agree about who holds   *)
(* what, a task has the priority that its mutexes give it, and a mutex     *)
(* goes to the first of the tasks that wait; a task released by an event   *)
(* flag gets what it asked for; a data queue implements a FIFO channel.    *)
(***************************************************************************)
EXTENDS Semaphore, Mutex, Eventflag, Dataqueue, QueuesProofs

----------------------------------------------------------------------------
\* The invariant of the waits

\* Of one task: it waits for an object or not, only a waiting task has a time
\* event, a termination request finds it runnable, and a task that is runnable
\* or still executed by its processor does not wait.
TcbOk(c) ==
    /\ "WAITING" \in c.tstat <=> c.p_wobjcb # NULL
    /\ c.tmevtb => "WAITING" \in c.tstat
    /\ c.raster => "RUNNABLE" \in c.tstat
    /\ "RUNNABLE" \in c.tstat => c.tstat = {"RUNNABLE"}
    /\ c.transient => c.tstat = {"SUSPENDED"}

PriorityOf(k) == [t \in Tsk |-> k.tcb[t].priority]

\* Of one wait queue.
QueueOk(k, w) ==
    /\ IsInjective(k.wait[w])
    /\ Range(k.wait[w]) = {t \in Tsk : k.tcb[t].p_wobjcb = w}
    /\ w \in k.tpri => Sorted(k.wait[w], PriorityOf(k))

WaitOk(k) ==
    /\ k \in KerType
    /\ \A w \in WaitQueue : QueueOk(k, w)
    /\ \A t \in Tsk : TcbOk(k.tcb[t])

\* What an object sees of the waits: who waits for it, and the results.
Waiters(k) == [w \in WaitQueue |-> Range(k.wait[w])]

ResultOf(c) == IF "WAITING" \in c.tstat THEN "pending"
               ELSE IF c.wercd = "E_OK" THEN "granted" ELSE "none"

Results(k) == [t \in Tsk |-> ResultOf(k.tcb[t])]

\* Opaque names for the functions with one new value.
WithWaiter(W, w, t)    == [W EXCEPT ![w] = @ \cup {t}]
WithoutWaiter(W, w, t) == [W EXCEPT ![w] = @ \ {t}]
WithResult(R, t, r)    == [R EXCEPT ![t] = r]
SetTcb(k, t, c)        == [k EXCEPT !.tcb[t] = c]
SetWait(k, w, d)       == [k EXCEPT !.wait[w] = d]
NewQueue(k, w, T)      == [k EXCEPT !.wait[w] = << >>, !.tpri = T]

OthersKept(k, k2, t) == \A u \in Tsk : u # t => k2.tcb[u] = k.tcb[u]

LEMMA KerFields ==
    ASSUME NEW k \in KerType
    PROVE  /\ k.tcb \in [Tsk -> TCB] /\ k.wait \in [WaitQueue -> Seq(Tsk)]
           /\ k.tpri \in SUBSET WaitQueue
BY DEF KerType

LEMMA PriorityIsNat ==
    ASSUME WaitAssumption, NEW k \in KerType
    PROVE  PriorityOf(k) \in [Tsk -> Nat]
BY DEF WaitAssumption, KerType, TCB, Pri, PriorityOf

LEMMA ResultsChange ==
    ASSUME NEW k, NEW k2, NEW t \in Tsk, OthersKept(k, k2, t)
    PROVE  Results(k2) = WithResult(Results(k), t, ResultOf(k2.tcb[t]))
BY DEF Results, OthersKept, WithResult

\* A task changes, but not the queue in which it waits.
LEMMA LocalStep ==
    ASSUME WaitAssumption, NEW k, NEW k2 \in KerType, NEW t \in Tsk, WaitOk(k),
           k2.wait = k.wait, k2.tpri = k.tpri, OthersKept(k, k2, t), TcbOk(k2.tcb[t]),
           k2.tcb[t].p_wobjcb = k.tcb[t].p_wobjcb,
           k2.tcb[t].priority = k.tcb[t].priority \/ k.tcb[t].p_wobjcb = NULL
    PROVE  /\ WaitOk(k2) /\ Waiters(k2) = Waiters(k)
           /\ Results(k2) = WithResult(Results(k), t, ResultOf(k2.tcb[t]))
<1>1. k \in KerType
  BY DEF WaitOk
<1>2. \A u \in Tsk : TcbOk(k2.tcb[u]) /\ k2.tcb[u].p_wobjcb = k.tcb[u].p_wobjcb
  BY DEF WaitOk, OthersKept
<1>3. ASSUME NEW w \in WaitQueue
      PROVE  QueueOk(k2, w)
  <2>1. QueueOk(k, w) /\ k.wait[w] \in Seq(Tsk)
    BY <1>1, KerFields DEF WaitOk
  <2>2. \A u \in Range(k.wait[w]) : PriorityOf(k)[u] = PriorityOf(k2)[u]
    <3>. SUFFICES ASSUME NEW u \in Range(k.wait[w])
                  PROVE  PriorityOf(k)[u] = PriorityOf(k2)[u]
      OBVIOUS
    <3>1. u \in Tsk /\ k.tcb[u].p_wobjcb = w /\ w # NULL
      BY <2>1 DEF QueueOk, WaitAssumption
    <3>2. k2.tcb[u].priority = k.tcb[u].priority
      BY <3>1 DEF OthersKept
    <3>3. QED
      BY <3>1, <3>2 DEF PriorityOf
  <2>3. w \in k2.tpri => Sorted(k2.wait[w], PriorityOf(k2))
    BY <2>1, <2>2, SortedKept DEF QueueOk
  <2>4. QED
    BY <2>1, <2>3, <1>2 DEF QueueOk
<1>4. Waiters(k2) = Waiters(k)
  BY DEF Waiters
<1>5. QED
  BY <1>2, <1>3, <1>4, ResultsChange DEF WaitOk

\* A task stops waiting.
Leaves(k, k2, t, w) ==
    /\ k2.tpri = k.tpri /\ OthersKept(k, k2, t)
    /\ \A v \in WaitQueue : v # w => k2.wait[v] = k.wait[v]
    /\ \E i \in 1 .. Len(k.wait[w]) : k.wait[w][i] = t /\ Removed(k.wait[w], i, k2.wait[w])
    /\ k2.tcb[t].p_wobjcb = NULL /\ TcbOk(k2.tcb[t])

LEMMA LeaveStep ==
    ASSUME WaitAssumption, NEW k, NEW k2 \in KerType, NEW t \in Tsk, NEW w \in WaitQueue,
           WaitOk(k), Leaves(k, k2, t, w)
    PROVE  /\ WaitOk(k2) /\ t \in Waiters(k)[w]
           /\ Waiters(k2) = WithoutWaiter(Waiters(k), w, t)
           /\ Results(k2) = WithResult(Results(k), t, ResultOf(k2.tcb[t]))
<1>1. /\ k.wait[w] \in Seq(Tsk) /\ k2.wait[w] \in Seq(Tsk)
      /\ k.wait \in [WaitQueue -> Seq(Tsk)] /\ k2.wait \in [WaitQueue -> Seq(Tsk)]
  BY KerFields DEF WaitOk
<1>2. QueueOk(k, w)
  BY DEF WaitOk
<1>3. PICK i \in 1 .. Len(k.wait[w]) : k.wait[w][i] = t /\ Removed(k.wait[w], i, k2.wait[w])
  BY DEF Leaves
<1>4. /\ IsInjective(k2.wait[w]) /\ Range(k2.wait[w]) = Range(k.wait[w]) \ {t}
      /\ w \in k.tpri => Sorted(k2.wait[w], PriorityOf(k))
  <2>. DEFINE q == k.wait[w]
              d == k2.wait[w]
              f == PriorityOf(k)
  <2>1. q \in Seq(Tsk) /\ d \in Seq(Tsk) /\ IsInjective(q) /\ Removed(q, i, d) /\ q[i] = t
    BY <1>1, <1>2, <1>3 DEF QueueOk
  <2>2. w \in k.tpri => Sorted(q, f)
    BY <1>2 DEF QueueOk
  <2>3. i \in 1 .. Len(q)
    OBVIOUS
  <2>. HIDE DEF q, d, f
  <2>4. /\ IsInjective(d) /\ Range(d) = Range(q) \ {q[i]}
        /\ Sorted(q, f) => Sorted(d, f)
    BY <2>1, <2>3, RemoveFacts
  <2>5. IsInjective(d) /\ Range(d) = Range(q) \ {t} /\ (w \in k.tpri => Sorted(d, f))
    BY <2>1, <2>2, <2>4
  <2>6. QED
    BY <2>5 DEF q, d, f
<1>5. t \in Range(k.wait[w])
  BY <1>1, <1>3, LenProperties DEF Range
<1>6. k.tcb[t].p_wobjcb = w
  BY <1>2, <1>5 DEF QueueOk
<1>7. \A v \in WaitQueue : \A u \in Range(k2.wait[v]) : u \in Tsk /\ u # t
  <2>. SUFFICES ASSUME NEW v \in WaitQueue, NEW u \in Range(k2.wait[v])
                PROVE  u \in Tsk /\ u # t
    OBVIOUS
  <2>1. CASE v = w
    BY <2>1, <1>4, <1>2 DEF QueueOk
  <2>2. CASE v # w
    <3>1. QueueOk(k, v) /\ k2.wait[v] = k.wait[v]
      BY <2>2 DEF WaitOk, Leaves
    <3>2. QED
      BY <3>1, <2>2, <1>6 DEF QueueOk
  <2>3. QED
    BY <2>1, <2>2
<1>8. \A v \in WaitQueue : \A u \in Range(k2.wait[v]) : PriorityOf(k)[u] = PriorityOf(k2)[u]
  BY <1>7 DEF PriorityOf, Leaves, OthersKept
<1>9. ASSUME NEW v \in WaitQueue
      PROVE  QueueOk(k2, v)
  <2>1. CASE v = w
    <3>1. w \in k2.tpri => Sorted(k2.wait[w], PriorityOf(k2))
      <4>1. w \in k2.tpri => Sorted(k2.wait[w], PriorityOf(k))
        BY <1>4 DEF Leaves
      <4>2. QED
        BY <4>1, <1>1, <1>8, SortedKept
    <3>2. Range(k2.wait[w]) = {u \in Tsk : k2.tcb[u].p_wobjcb = w}
      BY <1>4, <1>2 DEF QueueOk, Leaves, OthersKept, WaitAssumption
    <3>3. QED
      BY <2>1, <3>1, <3>2, <1>4 DEF QueueOk
  <2>2. CASE v # w
    <3>1. QueueOk(k, v) /\ k2.wait[v] = k.wait[v] /\ k2.wait[v] \in Seq(Tsk)
      BY <2>2, <1>1 DEF WaitOk, Leaves
    <3>2. v \in k2.tpri => Sorted(k2.wait[v], PriorityOf(k2))
      <4>1. v \in k2.tpri => Sorted(k2.wait[v], PriorityOf(k))
        BY <3>1 DEF Leaves, QueueOk
      <4>2. QED
        BY <4>1, <3>1, <1>8, SortedKept
    <3>3. Range(k2.wait[v]) = {u \in Tsk : k2.tcb[u].p_wobjcb = v}
      BY <3>1, <2>2, <1>6 DEF QueueOk, Leaves, OthersKept, WaitAssumption
    <3>4. QED
      BY <3>1, <3>2, <3>3 DEF QueueOk
  <2>3. QED
    BY <2>1, <2>2
<1>10. \A u \in Tsk : TcbOk(k2.tcb[u])
  BY DEF WaitOk, Leaves, OthersKept
<1>11. Waiters(k2) = WithoutWaiter(Waiters(k), w, t)
  BY <1>4 DEF Waiters, Leaves, WithoutWaiter
<1>12. Results(k2) = WithResult(Results(k), t, ResultOf(k2.tcb[t]))
  BY ResultsChange DEF Leaves
<1>13. QED
  BY <1>5, <1>9, <1>10, <1>11, <1>12 DEF WaitOk, Waiters

\* A task is inserted into the queue in which it waits from now on, or at
\* another place of it.
Joins(k, k2, t, w) ==
    /\ k2.tpri = k.tpri /\ OthersKept(k, k2, t)
    /\ \A v \in WaitQueue : v # w => k2.wait[v] = k.wait[v]
    /\ IsInjective(k2.wait[w]) /\ Range(k2.wait[w]) = Range(k.wait[w]) \cup {t}
    /\ w \in k.tpri => Sorted(k2.wait[w], PriorityOf(k2))
    /\ k.tcb[t].p_wobjcb \in {w, NULL}
    /\ k2.tcb[t].p_wobjcb = w /\ TcbOk(k2.tcb[t])

LEMMA JoinStep ==
    ASSUME WaitAssumption, NEW k, NEW k2 \in KerType, NEW t \in Tsk, NEW w \in WaitQueue,
           WaitOk(k), Joins(k, k2, t, w)
    PROVE  /\ WaitOk(k2)
           /\ Waiters(k2) = WithWaiter(Waiters(k), w, t)
           /\ Results(k2) = WithResult(Results(k), t, ResultOf(k2.tcb[t]))
<1>1. k.wait \in [WaitQueue -> Seq(Tsk)] /\ k2.wait \in [WaitQueue -> Seq(Tsk)]
  BY KerFields DEF WaitOk
<1>2. ASSUME NEW v \in WaitQueue
      PROVE  QueueOk(k2, v)
  <2>1. CASE v = w
    <3>1. Range(k.wait[w]) = {u \in Tsk : k.tcb[u].p_wobjcb = w}
      BY DEF WaitOk, QueueOk
    <3>2. Range(k2.wait[w]) = {u \in Tsk : k2.tcb[u].p_wobjcb = w}
      BY <3>1 DEF Joins, OthersKept
    <3>3. QED
      BY <2>1, <3>2 DEF QueueOk, Joins
  <2>2. CASE v # w
    <3>1. QueueOk(k, v) /\ k2.wait[v] = k.wait[v] /\ k2.wait[v] \in Seq(Tsk)
      BY <2>2, <1>1 DEF WaitOk, Joins
    <3>2. \A u \in Range(k2.wait[v]) : u \in Tsk /\ u # t
      BY <3>1, <2>2 DEF Joins, QueueOk, WaitAssumption
    <3>3. \A u \in Range(k2.wait[v]) : PriorityOf(k)[u] = PriorityOf(k2)[u]
      BY <3>2 DEF PriorityOf, Joins, OthersKept
    <3>4. v \in k2.tpri => Sorted(k2.wait[v], PriorityOf(k))
      BY <3>1 DEF Joins, QueueOk
    <3>5. v \in k2.tpri => Sorted(k2.wait[v], PriorityOf(k2))
      BY <3>4, <3>3, <3>1, SortedKept
    <3>6. Range(k2.wait[v]) = {u \in Tsk : k2.tcb[u].p_wobjcb = v}
      BY <3>1, <2>2 DEF Joins, OthersKept, QueueOk, WaitAssumption
    <3>7. QED
      BY <3>1, <3>5, <3>6 DEF QueueOk
  <2>3. QED
    BY <2>1, <2>2
<1>3. \A u \in Tsk : TcbOk(k2.tcb[u])
  BY DEF WaitOk, Joins, OthersKept
<1>4. Waiters(k2) = WithWaiter(Waiters(k), w, t)
  BY DEF Waiters, Joins, WithWaiter
<1>5. Results(k2) = WithResult(Results(k), t, ResultOf(k2.tcb[t]))
  BY ResultsChange DEF Joins
<1>6. QED
  BY <1>2, <1>3, <1>4, <1>5 DEF WaitOk

\* wobj_queue_insert
LEMMA WobjInserts ==
    ASSUME WaitAssumption, NEW k \in KerType, NEW w \in WaitQueue, NEW t \in Tsk,
           IsInjective(k.wait[w]), t \notin Range(k.wait[w]),
           w \in k.tpri => Sorted(k.wait[w], PriorityOf(k)),
           NEW d, d = WobjQueueInsert(k, w, t)
    PROVE  /\ d \in Seq(Tsk) /\ IsInjective(d) /\ Range(d) = Range(k.wait[w]) \cup {t}
           /\ w \in k.tpri => Sorted(d, PriorityOf(k))
<1>. DEFINE q == k.wait[w]
            f == PriorityOf(k)
            I == {j \in DOMAIN q : f[t] < f[q[j]]}
            i == FirstOrEnd(q, I)
<1>1. q \in Seq(Tsk) /\ IsInjective(q) /\ t \notin Range(q) /\ f \in [Tsk -> Nat]
  BY KerFields, PriorityIsNat
<1>2. \A s : ToSet(s) = Range(s)
  BY DEF ToSet, Range
<1>3. CASE w \in k.tpri
  <2>1. \A j \in DOMAIN q : q[j] \in Tsk
    BY <1>1, LenProperties
  <2>2. I = {j \in DOMAIN q : k.tcb[t].priority < k.tcb[q[j]].priority}
    BY <2>1 DEF PriorityOf
  <2>3. d = InsertAt(q, i, t)
    BY <1>3, <2>2 DEF WobjQueueInsert, QueueInsertTpri
  <2>4. Sorted(q, f)
    BY <1>3
  <2>. HIDE DEF q, f
  <2>5. i \in 1 .. Len(q) + 1 /\ Sorted(InsertAt(q, i, t), f)
    BY <1>1, <2>4, InsertSorted
  <2>. HIDE DEF i
  <2>6. d \in Seq(Tsk) /\ IsInjective(d) /\ Range(d) = Range(q) \cup {t}
    BY <2>3, <2>5, <1>1, <1>2, InsertFacts
  <2>7. Sorted(d, f)
    BY <2>3, <2>5
  <2>8. QED
    BY <2>6, <2>7 DEF q, f
<1>4. CASE w \notin k.tpri
  <2>1. d = QueueInsertPrev(q, t)
    BY <1>4 DEF WobjQueueInsert
  <2>2. QED
    BY <2>1, <1>1, <1>2, <1>4, AppendFacts
<1>5. QED
  BY <1>3, <1>4

\* The invariant gives what the objects rely on.
LEMMA WaitsAgreeFrom ==
    ASSUME WaitOk(ker)
    PROVE  WaitsAgree
<1>1. DOMAIN ker.wait = WaitQueue /\ DOMAIN tcb = Tsk
  BY DEF WaitOk, KerType, tcb
<1>2. QueueHoldsWaiters
  BY <1>1 DEF WaitOk, QueueOk, TcbOk, QueueHoldsWaiters, Waiting, tcb
<1>3. PriorityOrder
  <2>. SUFFICES ASSUME NEW w \in ker.tpri
                PROVE  \A i, j \in DOMAIN ker.wait[w] : i < j =>
                          tcb[ker.wait[w][i]].priority <= tcb[ker.wait[w][j]].priority
    BY DEF PriorityOrder
  <2>1. w \in WaitQueue /\ ker.wait[w] \in Seq(Tsk) /\ QueueOk(ker, w)
    BY KerFields DEF WaitOk
  <2>2. DOMAIN ker.wait[w] = 1 .. Len(ker.wait[w]) /\ \A i \in 1 .. Len(ker.wait[w]) : ker.wait[w][i] \in Tsk
    BY <2>1, LenProperties
  <2>3. QED
    BY <2>1, <2>2 DEF QueueOk, Sorted, PriorityOf, tcb
<1>4. TimeoutOfWaiter
  BY <1>1 DEF WaitOk, TcbOk, TimeoutOfWaiter, Waiting, tcb
<1>5. RasterNeverWaits
  BY <1>1 DEF WaitOk, TcbOk, RasterNeverWaits, Runnable, tcb
<1>6. QED
  BY <1>2, <1>3, <1>4, <1>5 DEF WaitsAgree

----------------------------------------------------------------------------
\* The functions of wait.[ch]

\* A step that changes the control block of one task.
LEMMA TcbSet ==
    ASSUME NEW k \in KerType, NEW t \in Tsk, NEW c \in TCB,
           NEW k2, k2 = SetTcb(k, t, c)
    PROVE  /\ k2 \in KerType /\ k2.tcb[t] = c
           /\ OthersKept(k, k2, t) /\ k2.wait = k.wait /\ k2.tpri = k.tpri
BY DEF KerType, OthersKept, SetTcb

\* A step that changes one wait queue.
LEMMA QueueSet ==
    ASSUME NEW k \in KerType, NEW w \in WaitQueue, NEW d \in Seq(Tsk),
           NEW k2, k2 = SetWait(k, w, d)
    PROVE  /\ k2 \in KerType /\ k2.tcb = k.tcb /\ k2.tpri = k.tpri
           /\ k2.wait[w] = d
           /\ \A v \in WaitQueue : v # w => k2.wait[v] = k.wait[v]
BY DEF KerType, SetWait

\* wobj_make_wait: a task that executes begins to wait.
LEMMA MakesWait ==
    ASSUME WaitAssumption, NEW k, WaitOk(k), NEW t \in Tsk, NEW w \in WaitQueue,
           NEW tmout \in BOOLEAN, NEW k2, k2 = WobjMakeWait(k, w, t, tmout),
           "RUNNABLE" \in k.tcb[t].tstat \/ k.tcb[t].transient, ~k.tcb[t].raster
    PROVE  /\ WaitOk(k2) /\ ResultOf(k.tcb[t]) # "pending"
           /\ Waiters(k2) = WithWaiter(Waiters(k), w, t)
           /\ Results(k2) = WithResult(Results(k), t, "pending")
<1>. DEFINE k1 == MakeWait(k, w, t, tmout)
            d  == WobjQueueInsert(k1, w, t)
<1>1. k \in KerType /\ TcbOk(k.tcb[t]) /\ QueueOk(k, w)
  BY DEF WaitOk
<1>2. /\ k1 \in KerType /\ OthersKept(k, k1, t) /\ k1.wait = k.wait /\ k1.tpri = k.tpri
      /\ k1.tcb[t].tstat = IF "SUSPENDED" \in k.tcb[t].tstat
                             THEN k.tcb[t].tstat \cup {"WAITING"} ELSE {"WAITING"}
      /\ k1.tcb[t].p_wobjcb = w /\ k1.tcb[t].tmevtb = tmout
      /\ k1.tcb[t].transient = FALSE
      /\ k1.tcb[t].priority = k.tcb[t].priority
      /\ k1.tcb[t].wercd = k.tcb[t].wercd /\ k1.tcb[t].raster = k.tcb[t].raster
  <2>. DEFINE c2 == WaitingTcb(k.tcb[t], w, tmout)
  <2>1. k.tcb[t] \in TCB
    BY <1>1, KerFields
  <2>2. k1 = SetTcb(k, t, c2)
    BY DEF MakeWait, SetTcb
  <2>3. /\ c2 \in TCB
        /\ c2.tstat = IF "SUSPENDED" \in k.tcb[t].tstat
                        THEN k.tcb[t].tstat \cup {"WAITING"} ELSE {"WAITING"}
        /\ c2.p_wobjcb = w /\ c2.tmevtb = tmout /\ c2.transient = FALSE
        /\ c2.priority = k.tcb[t].priority /\ c2.wercd = k.tcb[t].wercd
        /\ c2.raster = k.tcb[t].raster
    BY <2>1 DEF WaitingTcb, TCB
  <2>. HIDE DEF c2, k1
  <2>4. /\ k1 \in KerType /\ k1.tcb[t] = c2 /\ OthersKept(k, k1, t)
        /\ k1.wait = k.wait /\ k1.tpri = k.tpri
    BY <1>1, <2>2, <2>3, TcbSet
  <2>5. QED
    BY <2>3, <2>4
<1>3. k2 = SetWait(k1, w, d)
  BY DEF WobjMakeWait, SetWait
<1>. HIDE DEF k1
<1>4. "WAITING" \notin k.tcb[t].tstat /\ k.tcb[t].p_wobjcb = NULL
  BY <1>1 DEF TcbOk
<1>5. PriorityOf(k1) = PriorityOf(k)
  BY <1>2 DEF PriorityOf, OthersKept
<1>6. IsInjective(k1.wait[w]) /\ t \notin Range(k1.wait[w])
  BY <1>1, <1>2, <1>4 DEF QueueOk, WaitAssumption
<1>7. w \in k1.tpri => Sorted(k1.wait[w], PriorityOf(k1))
  BY <1>1, <1>2, <1>5 DEF QueueOk
<1>8. /\ d \in Seq(Tsk) /\ IsInjective(d) /\ Range(d) = Range(k.wait[w]) \cup {t}
      /\ w \in k.tpri => Sorted(d, PriorityOf(k1))
  BY <1>2, <1>6, <1>7, WobjInserts
<1>. HIDE DEF d
<1>9. /\ k2 \in KerType /\ k2.tcb = k1.tcb /\ k2.tpri = k.tpri
      /\ k2.wait[w] = d /\ \A v \in WaitQueue : v # w => k2.wait[v] = k.wait[v]
  BY <1>2, <1>3, <1>8, QueueSet
<1>10. TcbOk(k2.tcb[t])
  BY <1>1, <1>2, <1>4, <1>9 DEF TcbOk, WaitAssumption
<1>12. Joins(k, k2, t, w)
  BY <1>2, <1>4, <1>8, <1>9, <1>10 DEF Joins, OthersKept, PriorityOf
<1>13. ResultOf(k2.tcb[t]) = "pending" /\ ResultOf(k.tcb[t]) # "pending"
  BY <1>2, <1>4, <1>9 DEF ResultOf
<1>14. QED
  BY <1>9, <1>12, <1>13, JoinStep

\* The wait of a task ends, for one reason or another.
LEMMA EndsWait ==
    ASSUME WaitAssumption, NEW k, WaitOk(k), NEW t \in Tsk, NEW w \in WaitQueue,
           k.tcb[t].p_wobjcb = w, NEW d \in Seq(Tsk), NEW i \in 1 .. Len(k.wait[w]),
           k.wait[w][i] = t, Removed(k.wait[w], i, d), NEW ercd \in Ercd,
           NEW k1, k1 = SetWait(k, w, d), NEW k2, k2 = EndWait(k1, t, ercd)
    PROVE  /\ WaitOk(k2) /\ t \in Waiters(k)[w] /\ k2.tpri = k.tpri
           /\ Waiters(k2) = WithoutWaiter(Waiters(k), w, t)
           /\ Results(k2) = WithResult(Results(k), t, IF ercd = "E_OK" THEN "granted" ELSE "none")
<1>1. k \in KerType /\ TcbOk(k.tcb[t])
  BY DEF WaitOk
<1>2. /\ k1 \in KerType /\ k1.tcb = k.tcb /\ k1.tpri = k.tpri
      /\ k1.wait[w] = d /\ \A v \in WaitQueue : v # w => k1.wait[v] = k.wait[v]
  BY <1>1, QueueSet
<1>3. /\ k2 \in KerType /\ OthersKept(k1, k2, t) /\ k2.wait = k1.wait /\ k2.tpri = k1.tpri
      /\ k2.tcb[t].tstat = IF "SUSPENDED" \in k1.tcb[t].tstat
                             THEN {"SUSPENDED"} ELSE {"RUNNABLE"}
      /\ k2.tcb[t].p_wobjcb = NULL /\ k2.tcb[t].tmevtb = FALSE
      /\ k2.tcb[t].wercd = ercd
      /\ k2.tcb[t].priority = k1.tcb[t].priority
      /\ k2.tcb[t].transient = k1.tcb[t].transient
      /\ k2.tcb[t].raster = k1.tcb[t].raster
  <2>. DEFINE c2 == EndedTcb(k1.tcb[t], ercd)
  <2>1. k1.tcb[t] \in TCB
    BY <1>2, KerFields
  <2>2. k2 = SetTcb(k1, t, c2)
    BY DEF EndWait, SetTcb
  <2>3. /\ c2 \in TCB
        /\ c2.tstat = IF "SUSPENDED" \in k1.tcb[t].tstat THEN {"SUSPENDED"} ELSE {"RUNNABLE"}
        /\ c2.p_wobjcb = NULL /\ c2.tmevtb = FALSE /\ c2.wercd = ercd
        /\ c2.priority = k1.tcb[t].priority /\ c2.transient = k1.tcb[t].transient
        /\ c2.raster = k1.tcb[t].raster
    BY <2>1 DEF EndedTcb, TCB
  <2>. HIDE DEF c2
  <2>4. /\ k2 \in KerType /\ k2.tcb[t] = c2 /\ OthersKept(k1, k2, t)
        /\ k2.wait = k1.wait /\ k2.tpri = k1.tpri
    BY <1>2, <2>2, <2>3, TcbSet
  <2>5. QED
    BY <2>3, <2>4
<1>4. k2.wait[w] = d /\ \A v \in WaitQueue : v # w => k2.wait[v] = k.wait[v]
  BY <1>2, <1>3
<1>5. "WAITING" \in k.tcb[t].tstat /\ w # NULL
  BY <1>1 DEF TcbOk, WaitAssumption
<1>6. TcbOk(k2.tcb[t])
  BY <1>1, <1>2, <1>3, <1>5 DEF TcbOk
<1>7. Leaves(k, k2, t, w)
  BY <1>2, <1>3, <1>4, <1>6 DEF Leaves, OthersKept
<1>8. ResultOf(k2.tcb[t]) = IF ercd = "E_OK" THEN "granted" ELSE "none"
  BY <1>3 DEF ResultOf
<1>9. QED
  BY <1>2, <1>3, <1>7, <1>8, LeaveStep
\* A task that waits is found in one queue, and taken out of it.
LEMMA WaiterInQueue ==
    ASSUME WaitAssumption, NEW k, WaitOk(k), NEW t \in Tsk, "WAITING" \in k.tcb[t].tstat,
           NEW w, w = k.tcb[t].p_wobjcb
    PROVE  /\ w \in WaitQueue /\ w # NULL /\ k.wait[w] \in Seq(Tsk) /\ t \in Range(k.wait[w])
           /\ WaitDequeueWobj(k, t) = SetWait(k, w, QueueDelete(k.wait[w], t))
<1>1. k \in KerType /\ TcbOk(k.tcb[t])
  BY DEF WaitOk
<1>2. k.tcb[t] \in TCB
  BY <1>1, KerFields
<1>3. w \in WaitQueue /\ w # NULL
  BY <1>1, <1>2 DEF TcbOk, TCB
<1>4. k.wait[w] \in Seq(Tsk) /\ t \in Range(k.wait[w])
  BY <1>1, <1>3, KerFields DEF WaitOk, QueueOk
<1>5. WaitDequeueWobj(k, t) = SetWait(k, w, QueueDelete(k.wait[w], t))
  BY <1>3 DEF WaitDequeueWobj, SetWait
<1>6. QED
  BY <1>3, <1>4, <1>5

\* wait_dequeue_wobj and the end of the wait: a time-out, a forced release.
LEMMA DequeueEndsWait ==
    ASSUME WaitAssumption, NEW k, WaitOk(k), NEW t \in Tsk, "WAITING" \in k.tcb[t].tstat,
           NEW ercd \in Ercd, ercd # "E_OK",
           NEW k2, k2 = EndWait(WaitDequeueWobj(k, t), t, ercd)
    PROVE  WaitOk(k2) /\ \E w \in WaitQueue :
              /\ t \in Waiters(k)[w]
              /\ Waiters(k2) = WithoutWaiter(Waiters(k), w, t)
              /\ Results(k2) = WithResult(Results(k), t, "none")
<1>. DEFINE w  == k.tcb[t].p_wobjcb
            d  == QueueDelete(k.wait[w], t)
            k1 == WaitDequeueWobj(k, t)
<1>1. /\ w \in WaitQueue /\ w # NULL /\ k.wait[w] \in Seq(Tsk) /\ t \in Range(k.wait[w])
      /\ k1 = SetWait(k, w, d)
  BY WaiterInQueue
<1>2. PICK i \in 1 .. Len(k.wait[w]) :
         k.wait[w][i] = t /\ d \in Seq(Tsk) /\ Removed(k.wait[w], i, d)
  BY <1>1, DeleteRemoves
<1>3. k2 = EndWait(k1, t, ercd) /\ k.tcb[t].p_wobjcb = w
  OBVIOUS
<1>. HIDE DEF d, k1, w
<1>4. /\ WaitOk(k2) /\ t \in Waiters(k)[w]
      /\ Waiters(k2) = WithoutWaiter(Waiters(k), w, t)
      /\ Results(k2) = WithResult(Results(k), t, "none")
  BY <1>1, <1>2, <1>3, EndsWait
<1>5. QED
  BY <1>1, <1>4

\* The first task of a queue gets what it waits for.
LEMMA CompletesFirst ==
    ASSUME WaitAssumption, NEW k, WaitOk(k), NEW w \in WaitQueue, k.wait[w] # << >>,
           NEW t, t = Head(k.wait[w]), NEW k2, k2 = CompleteFirst(k, w)
    PROVE  /\ WaitOk(k2) /\ t \in Tsk /\ t \in Waiters(k)[w]
           /\ Waiters(k2) = WithoutWaiter(Waiters(k), w, t)
           /\ Results(k2) = WithResult(Results(k), t, "granted")
<1>. DEFINE q  == k.wait[w]
            d  == Tail(q)
            k1 == SetWait(k, w, d)
<1>1. q \in Seq(Tsk) /\ IsInjective(q) /\ Range(q) = {u \in Tsk : k.tcb[u].p_wobjcb = w}
  BY KerFields DEF WaitOk, QueueOk
<1>2. 1 \in 1 .. Len(q) /\ q[1] = t /\ t \in Tsk /\ Tail(q) \in Seq(Tsk) /\ Removed(q, 1, Tail(q))
  BY <1>1, TailRemoves
<1>3. t \in Range(q)
  BY <1>1, TailFacts
<1>4. k.tcb[t].p_wobjcb = w
  BY <1>1, <1>3
<1>5. PICK ercd \in Ercd : ercd = "E_OK"
  BY DEF Ercd
<1>6. k2 = EndWait(k1, t, ercd)
  BY <1>5 DEF CompleteFirst, WaitComplete, SetWait
<1>7. k1 = SetWait(k, w, d)
  OBVIOUS
<1>8. \E i \in 1 .. Len(k.wait[w]) :
         k.wait[w][i] = t /\ d \in Seq(Tsk) /\ Removed(k.wait[w], i, d)
  BY <1>2
<1>. HIDE DEF k1, d, q
<1>9. /\ WaitOk(k2) /\ t \in Waiters(k)[w]
      /\ Waiters(k2) = WithoutWaiter(Waiters(k), w, t)
      /\ Results(k2) = WithResult(Results(k), t, IF ercd = "E_OK" THEN "granted" ELSE "none")
  <2>1. PICK i \in 1 .. Len(k.wait[w]) :
           k.wait[w][i] = t /\ d \in Seq(Tsk) /\ Removed(k.wait[w], i, d)
    BY <1>8
  <2>2. QED
    BY <2>1, <1>2, <1>4, <1>6, <1>7, EndsWait, SMTT(30)
<1>10. QED
  BY <1>2, <1>5, <1>9

\* Some of the tasks of a queue stop waiting.
Releases(k, k2, w, R, ercd) ==
    /\ k2.tpri = k.tpri
    /\ \A v \in WaitQueue : v # w => k2.wait[v] = k.wait[v]
    /\ \A t \in Tsk : k2.tcb[t] = IF t \in R THEN EndedTcb(k.tcb[t], ercd) ELSE k.tcb[t]

SetReleased(k, w, d, R, ercd) ==
    [k EXCEPT !.wait[w] = d,
              !.tcb = [t \in Tsk |-> IF t \in R THEN EndedTcb(k.tcb[t], ercd) ELSE k.tcb[t]]]

LEMMA ReleasesSome ==
    ASSUME WaitAssumption, NEW k, WaitOk(k), NEW w \in WaitQueue,
           NEW R, R \subseteq Range(k.wait[w]), NEW ercd \in Ercd,
           NEW d \in Seq(Tsk), IsInjective(d), Range(d) = Range(k.wait[w]) \ R,
           \A f : Sorted(k.wait[w], f) => Sorted(d, f),
           NEW k2, k2 = SetReleased(k, w, d, R, ercd)
    PROVE  WaitOk(k2) /\ k2.wait[w] = d /\ Releases(k, k2, w, R, ercd)
<1>1. k \in KerType /\ QueueOk(k, w) /\ k.wait[w] \in Seq(Tsk)
  BY KerFields DEF WaitOk
<1>2. \A t \in Tsk : t \in R => k.tcb[t].p_wobjcb = w
  BY <1>1 DEF QueueOk
<1>3. ASSUME NEW t \in Tsk
      PROVE  /\ EndedTcb(k.tcb[t], ercd) \in TCB
             /\ EndedTcb(k.tcb[t], ercd).p_wobjcb = NULL
             /\ EndedTcb(k.tcb[t], ercd).priority = k.tcb[t].priority
             /\ t \in R => TcbOk(EndedTcb(k.tcb[t], ercd))
  <2>1. k.tcb[t] \in TCB /\ TcbOk(k.tcb[t])
    BY <1>1, KerFields DEF WaitOk
  <2>2. EndedTcb(k.tcb[t], ercd) \in TCB
    BY <2>1 DEF EndedTcb, TCB
  <2>3. /\ EndedTcb(k.tcb[t], ercd).p_wobjcb = NULL
        /\ EndedTcb(k.tcb[t], ercd).priority = k.tcb[t].priority
    BY <2>1 DEF EndedTcb, TCB
  <2>4. t \in R => "WAITING" \in k.tcb[t].tstat
    BY <2>1, <1>2 DEF TcbOk, WaitAssumption
  <2>5. t \in R => TcbOk(EndedTcb(k.tcb[t], ercd))
    BY <2>1, <2>4 DEF EndedTcb, TCB, TcbOk
  <2>6. QED
    BY <2>2, <2>3, <2>5
<1>4. \A t \in Tsk : k.tcb[t] \in TCB
  BY <1>1, KerFields
<1>5. /\ k2 \in KerType /\ k2.wait[w] = d /\ Releases(k, k2, w, R, ercd)
  <2>. DEFINE T  == [t \in Tsk |-> IF t \in R THEN EndedTcb(k.tcb[t], ercd) ELSE k.tcb[t]]
              k1 == SetWait(k, w, d)
  <2>1. T \in [Tsk -> TCB]
    BY <1>3, <1>4
  <2>2. \A t \in Tsk : T[t] = IF t \in R THEN EndedTcb(k.tcb[t], ercd) ELSE k.tcb[t]
    OBVIOUS
  <2>3. k2 = [k1 EXCEPT !.tcb = T]
    BY DEF SetWait, SetReleased
  <2>4. k1 = SetWait(k, w, d)
    OBVIOUS
  <2>. HIDE DEF T, k1
  <2>5. /\ k1 \in KerType /\ k1.tpri = k.tpri /\ k1.wait[w] = d
        /\ \A v \in WaitQueue : v # w => k1.wait[v] = k.wait[v]
    BY <2>4, <1>1, QueueSet
  <2>6. k2 \in KerType /\ k2.tcb = T /\ k2.wait = k1.wait /\ k2.tpri = k1.tpri
    BY <2>1, <2>3, <2>5 DEF KerType
  <2>7. QED
    BY <2>2, <2>5, <2>6 DEF Releases
<1>6. \A t \in Tsk : TcbOk(k2.tcb[t])
  BY <1>3, <1>5 DEF WaitOk, Releases
<1>7. \A t \in Tsk : k2.tcb[t].priority = k.tcb[t].priority
  BY <1>3, <1>5 DEF Releases
<1>8. PriorityOf(k2) = PriorityOf(k)
  BY <1>7 DEF PriorityOf
<1>9. ASSUME NEW v \in WaitQueue
      PROVE  QueueOk(k2, v)
  <2>1. CASE v = w
    <3>1. \A t \in Tsk : k2.tcb[t].p_wobjcb = v <=> k.tcb[t].p_wobjcb = v /\ t \notin R
      BY <2>1, <1>2, <1>3, <1>5 DEF Releases, WaitAssumption
    <3>2. Range(k2.wait[v]) = {t \in Tsk : k2.tcb[t].p_wobjcb = v}
      BY <2>1, <3>1, <1>1, <1>5 DEF QueueOk
    <3>3. v \in k2.tpri => Sorted(k2.wait[v], PriorityOf(k2))
      BY <2>1, <1>1, <1>5, <1>8 DEF QueueOk, Releases
    <3>4. QED
      BY <2>1, <3>2, <3>3, <1>5 DEF QueueOk
  <2>2. CASE v # w
    <3>1. QueueOk(k, v) /\ k2.wait[v] = k.wait[v]
      BY <2>2, <1>5 DEF WaitOk, Releases
    <3>2. \A t \in Tsk : k2.tcb[t].p_wobjcb = v <=> k.tcb[t].p_wobjcb = v
      BY <2>2, <1>2, <1>3, <1>5 DEF Releases, WaitAssumption
    <3>3. QED
      BY <3>1, <3>2, <1>5, <1>8 DEF QueueOk, Releases
  <2>3. QED
    BY <2>1, <2>2
<1>10. QED
  BY <1>5, <1>6, <1>9 DEF WaitOk

\* init_wait_queue
LEMMA InitsQueue ==
    ASSUME WaitAssumption, NEW k, WaitOk(k), NEW w \in WaitQueue,
           NEW k2, k2 = InitWaitQueue(k, w)
    PROVE  /\ WaitOk(k2) /\ k2.wait[w] = << >>
           /\ Releases(k, k2, w, Range(k.wait[w]), "E_DLT")
           /\ \A v \in WaitQueue : v # w => k2.wait[v] = k.wait[v]
           /\ Waiters(k2) = [Waiters(k) EXCEPT ![w] = {}]
           /\ Results(k2) = [t \in Tsk |-> IF t \in Waiters(k)[w] THEN "none" ELSE Results(k)[t]]
<1>. DEFINE R == Range(k.wait[w])
            e == << >>
<1>1. \A t \in Tsk : t \in R <=> \E i \in DOMAIN k.wait[w] : k.wait[w][i] = t
  BY DEF Range
<1>2. PICK ercd \in Ercd : ercd = "E_DLT"
  BY DEF Ercd
<1>3. k2 = SetReleased(k, w, e, R, ercd)
  BY <1>1, <1>2, ZenonT(30) DEF InitWaitQueue, SetReleased
<1>4. e \in Seq(Tsk) /\ IsInjective(e) /\ Range(e) = R \ R /\ \A f : Sorted(e, f)
  BY DEF IsInjective, Range, Sorted
<1>. HIDE DEF e, R
<1>5. R \subseteq Range(k.wait[w]) /\ Range(e) = Range(k.wait[w]) \ R
  BY <1>4 DEF R
<1>6. WaitOk(k2) /\ k2.wait[w] = e /\ Releases(k, k2, w, R, ercd)
  BY <1>3, <1>4, <1>5, ReleasesSome
<1>7. \A v \in WaitQueue : v # w => k2.wait[v] = k.wait[v]
  BY <1>6 DEF Releases
<1>8. Waiters(k2) = [Waiters(k) EXCEPT ![w] = {}]
  <2>1. Range(k2.wait[w]) = {}
    BY <1>4, <1>6
  <2>2. QED
    BY <1>7, <2>1 DEF Waiters
<1>9. \A t \in Tsk : t \in Waiters(k)[w] <=> t \in R
  BY DEF Waiters, R
<1>10. \A t \in Tsk : t \in R => ResultOf(k2.tcb[t]) = "none"
  <2>. SUFFICES ASSUME NEW t \in Tsk, t \in R
                PROVE  ResultOf(k2.tcb[t]) = "none"
    OBVIOUS
  <2>1. k.tcb[t] \in TCB
    BY KerFields DEF WaitOk
  <2>2. ResultOf(EndedTcb(k.tcb[t], "E_DLT")) = "none"
    BY <2>1 DEF EndedTcb, TCB, ResultOf
  <2>3. QED
    BY <2>2, <1>2, <1>6 DEF Releases
<1>11. Results(k2) = [t \in Tsk |-> IF t \in Waiters(k)[w] THEN "none" ELSE Results(k)[t]]
  BY <1>6, <1>9, <1>10 DEF Results, Releases
<1>12. QED
  BY <1>2, <1>6, <1>7, <1>8, <1>11 DEF e, R

----------------------------------------------------------------------------
\* The calls on tasks

\* What a call on a task does to the waits: nothing, or the task loses its last
\* grant, or it stops waiting without one.
TaskEffect(k, k2, t) ==
    /\ WaitOk(k2)
    /\ \/ Waiters(k2) = Waiters(k) /\ Results(k2) = Results(k)
       \/ /\ Waiters(k2) = Waiters(k)
          /\ Results(k)[t] = "granted" /\ Results(k2) = WithResult(Results(k), t, "none")
       \/ \E w \in WaitQueue :
             /\ t \in Waiters(k)[w]
             /\ Waiters(k2) = WithoutWaiter(Waiters(k), w, t)
             /\ Results(k2) = WithResult(Results(k), t, "none")

LEMMA SameResult ==
    ASSUME NEW k, NEW t \in Tsk
    PROVE  WithResult(Results(k), t, ResultOf(k.tcb[t])) = Results(k)
BY DEF WithResult, Results

\* The call changes the control block of a task that keeps its wait.
LEMMA LocalEffect ==
    ASSUME WaitAssumption, NEW k, WaitOk(k), NEW t \in Tsk, NEW c \in TCB,
           NEW k2, k2 = SetTcb(k, t, c),
           TcbOk(c), c.p_wobjcb = k.tcb[t].p_wobjcb, c.wercd = k.tcb[t].wercd,
           c.priority = k.tcb[t].priority \/ k.tcb[t].p_wobjcb = NULL
    PROVE  WaitOk(k2) /\ Waiters(k2) = Waiters(k) /\ Results(k2) = Results(k)
<1>1. k \in KerType /\ TcbOk(k.tcb[t])
  BY DEF WaitOk
<1>2. /\ k2 \in KerType /\ k2.tcb[t] = c /\ OthersKept(k, k2, t)
      /\ k2.wait = k.wait /\ k2.tpri = k.tpri
  BY <1>1, TcbSet
<1>3. /\ WaitOk(k2) /\ Waiters(k2) = Waiters(k)
      /\ Results(k2) = WithResult(Results(k), t, ResultOf(k2.tcb[t]))
  BY <1>2, LocalStep
<1>4. ResultOf(k2.tcb[t]) = ResultOf(k.tcb[t])
  BY <1>1, <1>2 DEF TcbOk, ResultOf
<1>5. QED
  BY <1>3, <1>4, SameResult

LEMMA ActTsk ==
    ASSUME WaitAssumption, NEW k, WaitOk(k), NEW t \in Tsk, k.tcb[t].tstat = {},
           NEW c, c = [k.tcb[t] EXCEPT !.tstat = {"RUNNABLE"}],
           NEW k2, k2 = SetTcb(k, t, c)
    PROVE  TaskEffect(k, k2, t)
<1>1. k.tcb[t] \in TCB /\ TcbOk(k.tcb[t]) /\ k \in KerType
  BY KerFields DEF WaitOk
<1>2. k2 = SetTcb(k, t, c)
  OBVIOUS
<1>3. /\ c \in TCB /\ c.p_wobjcb = k.tcb[t].p_wobjcb /\ c.wercd = k.tcb[t].wercd
      /\ c.priority = k.tcb[t].priority
  BY <1>1 DEF TCB
<1>4. TcbOk(c)
  BY <1>1 DEF TCB, TcbOk
<1>5. WaitOk(k2) /\ Waiters(k2) = Waiters(k) /\ Results(k2) = Results(k)
  BY <1>2, <1>3, <1>4, LocalEffect, ZenonT(30)
<1>6. QED
  BY <1>5 DEF TaskEffect

LEMMA DormantFacts ==
    ASSUME WaitAssumption, NEW t \in Tsk
    PROVE  /\ DormantTcb(t) \in TCB /\ TcbOk(DormantTcb(t))
           /\ DormantTcb(t).p_wobjcb = NULL /\ ResultOf(DormantTcb(t)) = "none"
BY DEF WaitAssumption, DormantTcb, TCB, TcbOk, ResultOf, Ercd, Pri

LEMMA TaskTerminate ==
    ASSUME WaitAssumption, NEW k, WaitOk(k), NEW t \in Tsk,
           NEW k2, k2 = SetTcb(WaitDequeueWobj(k, t), t, DormantTcb(t))
    PROVE  TaskEffect(k, k2, t)
<1>1. k.tcb[t] \in TCB /\ TcbOk(k.tcb[t]) /\ k \in KerType
  BY KerFields DEF WaitOk
<1>. DEFINE c == DormantTcb(t)
<1>2. c \in TCB /\ TcbOk(c) /\ c.p_wobjcb = NULL /\ ResultOf(c) = "none"
  BY DormantFacts
<1>. HIDE DEF c
<1>3. CASE "WAITING" \in k.tcb[t].tstat
  <2>. DEFINE w  == k.tcb[t].p_wobjcb
              d  == QueueDelete(k.wait[w], t)
              k1 == WaitDequeueWobj(k, t)
  <2>1. /\ w \in WaitQueue /\ w # NULL /\ k.wait[w] \in Seq(Tsk) /\ t \in Range(k.wait[w])
        /\ k1 = SetWait(k, w, d)
    BY <1>3, WaiterInQueue
  <2>2. PICK i \in 1 .. Len(k.wait[w]) :
           k.wait[w][i] = t /\ d \in Seq(Tsk) /\ Removed(k.wait[w], i, d)
    BY <2>1, DeleteRemoves
  <2>3. k2 = SetTcb(k1, t, c)
    BY DEF c
  <2>. HIDE DEF d, k1, w
  <2>4. /\ k1 \in KerType /\ k1.tcb = k.tcb /\ k1.tpri = k.tpri /\ k1.wait[w] = d
        /\ \A v \in WaitQueue : v # w => k1.wait[v] = k.wait[v]
    BY <2>1, <2>2, <1>1, QueueSet
  <2>5. /\ k2 \in KerType /\ k2.tcb[t] = c /\ OthersKept(k1, k2, t)
        /\ k2.wait = k1.wait /\ k2.tpri = k1.tpri
    BY <2>3, <2>4, <1>2, TcbSet
  <2>6. Leaves(k, k2, t, w)
    BY <2>2, <2>4, <2>5, <1>2 DEF Leaves, OthersKept
  <2>7. /\ WaitOk(k2) /\ t \in Waiters(k)[w]
        /\ Waiters(k2) = WithoutWaiter(Waiters(k), w, t)
        /\ Results(k2) = WithResult(Results(k), t, ResultOf(k2.tcb[t]))
    BY <2>1, <2>5, <2>6, LeaveStep
  <2>8. QED
    BY <2>1, <2>5, <2>7, <1>2 DEF TaskEffect
<1>4. CASE "WAITING" \notin k.tcb[t].tstat
  <2>1. k.tcb[t].p_wobjcb = NULL
    BY <1>1, <1>4 DEF TcbOk
  <2>2. k2 = SetTcb(k, t, c)
    BY <2>1 DEF WaitDequeueWobj, c
  <2>3. /\ k2 \in KerType /\ k2.tcb[t] = c /\ OthersKept(k, k2, t)
        /\ k2.wait = k.wait /\ k2.tpri = k.tpri
    BY <2>2, <1>1, <1>2, TcbSet
  <2>4. /\ WaitOk(k2) /\ Waiters(k2) = Waiters(k)
        /\ Results(k2) = WithResult(Results(k), t, ResultOf(k2.tcb[t]))
    BY <2>1, <2>3, <1>2, LocalStep
  <2>5. ResultOf(k2.tcb[t]) = "none"
    BY <2>3, <1>2
  <2>6. ResultOf(k.tcb[t]) \in {"granted", "none"} /\ Results(k)[t] = ResultOf(k.tcb[t])
    BY <1>4 DEF ResultOf, Results
  <2>7. QED
    BY <2>4, <2>5, <2>6, SameResult DEF TaskEffect
<1>5. QED
  BY <1>3, <1>4

LEMMA TaskUnblocked ==
    ASSUME WaitAssumption, NEW k, WaitOk(k), NEW t \in Tsk, "WAITING" \in k.tcb[t].tstat,
           NEW ercd \in Ercd, ercd # "E_OK",
           NEW k2, k2 = EndWait(WaitDequeueWobj(k, t), t, ercd)
    PROVE  TaskEffect(k, k2, t)
BY DequeueEndsWait DEF TaskEffect

\* ras_ter: the end of the wait, and then the request.
LEMMA RasTer ==
    ASSUME WaitAssumption, NEW k, WaitOk(k), NEW t \in Tsk,
           NEW k1, k1 = IF "WAITING" \in k.tcb[t].tstat
                          THEN EndWait(WaitDequeueWobj(k, t), t, "E_RASTER") ELSE k,
           NEW k2, k2 = [k1 EXCEPT !.tcb[t] = [@ EXCEPT !.raster = TRUE,
                                                        !.tstat = {"RUNNABLE"},
                                                        !.transient = FALSE]]
    PROVE  TaskEffect(k, k2, t)
<1>1. k.tcb[t] \in TCB /\ TcbOk(k.tcb[t]) /\ k \in KerType
  BY KerFields DEF WaitOk
<1>2. TaskEffect(k, k1, t) /\ "WAITING" \notin k1.tcb[t].tstat
  <2>1. CASE "WAITING" \in k.tcb[t].tstat
    <3>1. PICK ercd \in Ercd : ercd = "E_RASTER"
      BY DEF Ercd
    <3>2. k1 = EndWait(WaitDequeueWobj(k, t), t, ercd)
      BY <2>1, <3>1
    <3>3. WaitOk(k1) /\ \E w \in WaitQueue :
             /\ t \in Waiters(k)[w]
             /\ Waiters(k1) = WithoutWaiter(Waiters(k), w, t)
             /\ Results(k1) = WithResult(Results(k), t, "none")
      BY <2>1, <3>1, <3>2, DequeueEndsWait
    <3>4. Results(k1)[t] = "none"
      BY <3>3 DEF Results, WithResult
    <3>5. "WAITING" \notin k1.tcb[t].tstat
      BY <3>4 DEF Results, ResultOf
    <3>6. QED
      BY <3>3, <3>5 DEF TaskEffect
  <2>2. CASE "WAITING" \notin k.tcb[t].tstat
    BY <2>2 DEF TaskEffect
  <2>3. QED
    BY <2>1, <2>2
<1>. DEFINE c == [k1.tcb[t] EXCEPT !.raster = TRUE, !.tstat = {"RUNNABLE"}, !.transient = FALSE]
<1>3. WaitOk(k1) /\ k1.tcb[t] \in TCB /\ TcbOk(k1.tcb[t])
  BY <1>2, KerFields DEF TaskEffect, WaitOk
<1>4. k2 = SetTcb(k1, t, c)
  BY DEF SetTcb
<1>5. /\ c \in TCB /\ c.p_wobjcb = k1.tcb[t].p_wobjcb /\ c.wercd = k1.tcb[t].wercd
      /\ c.priority = k1.tcb[t].priority
  BY <1>3 DEF TCB
<1>6. TcbOk(c)
  BY <1>2, <1>3 DEF TCB, TcbOk
<1>. HIDE DEF c
<1>7. WaitOk(k2) /\ Waiters(k2) = Waiters(k1) /\ Results(k2) = Results(k1)
  BY <1>3, <1>4, <1>5, <1>6, LocalEffect
<1>8. QED
  BY <1>2, <1>7 DEF TaskEffect

\* Suspension, the end of the transient state, resumption.
LEMMA SusTsk ==
    ASSUME WaitAssumption, NEW k, WaitOk(k), NEW t \in Tsk, k.tcb[t].tstat # {},
           ~k.tcb[t].raster, NEW executed \in BOOLEAN, executed => "RUNNABLE" \in k.tcb[t].tstat,
           NEW k2,
           k2 = [k EXCEPT !.tcb[t] =
                   [@ EXCEPT !.tstat = (k.tcb[t].tstat \ {"RUNNABLE"}) \cup {"SUSPENDED"},
                             !.transient = executed]]
    PROVE  TaskEffect(k, k2, t)
<1>. DEFINE c == [k.tcb[t] EXCEPT !.tstat = (k.tcb[t].tstat \ {"RUNNABLE"}) \cup {"SUSPENDED"},
                                  !.transient = executed]
<1>1. k.tcb[t] \in TCB /\ TcbOk(k.tcb[t]) /\ k \in KerType
  BY KerFields DEF WaitOk
<1>2. k2 = SetTcb(k, t, c)
  BY DEF SetTcb
<1>3. /\ c \in TCB /\ c.p_wobjcb = k.tcb[t].p_wobjcb /\ c.wercd = k.tcb[t].wercd
      /\ c.priority = k.tcb[t].priority
  <2>1. (k.tcb[t].tstat \ {"RUNNABLE"}) \cup {"SUSPENDED"}
           \in SUBSET {"RUNNABLE", "SUSPENDED", "WAITING"}
    BY <1>1 DEF TCB
  <2>2. QED
    BY <1>1, <2>1 DEF TCB
<1>4. TcbOk(c)
  BY <1>1 DEF TCB, TcbOk
<1>. HIDE DEF c
<1>5. WaitOk(k2) /\ Waiters(k2) = Waiters(k) /\ Results(k2) = Results(k)
  BY <1>2, <1>3, <1>4, LocalEffect
<1>6. QED
  BY <1>5 DEF TaskEffect

LEMMA DispatchTsk ==
    ASSUME WaitAssumption, NEW k, WaitOk(k), NEW t \in Tsk,
           NEW c, c = [k.tcb[t] EXCEPT !.transient = FALSE],
           NEW k2, k2 = SetTcb(k, t, c)
    PROVE  TaskEffect(k, k2, t)
<1>1. k.tcb[t] \in TCB /\ TcbOk(k.tcb[t]) /\ k \in KerType
  BY KerFields DEF WaitOk
<1>2. k2 = SetTcb(k, t, c)
  OBVIOUS
<1>3. /\ c \in TCB /\ c.p_wobjcb = k.tcb[t].p_wobjcb /\ c.wercd = k.tcb[t].wercd
      /\ c.priority = k.tcb[t].priority
  BY <1>1 DEF TCB
<1>4. TcbOk(c)
  BY <1>1 DEF TCB, TcbOk
<1>5. WaitOk(k2) /\ Waiters(k2) = Waiters(k) /\ Results(k2) = Results(k)
  BY <1>2, <1>3, <1>4, LocalEffect, ZenonT(30)
<1>6. QED
  BY <1>5 DEF TaskEffect

LEMMA RsmTsk ==
    ASSUME WaitAssumption, NEW k, WaitOk(k), NEW t \in Tsk, "SUSPENDED" \in k.tcb[t].tstat,
           NEW s, s = IF "WAITING" \in k.tcb[t].tstat THEN {"WAITING"} ELSE {"RUNNABLE"},
           NEW k2, k2 = [k EXCEPT !.tcb[t] = [@ EXCEPT !.tstat = s, !.transient = FALSE]]
    PROVE  TaskEffect(k, k2, t)
<1>. DEFINE c == [k.tcb[t] EXCEPT !.tstat = s, !.transient = FALSE]
<1>1. k.tcb[t] \in TCB /\ TcbOk(k.tcb[t]) /\ k \in KerType
  BY KerFields DEF WaitOk
<1>2. k2 = SetTcb(k, t, c)
  BY DEF SetTcb
<1>3. /\ c \in TCB /\ c.p_wobjcb = k.tcb[t].p_wobjcb /\ c.wercd = k.tcb[t].wercd
      /\ c.priority = k.tcb[t].priority
  BY <1>1 DEF TCB
<1>4. TcbOk(c)
  BY <1>1 DEF TCB, TcbOk
<1>. HIDE DEF c
<1>5. WaitOk(k2) /\ Waiters(k2) = Waiters(k) /\ Results(k2) = Results(k)
  BY <1>2, <1>3, <1>4, LocalEffect
<1>6. QED
  BY <1>5 DEF TaskEffect

\* chg_pri: a task that waits in priority order is moved to its new place.
LEMMA ChgPri ==
    ASSUME WaitAssumption, NEW k, WaitOk(k), NEW t \in Tsk,
           NEW c \in TCB, c.tstat = k.tcb[t].tstat, c.p_wobjcb = k.tcb[t].p_wobjcb,
           c.wercd = k.tcb[t].wercd, TcbOk(c), NEW k1, k1 = SetTcb(k, t, c),
           NEW k2, k2 = IF "WAITING" \in k.tcb[t].tstat THEN WobjChangePriority(k1, t) ELSE k1
    PROVE  TaskEffect(k, k2, t)
<1>1. k.tcb[t] \in TCB /\ TcbOk(k.tcb[t]) /\ k \in KerType
  BY KerFields DEF WaitOk
<1>2. k1 = SetTcb(k, t, c)
  OBVIOUS
<1>3. /\ c \in TCB /\ c.p_wobjcb = k.tcb[t].p_wobjcb /\ c.wercd = k.tcb[t].wercd
      /\ c.tstat = k.tcb[t].tstat
  OBVIOUS
<1>4. TcbOk(c)
  OBVIOUS
<1>5. /\ k1 \in KerType /\ k1.tcb[t] = c /\ OthersKept(k, k1, t)
      /\ k1.wait = k.wait /\ k1.tpri = k.tpri
  BY <1>1, <1>2, <1>3, TcbSet
<1>6. ResultOf(c) = ResultOf(k.tcb[t])
  BY <1>3 DEF ResultOf
<1>7. CASE "WAITING" \notin k.tcb[t].tstat
  <2>1. k.tcb[t].p_wobjcb = NULL
    BY <1>1, <1>7 DEF TcbOk
  <2>2. WaitOk(k1) /\ Waiters(k1) = Waiters(k) /\ Results(k1) = Results(k)
    BY <1>2, <1>3, <1>4, <2>1, LocalEffect
  <2>3. QED
    BY <1>7, <2>2 DEF TaskEffect
<1>8. CASE "WAITING" \in k.tcb[t].tstat
  <2>. DEFINE w == k.tcb[t].p_wobjcb
              q == k.wait[w]
              d == QueueDelete(q, t)
  <2>1. /\ w \in WaitQueue /\ w # NULL /\ q \in Seq(Tsk) /\ t \in Range(q)
    BY <1>8, WaiterInQueue
  <2>2. IsInjective(q) /\ (w \in k.tpri => Sorted(q, PriorityOf(k)))
    BY <2>1 DEF WaitOk, QueueOk
  <2>9. \A u \in Range(q) : u \in Tsk
    BY <2>1 DEF WaitOk, QueueOk
  <2>3. k2 = WobjChangePriority(k1, t) /\ k1.tcb[t].p_wobjcb = w /\ c.p_wobjcb = w
    BY <1>8, <1>3, <1>5
  <2>4. Range(q) = Range(q) \cup {t}
    BY <2>1
  <2>5. CASE w \notin k.tpri
    <3>1. k2 = k1
      BY <2>3, <2>5, <1>5 DEF WobjChangePriority
    <3>2. Joins(k, k2, t, w)
      BY <3>1, <2>2, <2>3, <2>4, <2>5, <1>4, <1>5 DEF Joins
    <3>. HIDE DEF w, q
    <3>3. /\ WaitOk(k2) /\ Waiters(k2) = WithWaiter(Waiters(k), w, t)
          /\ Results(k2) = WithResult(Results(k), t, ResultOf(k2.tcb[t]))
      BY <3>1, <3>2, <2>1, <1>5, JoinStep
    <3>4. Waiters(k2) = Waiters(k)
      BY <3>1, <1>5 DEF Waiters
    <3>5. QED
      BY <3>1, <3>3, <3>4, <1>5, <1>6, SameResult DEF TaskEffect
  <2>6. CASE w \in k.tpri
    <3>. DEFINE k3 == SetWait(k1, w, d)
                e  == WobjQueueInsert(k3, w, t)
    <3>1. PICK i \in 1 .. Len(q) : q[i] = t /\ d \in Seq(Tsk) /\ Removed(q, i, d)
      BY <2>1, DeleteRemoves
    <3>2. /\ k3 \in KerType /\ k3.tcb = k1.tcb /\ k3.tpri = k.tpri /\ k3.wait[w] = d
          /\ \A v \in WaitQueue : v # w => k3.wait[v] = k.wait[v]
      <4>. HIDE DEF d, w, k3
      <4>1. k3 = SetWait(k1, w, d)
        BY DEF k3
      <4>2. QED
        BY <4>1, <3>1, <2>1, <1>5, QueueSet
    <3>3. k2 = SetWait(k3, w, e)
      <4>1. e = QueueInsertTpri(k3, w, t)
        BY <3>2, <2>6 DEF WobjQueueInsert
      <4>2. k3 = [k1 EXCEPT !.wait[w] = QueueDelete(@, t)]
        BY <1>5 DEF SetWait
      <4>3. WobjChangePriority(k1, t) = [k3 EXCEPT !.wait[w] = QueueInsertTpri(k3, w, t)]
        <5>1. k1.tcb[t].p_wobjcb = w /\ w \in k1.tpri
          BY <2>3, <2>6, <1>5
        <5>. HIDE DEF k3, w
        <5>2. QED
          BY <4>2, <5>1 DEF WobjChangePriority
      <4>4. QED
        BY <2>3, <4>1, <4>3 DEF SetWait
    <3>. HIDE DEF e, k3
    <3>4. k3 \in KerType /\ e = WobjQueueInsert(k3, w, t)
      BY <3>2 DEF e
    <3>5. /\ IsInjective(d) /\ Range(d) = Range(q) \ {t}
          /\ Sorted(q, PriorityOf(k)) => Sorted(d, PriorityOf(k))
      <4>. DEFINE f == PriorityOf(k)
      <4>. HIDE DEF q, d, f
      <4>1. IsInjective(d) /\ Range(d) = Range(q) \ {q[i]} /\ (Sorted(q, f) => Sorted(d, f))
        BY <2>1, <2>2, <3>1, RemoveFacts
      <4>2. QED
        BY <3>1, <4>1 DEF f
    <3>6. Sorted(d, PriorityOf(k3))
      <4>1. \A u \in Range(d) : u \in Tsk /\ u # t
        BY <3>5, <2>9
      <4>2. \A u \in Range(d) : PriorityOf(k)[u] = PriorityOf(k3)[u]
        BY <4>1, <3>2, <1>5 DEF PriorityOf, OthersKept
      <4>3. Sorted(d, PriorityOf(k))
        BY <3>5, <2>2, <2>6
      <4>4. QED
        BY <4>2, <4>3, <3>1, SortedKept
    <3>7. /\ e \in Seq(Tsk) /\ IsInjective(e) /\ Range(e) = Range(d) \cup {t}
          /\ Sorted(e, PriorityOf(k3))
      <4>1. t \notin Range(d)
        BY <3>5
      <4>. HIDE DEF d, w
      <4>2. QED
        BY <4>1, <2>1, <2>6, <3>2, <3>4, <3>5, <3>6, WobjInserts
    <3>8. /\ k2 \in KerType /\ k2.tcb = k1.tcb /\ k2.tpri = k.tpri /\ k2.wait[w] = e
          /\ \A v \in WaitQueue : v # w => k2.wait[v] = k.wait[v]
      <4>. HIDE DEF w
      <4>1. QED
        BY <2>1, <3>2, <3>3, <3>7, QueueSet
    <3>9. PriorityOf(k2) = PriorityOf(k3)
      BY <3>2, <3>8 DEF PriorityOf
    <3>10. Range(e) = Range(q)
      BY <2>1, <3>5, <3>7
    <3>11. Joins(k, k2, t, w)
      BY <2>3, <2>4, <3>7, <3>8, <3>9, <3>10, <1>4, <1>5 DEF Joins, OthersKept
    <3>12. k2.tcb[t] = c
      BY <3>8, <1>5
    <3>13. Waiters(k2) = Waiters(k)
      BY <3>8, <3>10 DEF Waiters
    <3>. HIDE DEF w
    <3>14. /\ WaitOk(k2) /\ Results(k2) = WithResult(Results(k), t, ResultOf(k2.tcb[t]))
      BY <3>8, <3>11, <2>1, JoinStep
    <3>15. QED
      BY <3>12, <3>13, <3>14, <1>6, SameResult DEF TaskEffect
  <2>7. QED
    BY <2>5, <2>6
<1>9. QED
  BY <1>7, <1>8
LEMMA TaskStep ==
    ASSUME WaitAssumption, WaitOk(ker), NEW t \in Tsk, TaskNext(t)
    PROVE  TaskEffect(ker, ker', t)
<1>1. CASE act_tsk(t)
  <2>. DEFINE c == [ker.tcb[t] EXCEPT !.tstat = {"RUNNABLE"}]
  <2>1. ker.tcb[t].tstat = {} /\ ker' = SetTcb(ker, t, c)
    BY <1>1 DEF act_tsk, Dormant, tcb, SetTcb
  <2>2. QED
    BY <2>1, ActTsk
<1>2. CASE task_terminate(t)
  <2>1. ker' = SetTcb(WaitDequeueWobj(ker, t), t, DormantTcb(t))
    BY <1>2 DEF task_terminate, SetTcb
  <2>2. QED
    BY <2>1, TaskTerminate
<1>3. CASE ras_ter(t)
  <2>. DEFINE k1 == IF "WAITING" \in ker.tcb[t].tstat
                      THEN EndWait(WaitDequeueWobj(ker, t), t, "E_RASTER") ELSE ker
  <2>1. ker' = [k1 EXCEPT !.tcb[t] = [@ EXCEPT !.raster = TRUE, !.tstat = {"RUNNABLE"},
                                               !.transient = FALSE]]
    BY <1>3 DEF ras_ter, Waiting, tcb
  <2>2. QED
    BY <2>1, RasTer
<1>4. CASE rel_wai(t)
  <2>1. PICK ercd \in Ercd : ercd = "E_RLWAI"
    BY DEF Ercd
  <2>2. "WAITING" \in ker.tcb[t].tstat /\ ker' = EndWait(WaitDequeueWobj(ker, t), t, ercd)
    BY <1>4, <2>1 DEF rel_wai, Waiting, tcb
  <2>3. QED
    BY <2>1, <2>2, TaskUnblocked
<1>5. CASE sus_tsk(t)
  <2>1. ker.tcb[t].tstat # {} /\ ~ker.tcb[t].raster
    BY <1>5 DEF sus_tsk, Dormant, tcb
  <2>2. PICK executed \in {FALSE, Runnable(t)} :
           ker' = [ker EXCEPT !.tcb[t] =
                     [@ EXCEPT !.tstat = (ker.tcb[t].tstat \ {"RUNNABLE"}) \cup {"SUSPENDED"},
                               !.transient = executed]]
    BY <1>5 DEF sus_tsk, tcb
  <2>3. executed \in BOOLEAN
    <3>1. executed = FALSE \/ executed = Runnable(t)
      BY <2>2
    <3>2. Runnable(t) \in BOOLEAN
      BY DEF Runnable
    <3>3. QED
      BY <3>1, <3>2
  <2>4. executed => "RUNNABLE" \in ker.tcb[t].tstat
    BY <2>2, Zenon DEF Runnable, tcb
  <2>5. QED
    BY <2>1, <2>2, <2>3, <2>4, SusTsk
<1>6. CASE Dispatch(t)
  <2>. DEFINE c == [ker.tcb[t] EXCEPT !.transient = FALSE]
  <2>1. ker' = SetTcb(ker, t, c)
    BY <1>6 DEF Dispatch, SetTcb
  <2>2. QED
    BY <2>1, DispatchTsk
<1>7. CASE rsm_tsk(t)
  <2>. DEFINE s == IF "WAITING" \in ker.tcb[t].tstat THEN {"WAITING"} ELSE {"RUNNABLE"}
  <2>1. /\ "SUSPENDED" \in ker.tcb[t].tstat
        /\ ker' = [ker EXCEPT !.tcb[t] = [@ EXCEPT !.tstat = s, !.transient = FALSE]]
    BY <1>7 DEF rsm_tsk, Waiting, tcb
  <2>2. QED
    BY <2>1, RsmTsk
<1>8. CASE wait_tmout(t)
  <2>1. PICK ercd \in Ercd : ercd = "E_TMOUT"
    BY DEF Ercd
  <2>2. "WAITING" \in ker.tcb[t].tstat
    BY <1>8 DEF wait_tmout, WaitOk, TcbOk, tcb
  <2>3. ker' = EndWait(WaitDequeueWobj(ker, t), t, ercd)
    BY <1>8, <2>1 DEF wait_tmout
  <2>4. QED
    BY <2>1, <2>2, <2>3, TaskUnblocked
<1>9. CASE \E pri \in Pri : chg_pri(t, pri)
  <2>1. PICK pri \in Pri : chg_pri(t, pri)
    BY <1>9
  <2>. DEFINE c  == [ker.tcb[t] EXCEPT !.priority = pri]
              k1 == SetTcb(ker, t, c)
  <2>2. ker.tcb[t] \in TCB /\ TcbOk(ker.tcb[t])
    BY KerFields DEF WaitOk
  <2>3. /\ c \in TCB /\ c.p_wobjcb = ker.tcb[t].p_wobjcb /\ c.wercd = ker.tcb[t].wercd
        /\ c.tstat = ker.tcb[t].tstat
    BY <2>2 DEF TCB
  <2>4. TcbOk(c)
    BY <2>2 DEF TCB, TcbOk
  <2>5. ker' = IF "WAITING" \in ker.tcb[t].tstat THEN WobjChangePriority(k1, t) ELSE k1
    BY <2>1 DEF chg_pri, Waiting, tcb, SetTcb
  <2>. HIDE DEF c
  <2>6. QED
    BY <2>3, <2>4, <2>5, ChgPri
<1>10. QED
  BY <1>1, <1>2, <1>3, <1>4, <1>5, <1>6, <1>7, <1>8, <1>9 DEF TaskNext

----------------------------------------------------------------------------
\* The invariant of the semaphores

\* NoWaitForAvailable, CountInRange and FreeBlocks are inductive together with
\* the invariant of the waits and the maximum being no less than what ini_sem
\* sets.
SemInv ==
    /\ SemTypeOK
    /\ WaitOk(ker)
    /\ NoWaitForAvailable
    /\ CountInRange
    /\ \A s \in Sem : semcb[s].exists => semcb[s].isemcnt <= semcb[s].maxsem
    /\ FreeBlocks

LEMMA WaitersEmpty ==
    ASSUME NEW k \in KerType, NEW w \in WaitQueue
    PROVE  k.wait[w] = << >> <=> Waiters(k)[w] = {}
<1>1. k.wait[w] \in Seq(Tsk)
  BY KerFields
<1>2. ToSet(k.wait[w]) = Waiters(k)[w]
  BY DEF ToSet, Range, Waiters
<1>3. QED
  BY <1>1, <1>2, EmptyQueue

\* Steps after which nobody waits who did not wait before.
LEMMA FewerWaiters ==
    ASSUME SemAssumption, NEW k \in KerType, NEW k2 \in KerType,
           \A s \in Sem : Waiters(k2)[s] \subseteq Waiters(k)[s],
           NEW s \in Sem, k2.wait[s] # << >>
    PROVE  k.wait[s] # << >>
<1>1. s \in WaitQueue
  BY DEF SemAssumption
<1>2. QED
  BY <1>1, WaitersEmpty

LEMMA EffectWaiters ==
    ASSUME SemAssumption, NEW k, NEW k2, NEW t \in Tsk, TaskEffect(k, k2, t)
    PROVE  k2 \in KerType /\ \A s \in Sem : Waiters(k2)[s] \subseteq Waiters(k)[s]
<1>1. Sem = WaitQueue
  BY DEF SemAssumption
<1>2. \A w \in WaitQueue, s \in WaitQueue : WithoutWaiter(Waiters(k), w, t)[s] \subseteq Waiters(k)[s]
  BY DEF WithoutWaiter, Waiters
<1>3. QED
  BY <1>1, <1>2 DEF TaskEffect, WaitOk

LEMMA InitSemInv ==
    ASSUME WaitAssumption, SemAssumption, SemInit
    PROVE  SemInv
<1>1. /\ ker = [tcb  |-> [t \in Tsk |-> [DormantTcb(t) EXCEPT !.tstat = {"RUNNABLE"}]],
                wait |-> [w \in WaitQueue |-> << >>],
                tpri |-> {s \in StaticSem : seminib[s].tpri}]
      /\ free_semcb = SetToSeq(DynamicSem)
      /\ semcb = [s \in Sem |-> IF s \in StaticSem THEN NewSemcb(seminib[s])
                                ELSE [exists |-> FALSE, semcnt |-> 0, isemcnt |-> 0, maxsem |-> 0]]
  BY DEF SemInit, KerInit
<1>2. /\ WaitQueue = Sem /\ StaticSem \in SUBSET Sem /\ DynamicSem \in SUBSET Sem
      /\ StaticSem \cap DynamicSem = {} /\ Sem = StaticSem \cup DynamicSem
      /\ IsFiniteSet(DynamicSem)
  BY DEF SemAssumption, Sem
<1>3. ASSUME NEW t \in Tsk
      PROVE  /\ ker.tcb[t] \in TCB /\ TcbOk(ker.tcb[t]) /\ ker.tcb[t].p_wobjcb = NULL
  <2>1. ker.tcb[t] = [DormantTcb(t) EXCEPT !.tstat = {"RUNNABLE"}]
    BY <1>1
  <2>2. /\ ker.tcb[t].tstat = {"RUNNABLE"} /\ ker.tcb[t].p_wobjcb = NULL
        /\ ker.tcb[t].tmevtb = FALSE /\ ker.tcb[t].raster = FALSE
        /\ ker.tcb[t].transient = FALSE
    BY <2>1 DEF DormantTcb
  <2>3. DormantTcb(t) \in TCB
    BY DormantFacts
  <2>4. ker.tcb[t] \in TCB
    BY <2>1, <2>3 DEF TCB
  <2>5. QED
    BY <2>2, <2>4 DEF TcbOk
<1>4. /\ ker.wait = [w \in WaitQueue |-> << >>] /\ ker.tpri \in SUBSET WaitQueue
      /\ \A w \in WaitQueue : ker.wait[w] = << >>
  BY <1>1, <1>2
<1>5. ker \in KerType
  <2>1. ker.tcb \in [Tsk -> TCB]
    <3>1. ker.tcb = [t \in Tsk |-> [DormantTcb(t) EXCEPT !.tstat = {"RUNNABLE"}]]
      BY <1>1
    <3>2. QED
      BY <3>1, <1>3
  <2>2. ker.wait \in [WaitQueue -> Seq(Tsk)]
    BY <1>4
  <2>3. QED
    BY <2>1, <2>2, <1>4, <1>1 DEF KerType
<1>6. \A w \in WaitQueue : QueueOk(ker, w)
  BY <1>3, <1>4 DEF QueueOk, IsInjective, Range, Sorted, WaitAssumption
<1>7. /\ free_semcb \in Seq(DynamicSem) /\ IsInjective(free_semcb)
      /\ Range(free_semcb) = DynamicSem
  BY <1>1, <1>2, SetToSeqFacts
<1>8. ASSUME NEW s \in Sem
      PROVE  /\ semcb[s] \in SEMCB
             /\ semcb[s].exists <=> s \notin DynamicSem
             /\ semcb[s].exists => /\ semcb[s].semcnt <= semcb[s].maxsem
                                   /\ semcb[s].isemcnt <= semcb[s].maxsem
  <2>1. CASE s \in StaticSem
    <3>1. semcb[s] = NewSemcb(seminib[s]) /\ seminib[s] \in SEMINIB
      BY <2>1, <1>1 DEF SemAssumption
    <3>2. QED
      BY <3>1, <2>1, <1>2 DEF NewSemcb, SEMINIB, SEMCB, SemAssumption
  <2>2. CASE s \notin StaticSem
    <3>1. semcb[s] = [exists |-> FALSE, semcnt |-> 0, isemcnt |-> 0, maxsem |-> 0]
      BY <2>2, <1>1
    <3>2. QED
      BY <3>1, <2>2, <1>2 DEF SEMCB, SemAssumption
  <2>3. QED
    BY <2>1, <2>2
<1>9. semcb \in [Sem -> SEMCB]
  BY <1>1, <1>8
<1>10. NoWaitForAvailable
  BY <1>2, <1>4 DEF NoWaitForAvailable
<1>11. FreeBlocks
  BY <1>7, <1>8, <1>2 DEF FreeBlocks
<1>12. CountInRange
  BY <1>8 DEF CountInRange
<1>13. QED
  BY <1>3, <1>5, <1>6, <1>7, <1>8, <1>9, <1>10, <1>11, <1>12 DEF SemInv, SemTypeOK, WaitOk
----------------------------------------------------------------------------
\* The calls on semaphores: each keeps the invariant and is a step of the
\* resource.

Avail(cb) == [s \in Sem |-> cb[s].semcnt]

LEMMA Mapping ==
    ASSUME SemAssumption
    PROVE  /\ [s \in Sem |-> semcb[s].semcnt] = Avail(semcb)
           /\ [s \in Sem |-> semcb'[s].semcnt] = Avail(semcb')
           /\ [s \in Sem |-> Range(ker.wait[s])] = Waiters(ker)
           /\ [s \in Sem |-> Range(ker'.wait[s])] = Waiters(ker')
           /\ Outcome = Results(ker) /\ Outcome' = Results(ker')
BY DEF SemAssumption, Avail, Waiters, Results, ResultOf, Outcome, Waiting, tcb

LEMMA Takes ==
    ASSUME SemAssumption, NEW t \in Tsk, NEW s \in Sem,
           Avail(semcb)[s] > 0, Avail(semcb') = [Avail(semcb) EXCEPT ![s] = @ - 1],
           Results(ker') = WithResult(Results(ker), t, "granted"),
           Waiters(ker') = Waiters(ker)
    PROVE  ResourceStep
<1>1. Units!Take(t, s)
  BY Mapping DEF Units!Take, WithResult
<1>2. QED
  BY <1>1 DEF ResourceStep, Units!ResourceNext

LEMMA Blocks ==
    ASSUME SemAssumption, NEW t \in Tsk, NEW s \in Sem,
           Avail(semcb)[s] = 0, Results(ker)[t] # "pending",
           Waiters(ker') = WithWaiter(Waiters(ker), s, t),
           Results(ker') = WithResult(Results(ker), t, "pending"), semcb' = semcb
    PROVE  ResourceStep
<1>1. Units!Block(t, s)
  BY Mapping DEF Units!Block, WithResult, WithWaiter
<1>2. QED
  BY <1>1 DEF ResourceStep, Units!ResourceNext

LEMMA Gives ==
    ASSUME SemAssumption, NEW s \in Sem, Waiters(ker)[s] = {}, UNCHANGED ker,
           Avail(semcb') = [Avail(semcb) EXCEPT ![s] = @ + 1]
    PROVE  ResourceStep
<1>1. Waiters(ker') = Waiters(ker) /\ Results(ker') = Results(ker)
  OBVIOUS
<1>2. Units!Give(s)
  BY <1>1, Mapping DEF Units!Give
<1>3. QED
  BY <1>2 DEF ResourceStep, Units!ResourceNext

LEMMA Grants ==
    ASSUME SemAssumption, NEW t \in Tsk, NEW s \in Sem, t \in Waiters(ker)[s],
           Waiters(ker') = WithoutWaiter(Waiters(ker), s, t),
           Results(ker') = WithResult(Results(ker), t, "granted"), semcb' = semcb
    PROVE  ResourceStep
<1>1. Units!Grant(t, s)
  BY Mapping DEF Units!Grant, WithResult, WithoutWaiter
<1>2. QED
  BY <1>1 DEF ResourceStep, Units!ResourceNext

LEMMA Cancels ==
    ASSUME SemAssumption, NEW t \in Tsk, NEW s \in Sem, t \in Waiters(ker)[s],
           Waiters(ker') = WithoutWaiter(Waiters(ker), s, t),
           Results(ker') = WithResult(Results(ker), t, "none"), semcb' = semcb
    PROVE  ResourceStep
<1>1. Units!Cancel(t, s)
  BY Mapping DEF Units!Cancel, WithResult, WithoutWaiter
<1>2. QED
  BY <1>1 DEF ResourceStep, Units!ResourceNext

LEMMA Forgets ==
    ASSUME SemAssumption, NEW t \in Tsk, Results(ker)[t] = "granted",
           Waiters(ker') = Waiters(ker),
           Results(ker') = WithResult(Results(ker), t, "none"), semcb' = semcb
    PROVE  ResourceStep
<1>1. Units!Forget(t)
  BY Mapping DEF Units!Forget, WithResult
<1>2. QED
  BY <1>1 DEF ResourceStep, Units!ResourceNext

LEMMA Resets ==
    ASSUME SemAssumption, NEW s \in Sem, NEW n \in Nat,
           Avail(semcb') = [Avail(semcb) EXCEPT ![s] = n],
           Waiters(ker') = [Waiters(ker) EXCEPT ![s] = {}],
           Results(ker') = [t \in Tsk |-> IF t \in Waiters(ker)[s] THEN "none"
                                          ELSE Results(ker)[t]]
    PROVE  ResourceStep
<1>1. Avail(semcb')[s] = n
  BY DEF Avail
<1>2. Avail(semcb') = [Avail(semcb) EXCEPT ![s] = Avail(semcb')[s]]
  BY <1>1
<1>3. Units!Reset(s)
  BY <1>1, <1>2, Mapping DEF Units!Reset
<1>4. QED
  BY <1>3 DEF ResourceStep, Units!ResourceNext

LEMMA Stutters ==
    ASSUME SemAssumption, Waiters(ker') = Waiters(ker), Results(ker') = Results(ker),
           semcb' = semcb
    PROVE  ResourceStep
<1>1. UNCHANGED Units!resourceVars
  BY Mapping DEF Units!resourceVars
<1>2. QED
  BY <1>1 DEF ResourceStep

\* A step that changes the control block of one semaphore.
LEMMA SemSet ==
    ASSUME SemAssumption, SemInv, WaitOk(ker'), NEW s \in Sem, NEW c \in SEMCB,
           semcb' = [semcb EXCEPT ![s] = c],
           c.exists => c.semcnt <= c.maxsem /\ c.isemcnt <= c.maxsem,
           \A v \in Sem : v # s /\ ker'.wait[v] # << >> => ker.wait[v] # << >>,
           ker'.wait[s] # << >> => c.exists /\ c.semcnt = 0,
           free_semcb' \in Seq(DynamicSem), IsInjective(free_semcb'),
           Range(free_semcb') = IF c.exists THEN Range(free_semcb) \ {s}
                                            ELSE Range(free_semcb) \cup {s}
    PROVE  SemInv' /\ Avail(semcb') = [Avail(semcb) EXCEPT ![s] = c.semcnt]
<1>1. semcb \in [Sem -> SEMCB]
  BY DEF SemInv, SemTypeOK
<1>2. \A v \in Sem : semcb'[v] = IF v = s THEN c ELSE semcb[v]
  BY <1>1
<1>3. semcb' \in [Sem -> SEMCB]
  BY <1>1
<1>4. SemTypeOK'
  BY <1>3 DEF SemTypeOK, WaitOk
<1>5. NoWaitForAvailable'
  BY <1>2 DEF NoWaitForAvailable, SemInv
<1>6. CountInRange'
  BY <1>2 DEF CountInRange, SemInv
<1>7. \A v \in Sem : semcb'[v].exists => semcb'[v].isemcnt <= semcb'[v].maxsem
  BY <1>2 DEF SemInv
<1>8. FreeBlocks'
  <2>1. Range(free_semcb) = {v \in Sem : ~semcb[v].exists}
    BY DEF SemInv, FreeBlocks
  <2>2. Range(free_semcb') = {v \in Sem : ~semcb'[v].exists}
    BY <2>1, <1>2
  <2>3. QED
    BY <2>2 DEF FreeBlocks
<1>9. Avail(semcb') = [Avail(semcb) EXCEPT ![s] = c.semcnt]
  <2>1. \A v \in Sem : semcb'[v].semcnt = IF v = s THEN c.semcnt ELSE semcb[v].semcnt
    BY <1>2
  <2>2. QED
    BY <2>1 DEF Avail
<1>10. QED
  BY <1>4, <1>5, <1>6, <1>7, <1>8, <1>9 DEF SemInv

\* A step that changes no semaphore.
LEMMA SemSame ==
    ASSUME SemAssumption, SemInv, WaitOk(ker'), semcb' = semcb, free_semcb' = free_semcb,
           \A s \in Sem : ker'.wait[s] # << >> =>
               ker.wait[s] # << >> \/ (semcb[s].exists /\ semcb[s].semcnt = 0)
    PROVE  SemInv'
BY DEF SemInv, SemTypeOK, WaitOk, NoWaitForAvailable, CountInRange, FreeBlocks

LEMMA TaskSem ==
    ASSUME WaitAssumption, SemAssumption, SemInv, NEW t \in Tsk, TaskNext(t),
           semcb' = semcb, free_semcb' = free_semcb
    PROVE  SemInv' /\ ResourceStep
<1>1. WaitOk(ker) /\ ker \in KerType /\ Sem = WaitQueue
  BY DEF SemInv, WaitOk, SemAssumption
<1>2. TaskEffect(ker, ker', t)
  BY <1>1, TaskStep
<1>3. ker' \in KerType /\ \A s \in Sem : Waiters(ker')[s] \subseteq Waiters(ker)[s]
  BY <1>2, EffectWaiters
<1>4. \A s \in Sem : ker'.wait[s] # << >> => ker.wait[s] # << >>
  BY <1>1, <1>3, FewerWaiters
<1>5. SemInv'
  <2>1. WaitOk(ker')
    BY <1>2 DEF TaskEffect
  <2>3. \A s \in Sem : ker'.wait[s] # << >> =>
           ker.wait[s] # << >> \/ (semcb[s].exists /\ semcb[s].semcnt = 0)
    BY <1>4
  <2>2. QED
    BY <2>1, <2>3, SemSame
<1>6. ResourceStep
  BY <1>1, <1>2, Stutters, Forgets, Cancels DEF TaskEffect
<1>7. QED
  BY <1>5, <1>6
\* What the invariant says of one semaphore.
LEMMA SemFacts ==
    ASSUME SemAssumption, SemInv, NEW s \in Sem
    PROVE  /\ s \in WaitQueue /\ WaitOk(ker) /\ ker \in KerType
           /\ semcb \in [Sem -> SEMCB] /\ semcb[s] \in SEMCB
           /\ Maxsem \in Nat
           /\ free_semcb \in Seq(DynamicSem) /\ IsInjective(free_semcb)
           /\ s \in Range(free_semcb) <=> ~semcb[s].exists
           /\ ker.wait[s] # << >> => semcb[s].exists /\ semcb[s].semcnt = 0
           /\ semcb[s].exists => /\ semcb[s].semcnt <= semcb[s].maxsem
                                 /\ semcb[s].isemcnt <= semcb[s].maxsem
BY DEF SemAssumption, SemInv, SemTypeOK, WaitOk, FreeBlocks, NoWaitForAvailable, CountInRange

\* The free list while a semaphore stays what it is.
LEMMA FreeKept ==
    ASSUME SemAssumption, SemInv, NEW s \in Sem, NEW c, c.exists = semcb[s].exists,
           free_semcb' = free_semcb
    PROVE  /\ free_semcb' \in Seq(DynamicSem) /\ IsInjective(free_semcb')
           /\ Range(free_semcb') = IF c.exists THEN Range(free_semcb) \ {s}
                                               ELSE Range(free_semcb) \cup {s}
<1>1. free_semcb \in Seq(DynamicSem) /\ IsInjective(free_semcb)
  BY SemFacts
<1>2. s \in Range(free_semcb) <=> ~semcb[s].exists
  BY SemFacts
<1>3. QED
  BY <1>1, <1>2

\* A semaphore is created with nobody in its queue: only the order of the queue
\* is new.
LEMMA CreateQueue ==
    ASSUME NEW k, WaitOk(k), NEW w \in WaitQueue, k.wait[w] = << >>,
           NEW T \in SUBSET WaitQueue, \A v \in WaitQueue : v # w => (v \in T <=> v \in k.tpri),
           NEW k2, k2 = NewQueue(k, w, T)
    PROVE  WaitOk(k2) /\ k2.wait = k.wait /\ k2.tcb = k.tcb
<1>1. k \in KerType /\ k.wait \in [WaitQueue -> Seq(Tsk)]
  BY KerFields DEF WaitOk
<1>2. k.wait = [k.wait EXCEPT ![w] = << >>]
  BY <1>1
<1>3. k2.wait = k.wait /\ k2.tcb = k.tcb /\ k2.tpri = T
  BY <1>1, <1>2 DEF KerType, NewQueue
<1>4. k2 \in KerType
  BY <1>1, <1>2 DEF KerType, NewQueue
<1>5. ASSUME NEW v \in WaitQueue
      PROVE  QueueOk(k2, v)
  <2>1. QueueOk(k, v) /\ PriorityOf(k2) = PriorityOf(k)
    BY <1>3 DEF WaitOk, PriorityOf
  <2>2. CASE v # w
    BY <2>1, <2>2, <1>3 DEF QueueOk
  <2>3. CASE v = w
    <3>1. Sorted(k2.wait[v], PriorityOf(k2))
      BY <2>3, <1>3 DEF Sorted
    <3>2. QED
      BY <2>1, <3>1, <1>3 DEF QueueOk
  <2>4. QED
    BY <2>2, <2>3
<1>6. QED
  BY <1>3, <1>4, <1>5 DEF WaitOk

LEMMA AcreSem ==
    ASSUME WaitAssumption, SemAssumption, SemInv, NEW ini \in SEMINIB, acre_sem(ini)
    PROVE  SemInv' /\ ResourceStep
<1>. DEFINE s == Head(free_semcb)
            c == NewSemcb(ini)
            T == IF ini.tpri THEN ker.tpri \cup {s} ELSE ker.tpri \ {s}
<1>1. /\ free_semcb # << >> /\ semcb' = [semcb EXCEPT ![s] = c]
      /\ ker' = NewQueue(ker, s, T)
      /\ free_semcb' = Tail(free_semcb)
  BY DEF acre_sem, NewQueue
<1>2. free_semcb \in Seq(DynamicSem) /\ IsInjective(free_semcb)
  BY DEF SemInv, SemTypeOK, FreeBlocks
<1>3. /\ s \in Range(free_semcb) /\ s \in DynamicSem
      /\ Tail(free_semcb) \in Seq(DynamicSem) /\ IsInjective(Tail(free_semcb))
      /\ Range(Tail(free_semcb)) = Range(free_semcb) \ {s}
  BY <1>1, <1>2, TailFacts
<1>4. s \in Sem
  BY <1>3 DEF Sem
<1>. HIDE DEF s
<1>5. /\ s \in WaitQueue /\ WaitOk(ker) /\ ker \in KerType /\ Maxsem \in Nat
      /\ ~semcb[s].exists /\ ker.wait[s] = << >>
  BY <1>3, <1>4, SemFacts
<1>6. /\ c \in SEMCB /\ c.exists /\ c.semcnt <= c.maxsem /\ c.isemcnt <= c.maxsem
      /\ c.semcnt \in Nat
  BY <1>5 DEF NewSemcb, SEMCB, SEMINIB
<1>7. T \in SUBSET WaitQueue /\ \A v \in WaitQueue : v # s => (v \in T <=> v \in ker.tpri)
  BY <1>5, KerFields
<1>. HIDE DEF T, c
<1>8. WaitOk(ker') /\ ker'.wait = ker.wait /\ ker'.tcb = ker.tcb
  BY <1>1, <1>5, <1>7, CreateQueue
<1>9. /\ \A v \in Sem : v # s /\ ker'.wait[v] # << >> => ker.wait[v] # << >>
      /\ ker'.wait[s] # << >> => c.exists /\ c.semcnt = 0
  BY <1>5, <1>8
<1>10. /\ free_semcb' \in Seq(DynamicSem) /\ IsInjective(free_semcb')
       /\ Range(free_semcb') = IF c.exists THEN Range(free_semcb) \ {s}
                                           ELSE Range(free_semcb) \cup {s}
  BY <1>1, <1>3, <1>6
<1>11. SemInv' /\ Avail(semcb') = [Avail(semcb) EXCEPT ![s] = c.semcnt]
  BY <1>1, <1>4, <1>6, <1>8, <1>9, <1>10, SemSet
<1>12. Waiters(ker') = Waiters(ker) /\ Results(ker') = Results(ker)
  BY <1>8 DEF Waiters, Results
<1>13. Waiters(ker)[s] = {}
  BY <1>5, WaitersEmpty
<1>14. /\ Waiters(ker') = [Waiters(ker) EXCEPT ![s] = {}]
       /\ Results(ker') = [t \in Tsk |-> IF t \in Waiters(ker)[s] THEN "none"
                                         ELSE Results(ker)[t]]
  BY <1>12, <1>13 DEF Waiters, Results
<1>15. QED
  BY <1>4, <1>6, <1>11, <1>14, Resets

LEMMA DelSem ==
    ASSUME WaitAssumption, SemAssumption, SemInv, NEW s \in Sem, del_sem(s)
    PROVE  SemInv' /\ ResourceStep
<1>. DEFINE c == [semcb[s] EXCEPT !.exists = FALSE]
<1>1. /\ s \in DynamicSem /\ semcb[s].exists /\ ker' = InitWaitQueue(ker, s)
      /\ semcb' = [semcb EXCEPT ![s] = c] /\ free_semcb' = Append(free_semcb, s)
  BY DEF del_sem, QueueInsertPrev
<1>2. /\ s \in WaitQueue /\ WaitOk(ker) /\ semcb[s] \in SEMCB
      /\ free_semcb \in Seq(DynamicSem) /\ IsInjective(free_semcb)
      /\ s \notin Range(free_semcb) /\ Maxsem \in Nat
  BY <1>1, SemFacts
<1>3. /\ c \in SEMCB /\ ~c.exists /\ c.semcnt \in Nat
  <2>1. c \in SEMCB /\ ~c.exists /\ c.semcnt = semcb[s].semcnt
    BY <1>2 DEF SEMCB
  <2>2. semcb[s].semcnt \in Nat
    BY <1>2 DEF SEMCB
  <2>3. QED
    BY <2>1, <2>2
<1>4. /\ WaitOk(ker') /\ ker'.wait[s] = << >>
      /\ \A v \in WaitQueue : v # s => ker'.wait[v] = ker.wait[v]
      /\ Waiters(ker') = [Waiters(ker) EXCEPT ![s] = {}]
      /\ Results(ker') = [t \in Tsk |-> IF t \in Waiters(ker)[s] THEN "none"
                                        ELSE Results(ker)[t]]
  BY <1>1, <1>2, InitsQueue
<1>. HIDE DEF c
<1>5. /\ \A v \in Sem : v # s /\ ker'.wait[v] # << >> => ker.wait[v] # << >>
      /\ ker'.wait[s] # << >> => c.exists /\ c.semcnt = 0
  BY <1>4 DEF SemAssumption
<1>6. /\ free_semcb' \in Seq(DynamicSem) /\ IsInjective(free_semcb')
      /\ Range(free_semcb') = IF c.exists THEN Range(free_semcb) \ {s}
                                          ELSE Range(free_semcb) \cup {s}
  BY <1>1, <1>2, <1>3, LastFacts
<1>7. SemInv' /\ Avail(semcb') = [Avail(semcb) EXCEPT ![s] = c.semcnt]
  BY <1>1, <1>3, <1>4, <1>5, <1>6, SemSet
<1>8. QED
  BY <1>3, <1>4, <1>7, Resets

LEMMA IniSem ==
    ASSUME WaitAssumption, SemAssumption, SemInv, NEW s \in Sem, ini_sem(s)
    PROVE  SemInv' /\ ResourceStep
<1>. DEFINE c == [semcb[s] EXCEPT !.semcnt = semcb[s].isemcnt]
<1>1. /\ semcb[s].exists /\ ker' = InitWaitQueue(ker, s)
      /\ semcb' = [semcb EXCEPT ![s] = c] /\ free_semcb' = free_semcb
  BY DEF ini_sem
<1>2. /\ s \in WaitQueue /\ WaitOk(ker) /\ semcb[s] \in SEMCB /\ Maxsem \in Nat
      /\ semcb[s].isemcnt <= semcb[s].maxsem
  BY <1>1, SemFacts
<1>3. /\ c \in SEMCB /\ c.exists = semcb[s].exists /\ c.semcnt \in Nat
      /\ c.exists => c.semcnt <= c.maxsem /\ c.isemcnt <= c.maxsem
  BY <1>2 DEF SEMCB
<1>4. /\ WaitOk(ker') /\ ker'.wait[s] = << >>
      /\ \A v \in WaitQueue : v # s => ker'.wait[v] = ker.wait[v]
      /\ Waiters(ker') = [Waiters(ker) EXCEPT ![s] = {}]
      /\ Results(ker') = [t \in Tsk |-> IF t \in Waiters(ker)[s] THEN "none"
                                        ELSE Results(ker)[t]]
  BY <1>1, <1>2, InitsQueue
<1>. HIDE DEF c
<1>5. /\ \A v \in Sem : v # s /\ ker'.wait[v] # << >> => ker.wait[v] # << >>
      /\ ker'.wait[s] # << >> => c.exists /\ c.semcnt = 0
  BY <1>4 DEF SemAssumption
<1>6. /\ free_semcb' \in Seq(DynamicSem) /\ IsInjective(free_semcb')
      /\ Range(free_semcb') = IF c.exists THEN Range(free_semcb) \ {s}
                                          ELSE Range(free_semcb) \cup {s}
  BY <1>1, <1>3, FreeKept
<1>7. SemInv' /\ Avail(semcb') = [Avail(semcb) EXCEPT ![s] = c.semcnt]
  BY <1>1, <1>3, <1>4, <1>5, <1>6, SemSet
<1>8. QED
  BY <1>3, <1>4, <1>7, Resets

LEMMA SigSem ==
    ASSUME WaitAssumption, SemAssumption, SemInv, NEW s \in Sem, sig_sem(s)
    PROVE  SemInv' /\ ResourceStep
<1>1. semcb[s].exists /\ free_semcb' = free_semcb
  BY DEF sig_sem
<1>2. /\ s \in WaitQueue /\ WaitOk(ker) /\ ker \in KerType /\ Maxsem \in Nat
      /\ semcb \in [Sem -> SEMCB] /\ semcb[s] \in SEMCB
      /\ semcb[s].isemcnt <= semcb[s].maxsem
  BY <1>1, SemFacts
<1>3. CASE ker.wait[s] # << >>
  <2>. DEFINE t == Head(ker.wait[s])
  <2>1. ker' = CompleteFirst(ker, s) /\ semcb' = semcb
    BY <1>3 DEF sig_sem
  <2>2. /\ WaitOk(ker') /\ t \in Tsk /\ t \in Waiters(ker)[s]
        /\ Waiters(ker') = WithoutWaiter(Waiters(ker), s, t)
        /\ Results(ker') = WithResult(Results(ker), t, "granted")
    BY <2>1, <1>2, <1>3, CompletesFirst
  <2>. HIDE DEF t
  <2>3. ker' \in KerType /\ \A v \in Sem : Waiters(ker')[v] \subseteq Waiters(ker)[v]
    BY <2>2 DEF WithoutWaiter, Waiters, WaitOk, SemAssumption
  <2>4. \A v \in Sem : ker'.wait[v] # << >> => ker.wait[v] # << >>
    BY <2>3, <1>2, FewerWaiters
  <2>5. \A v \in Sem : ker'.wait[v] # << >> =>
           ker.wait[v] # << >> \/ (semcb[v].exists /\ semcb[v].semcnt = 0)
    BY <2>4
  <2>6. SemInv'
    BY <2>1, <2>2, <2>5, <1>1, SemSame
  <2>7. ResourceStep
    BY <2>1, <2>2, Grants
  <2>8. QED
    BY <2>6, <2>7
<1>4. CASE ker.wait[s] = << >>
  <2>. DEFINE c == [semcb[s] EXCEPT !.semcnt = @ + 1]
  <2>1. /\ semcb[s].semcnt < semcb[s].maxsem /\ ker' = ker
        /\ semcb' = [semcb EXCEPT ![s] = c]
    BY <1>4 DEF sig_sem
  <2>2. /\ c \in SEMCB /\ c.exists = semcb[s].exists /\ c.semcnt = semcb[s].semcnt + 1
        /\ c.semcnt <= c.maxsem /\ c.isemcnt <= c.maxsem
    BY <2>1, <1>2 DEF SEMCB
  <2>. HIDE DEF c
  <2>3. /\ \A v \in Sem : v # s /\ ker'.wait[v] # << >> => ker.wait[v] # << >>
        /\ ker'.wait[s] # << >> => c.exists /\ c.semcnt = 0
    BY <2>1, <1>4
  <2>4. /\ free_semcb' \in Seq(DynamicSem) /\ IsInjective(free_semcb')
        /\ Range(free_semcb') = IF c.exists THEN Range(free_semcb) \ {s}
                                            ELSE Range(free_semcb) \cup {s}
    BY <1>1, <2>2, FreeKept
  <2>5. WaitOk(ker')
    BY <1>2, <2>1
  <2>6. SemInv' /\ Avail(semcb') = [Avail(semcb) EXCEPT ![s] = c.semcnt]
    BY <2>1, <2>2, <2>3, <2>4, <2>5, SemSet
  <2>7. Avail(semcb') = [Avail(semcb) EXCEPT ![s] = @ + 1]
    BY <2>2, <2>6 DEF Avail
  <2>8. Waiters(ker)[s] = {}
    BY <1>2, <1>4, WaitersEmpty
  <2>9. ResourceStep
    BY <2>1, <2>7, <2>8, Gives
  <2>10. QED
    BY <2>6, <2>9
<1>5. QED
  BY <1>3, <1>4

LEMMA ExecutesNotWaiting ==
    ASSUME NEW k, WaitOk(k), NEW t \in Tsk,
           "RUNNABLE" \in k.tcb[t].tstat \/ k.tcb[t].transient
    PROVE  "WAITING" \notin k.tcb[t].tstat
BY DEF WaitOk, TcbOk

LEMMA GetsSem ==
    ASSUME WaitAssumption, SemAssumption, SemInv, NEW t \in Tsk, NEW s \in Sem,
           Executes(t), GetSem(t, s)
    PROVE  SemInv' /\ ResourceStep
<1>. DEFINE c  == [semcb[s] EXCEPT !.semcnt = @ - 1]
            c1 == [ker.tcb[t] EXCEPT !.wercd = "E_OK"]
<1>1. /\ semcb[s].exists /\ semcb[s].semcnt >= 1 /\ free_semcb' = free_semcb
      /\ semcb' = [semcb EXCEPT ![s] = c] /\ ker' = SetTcb(ker, t, c1)
  BY DEF GetSem, SetTcb
<1>2. /\ s \in WaitQueue /\ WaitOk(ker) /\ ker \in KerType /\ Maxsem \in Nat
      /\ semcb \in [Sem -> SEMCB] /\ semcb[s] \in SEMCB
      /\ semcb[s].semcnt <= semcb[s].maxsem
      /\ semcb[s].isemcnt <= semcb[s].maxsem
  BY <1>1, SemFacts
<1>3. /\ c \in SEMCB /\ c.exists = semcb[s].exists /\ c.semcnt = semcb[s].semcnt - 1
      /\ c.semcnt <= c.maxsem /\ c.isemcnt <= c.maxsem
  <2>1. /\ semcb[s].semcnt - 1 \in 0 .. Maxsem /\ semcb[s].semcnt - 1 <= semcb[s].maxsem
        /\ semcb[s].maxsem \in Nat /\ semcb[s].isemcnt \in Nat
    BY <1>1, <1>2 DEF SEMCB
  <2>2. /\ c \in SEMCB /\ c.exists = semcb[s].exists /\ c.semcnt = semcb[s].semcnt - 1
        /\ c.maxsem = semcb[s].maxsem /\ c.isemcnt = semcb[s].isemcnt
    BY <1>2, <2>1 DEF SEMCB
  <2>3. QED
    BY <1>2, <2>1, <2>2
<1>4. "WAITING" \notin ker.tcb[t].tstat
  BY <1>2, ExecutesNotWaiting DEF Executes, Runnable, tcb
<1>5. ker.tcb[t] \in TCB /\ TcbOk(ker.tcb[t])
  BY <1>2, KerFields DEF WaitOk
<1>6. /\ c1 \in TCB /\ c1.p_wobjcb = ker.tcb[t].p_wobjcb /\ c1.priority = ker.tcb[t].priority
      /\ ResultOf(c1) = "granted"
  BY <1>4, <1>5 DEF TCB, Ercd, ResultOf
<1>7. TcbOk(c1)
  BY <1>5 DEF TCB, TcbOk
<1>. HIDE DEF c, c1
<1>8. /\ ker' \in KerType /\ ker'.tcb[t] = c1 /\ OthersKept(ker, ker', t)
      /\ ker'.wait = ker.wait /\ ker'.tpri = ker.tpri
  BY <1>1, <1>2, <1>6, TcbSet
<1>9. /\ WaitOk(ker') /\ Waiters(ker') = Waiters(ker)
      /\ Results(ker') = WithResult(Results(ker), t, ResultOf(ker'.tcb[t]))
  BY <1>2, <1>6, <1>7, <1>8, LocalStep
<1>10. Results(ker') = WithResult(Results(ker), t, "granted")
  BY <1>6, <1>8, <1>9
<1>11. ker.wait[s] = << >>
  BY <1>1, <1>2, SemFacts DEF SEMCB
<1>12. /\ \A v \in Sem : v # s /\ ker'.wait[v] # << >> => ker.wait[v] # << >>
       /\ ker'.wait[s] # << >> => c.exists /\ c.semcnt = 0
  BY <1>8, <1>11
<1>13. /\ free_semcb' \in Seq(DynamicSem) /\ IsInjective(free_semcb')
       /\ Range(free_semcb') = IF c.exists THEN Range(free_semcb) \ {s}
                                           ELSE Range(free_semcb) \cup {s}
  BY <1>1, <1>3, FreeKept
<1>14. SemInv' /\ Avail(semcb') = [Avail(semcb) EXCEPT ![s] = c.semcnt]
  BY <1>1, <1>3, <1>9, <1>12, <1>13, SemSet
<1>15. Avail(semcb)[s] > 0 /\ Avail(semcb') = [Avail(semcb) EXCEPT ![s] = @ - 1]
  BY <1>1, <1>2, <1>3, <1>14 DEF Avail, SEMCB
<1>16. ResourceStep
  BY <1>9, <1>10, <1>15, Takes
<1>17. QED
  BY <1>14, <1>16

LEMMA WaitsSem ==
    ASSUME WaitAssumption, SemAssumption, SemInv, NEW t \in Tsk, NEW s \in Sem,
           NEW tmout \in BOOLEAN, WaitSem(t, s, tmout)
    PROVE  SemInv' /\ ResourceStep
<1>1. Executes(t) /\ ~ker.tcb[t].raster
  BY DEF WaitSem, MayWait, tcb
<1>2. CASE GetSem(t, s)
  BY <1>1, <1>2, GetsSem
<1>3. CASE /\ semcb[s].exists /\ semcb[s].semcnt = 0
           /\ ker' = WobjMakeWait(ker, s, t, tmout)
           /\ UNCHANGED <<semcb, free_semcb>>
  <2>1. /\ s \in WaitQueue /\ WaitOk(ker) /\ ker \in KerType
    BY SemFacts
  <2>2. /\ WaitOk(ker') /\ ResultOf(ker.tcb[t]) # "pending"
        /\ Waiters(ker') = WithWaiter(Waiters(ker), s, t)
        /\ Results(ker') = WithResult(Results(ker), t, "pending")
    BY <1>1, <1>3, <2>1, MakesWait DEF Executes, Runnable, tcb
  <2>3. ASSUME NEW v \in Sem, ker'.wait[v] # << >>
        PROVE  ker.wait[v] # << >> \/ (semcb[v].exists /\ semcb[v].semcnt = 0)
    <3>1. CASE v = s
      BY <3>1, <1>3
    <3>2. CASE v # s
      <4>1. Waiters(ker')[v] = Waiters(ker)[v] /\ v \in WaitQueue /\ ker' \in KerType
        BY <3>2, <2>2 DEF WithWaiter, Waiters, WaitOk, SemAssumption
      <4>2. QED
        BY <4>1, <2>1, <2>3, WaitersEmpty
    <3>3. QED
      BY <3>1, <3>2
  <2>4. semcb' = semcb /\ free_semcb' = free_semcb
    BY <1>3
  <2>5. SemInv'
    BY <2>2, <2>3, <2>4, SemSame
  <2>6. Avail(semcb)[s] = 0 /\ Results(ker)[t] # "pending"
    BY <1>3, <2>2 DEF Avail, Results
  <2>7. ResourceStep
    BY <2>2, <2>4, <2>6, Blocks
  <2>8. QED
    BY <2>5, <2>7
<1>4. QED
  BY <1>2, <1>3 DEF WaitSem

----------------------------------------------------------------------------
\* The theorems

LEMMA SemStep ==
    ASSUME WaitAssumption, SemAssumption, SemInv, [SemNext]_sem_vars
    PROVE  SemInv' /\ ResourceStep
<1>1. CASE \E ini \in SEMINIB : acre_sem(ini)
  BY <1>1, AcreSem
<1>2. CASE \E s \in Sem : sig_sem(s)
  BY <1>2, SigSem
<1>3. CASE \E s \in Sem : ini_sem(s)
  BY <1>3, IniSem
<1>4. CASE \E s \in Sem : del_sem(s)
  BY <1>4, DelSem
<1>5. CASE \E s \in Sem, t \in Tsk : wai_sem(t, s)
  BY <1>5, WaitsSem DEF wai_sem
<1>6. CASE \E s \in Sem, t \in Tsk : twai_sem(t, s)
  BY <1>6, WaitsSem DEF twai_sem
<1>7. CASE \E s \in Sem, t \in Tsk : pol_sem(t, s)
  BY <1>7, GetsSem DEF pol_sem
<1>8. CASE \E t \in Tsk : TaskNext(t) /\ UNCHANGED <<semcb, free_semcb>>
  BY <1>8, TaskSem
<1>9. CASE UNCHANGED sem_vars
  <2>1. ker' = ker /\ semcb' = semcb /\ free_semcb' = free_semcb
    BY <1>9 DEF sem_vars
  <2>2. SemInv'
    BY <2>1 DEF SemInv, SemTypeOK, NoWaitForAvailable, CountInRange, FreeBlocks
  <2>3. QED
    BY <2>1, <2>2, Stutters
<1>10. QED
  BY <1>1, <1>2, <1>3, <1>4, <1>5, <1>6, <1>7, <1>8, <1>9 DEF SemNext
LEMMA InitResource ==
    ASSUME WaitAssumption, SemAssumption, SemInit
    PROVE  Units!ResourceInit
<1>1. SemInv /\ Sem = WaitQueue
  BY InitSemInv DEF SemAssumption
<1>2. \A s \in Sem : ker.wait[s] = << >>
  BY <1>1 DEF SemInit, KerInit
<1>3. \A t \in Tsk : ResultOf(ker.tcb[t]) = "none"
  <2>. SUFFICES ASSUME NEW t \in Tsk
                PROVE  ResultOf(ker.tcb[t]) = "none"
    OBVIOUS
  <2>1. ker.tcb[t] = [DormantTcb(t) EXCEPT !.tstat = {"RUNNABLE"}]
    BY DEF SemInit, KerInit
  <2>2. QED
    BY <2>1 DEF DormantTcb, ResultOf
<1>4. Avail(semcb) \in [Sem -> Nat]
  <2>1. semcb \in [Sem -> SEMCB] /\ Maxsem \in Nat
    BY <1>1 DEF SemInv, SemTypeOK, SemAssumption
  <2>2. \A s \in Sem : semcb[s].semcnt \in Nat
    BY <2>1 DEF SEMCB
  <2>3. QED
    BY <2>2 DEF Avail
<1>5. Waiters(ker) = [s \in Sem |-> {}]
  BY <1>1, <1>2 DEF Waiters, Range
<1>6. Results(ker) = [t \in Tsk |-> "none"]
  BY <1>3 DEF Results
<1>7. QED
  BY <1>4, <1>5, <1>6, Mapping DEF Units!ResourceInit

\* The invariant SemInv of the semaphores holds in every state (semaphore.c).
THEOREM Invariance ==
    ASSUME WaitAssumption, SemAssumption
    PROVE  SemSpec => []SemInv
<1>1. SemInit => SemInv
  BY InitSemInv
<1>2. SemInv /\ [SemNext]_sem_vars => SemInv'
  BY SemStep
<1>3. QED
  BY <1>1, <1>2, PTL DEF SemSpec

\* The wait queues of semaphores, the states of the tasks, their time events and
\* the termination requests agree about who waits, whatever ends the waits or
\* changes priorities (wait.c:76-228, wait.h:62-79, task_term.c:216-224).
THEOREM SemaphoreWaits ==
    ASSUME WaitAssumption, SemAssumption
    PROVE  SemSpec => []WaitsAgree
<1>1. SemInv => WaitsAgree
  BY WaitsAgreeFrom DEF SemInv
<1>2. QED
  BY <1>1, Invariance, PTL

\* Nobody waits for a semaphore that is available or does not exist
\* (semaphore.c:258, :301, :319, :502).
THEOREM NobodyWaitsInVain ==
    ASSUME WaitAssumption, SemAssumption
    PROVE  SemSpec => []NoWaitForAvailable
<1>1. SemInv => NoWaitForAvailable
  BY DEF SemInv
<1>2. QED
  BY <1>1, Invariance, PTL

\* The count of a semaphore stays within its maximum, also when it is created in
\* a control block that was used before, and a control block is in the list of
\* free blocks exactly while no semaphore exists in it (semaphore.c:209-222,
\* :264, :314).
THEOREM BlocksCorrect ==
    ASSUME WaitAssumption, SemAssumption
    PROVE  SemSpec => [](CountInRange /\ FreeBlocks)
<1>1. SemInv => CountInRange /\ FreeBlocks
  BY DEF SemInv
<1>2. QED
  BY <1>1, Invariance, PTL

\* Semaphores implement shared resources: what is signalled goes to exactly one
\* waiting task or into the count, and a task whose wait ends in another way takes
\* nothing (module Resource; semaphore.c:285-517).
THEOREM ResourceImplemented ==
    ASSUME WaitAssumption, SemAssumption
    PROVE  SemSpec => ImplementsResource
<1>1. SemInit => Units!ResourceInit
  BY InitResource
<1>2. SemInv /\ [SemNext]_sem_vars => [Units!ResourceNext]_(Units!resourceVars)
  BY SemStep DEF ResourceStep
<1>3. QED
  BY <1>1, <1>2, Invariance, PTL DEF SemSpec, ImplementsResource, Units!ResourceSpec

----------------------------------------------------------------------------
\* The invariant of the mutexes

\* The task t holds the ceiling mutex m.
HoldsCeiling(cb, t, m) == cb[m].p_loctsk = t /\ cb[m].mtxatr = "TA_CEILING"

\* Of one task, its control block c, its fields for mutexes hu and the control
\* blocks cb of the mutexes: the list of its mutexes,
ListOk(hu, cb, t) ==
    /\ IsInjective(hu.lastmtx)
    /\ \A m \in Mtx : m \in Range(hu.lastmtx) <=> cb[m].p_loctsk = t

\* its priority is the highest of the base priority and the ceilings,
PriorityOk(c, hu, cb, t) ==
    /\ c.priority <= hu.bpriority
    /\ \A m \in Mtx : HoldsCeiling(cb, t, m) => c.priority <= cb[m].ceilpri
    /\ \/ c.priority = hu.bpriority
       \/ \E m \in Mtx : HoldsCeiling(cb, t, m) /\ c.priority = cb[m].ceilpri
    /\ hu.boosted <=> \E m \in Mtx : HoldsCeiling(cb, t, m)

\* its base priority is no higher than the ceilings,
CeilingOk(c, hu, cb, t) ==
    \A m \in Mtx :
        cb[m].mtxatr = "TA_CEILING" /\ (cb[m].p_loctsk = t \/ c.p_wobjcb = m) =>
            hu.bpriority >= cb[m].ceilpri

\* it waits for a mutex of another task, and a dormant task is as at the start.
AwaitsOk(c, cb, t) ==
    \A m \in Mtx : c.p_wobjcb = m => cb[m].p_loctsk # NULL /\ cb[m].p_loctsk # t

DormantOk(c, hu, t) ==
    c.tstat = {} => hu = NoMutex(t) /\ c.priority = ipriority[t]

TaskOk(c, hu, cb, t) ==
    /\ ListOk(hu, cb, t) /\ PriorityOk(c, hu, cb, t) /\ CeilingOk(c, hu, cb, t)
    /\ AwaitsOk(c, cb, t) /\ DormantOk(c, hu, t)

\* The properties are inductive together with the invariant of the waits, the
\* state of dormant tasks and the list of free control blocks.
MtxInv ==
    /\ MtxTypeOK /\ WaitOk(ker)
    /\ \A t \in Tsk : TaskOk(ker.tcb[t], held[t], mtxcb, t)
    /\ \A m \in Mtx : mtxcb[m].p_loctsk # NULL => Exists(m)
    /\ IsInjective(free_mtxcb)
    /\ \A m \in Mtx : m \in Range(free_mtxcb) <=> ~Exists(m)

\* A task is another one's control block only if it is the same task.
TcbOnly(k, k2, t, c) == k2.tcb[t] = c /\ OthersKept(k, k2, t)

\* change_priority of any task, waiting or not.
LEMMA ChangesPriority ==
    ASSUME WaitAssumption, NEW k, WaitOk(k), NEW t \in Tsk, NEW p \in Pri,
           NEW k2, k2 = change_priority(k, t, p)
    PROVE  /\ WaitOk(k2)
           /\ TcbOnly(k, k2, t, [k.tcb[t] EXCEPT !.priority = p])
           /\ \A w \in WaitQueue : w # k.tcb[t].p_wobjcb => k2.wait[w] = k.wait[w]
<1>. DEFINE c  == [k.tcb[t] EXCEPT !.priority = p]
            k1 == SetTcb(k, t, c)
<1>1. k \in KerType /\ k.tcb[t] \in TCB /\ TcbOk(k.tcb[t])
  BY KerFields DEF WaitOk
<1>2. /\ c \in TCB /\ c.p_wobjcb = k.tcb[t].p_wobjcb /\ c.wercd = k.tcb[t].wercd
      /\ c.tstat = k.tcb[t].tstat
  BY <1>1 DEF TCB
<1>3. TcbOk(c)
  BY <1>1 DEF TCB, TcbOk
<1>4. k1 = [k EXCEPT !.tcb[t].priority = p]
  BY DEF SetTcb
<1>5. "WAITING" \in k.tcb[t].tstat <=> k.tcb[t].p_wobjcb # NULL
  BY <1>1 DEF TcbOk
<1>6. k2 = IF "WAITING" \in k.tcb[t].tstat THEN WobjChangePriority(k1, t) ELSE k1
  BY <1>4, <1>5 DEF change_priority
<1>7. k1 \in KerType /\ k1.tcb[t] = c /\ OthersKept(k, k1, t) /\ k1.wait = k.wait
  BY <1>1, <1>2, TcbSet
<1>. HIDE DEF c, k1
<1>8. TaskEffect(k, k2, t)
  BY <1>2, <1>3, <1>6, ChgPri DEF k1
<1>9. k2.tcb = k1.tcb /\ \A w \in WaitQueue : w # c.p_wobjcb => k2.wait[w] = k.wait[w]
  <2>1. CASE "WAITING" \notin k.tcb[t].tstat
    BY <2>1, <1>6, <1>7
  <2>2. CASE "WAITING" \in k.tcb[t].tstat
    <3>. DEFINE w == c.p_wobjcb
    <3>1. k2 = WobjChangePriority(k1, t) /\ k1.tcb[t].p_wobjcb = w
      BY <2>2, <1>6, <1>7
    <3>3. \A q, r : /\ [[k1 EXCEPT !.wait[w] = q] EXCEPT !.wait[w] = r].tcb = k1.tcb
                    /\ \A v \in WaitQueue : v # w =>
                          [[k1 EXCEPT !.wait[w] = q] EXCEPT !.wait[w] = r].wait[v] = k1.wait[v]
      BY <1>7 DEF KerType
    <3>4. k2 = k1 \/ \E q, r : k2 = [[k1 EXCEPT !.wait[w] = q] EXCEPT !.wait[w] = r]
      BY <3>1 DEF WobjChangePriority
    <3>. HIDE DEF w
    <3>5. k2.tcb = k1.tcb /\ \A v \in WaitQueue : v # w => k2.wait[v] = k1.wait[v]
      <4>1. CASE k2 = k1
        BY <4>1
      <4>2. CASE \E q, r : k2 = [[k1 EXCEPT !.wait[w] = q] EXCEPT !.wait[w] = r]
        <5>1. PICK q, r : k2 = [[k1 EXCEPT !.wait[w] = q] EXCEPT !.wait[w] = r]
          BY <4>2
        <5>2. k1.wait \in [WaitQueue -> Seq(Tsk)] /\ DOMAIN k1 = {"tcb", "wait", "tpri"}
          BY <1>7 DEF KerType
        <5>3. QED
          BY <5>1, <5>2
      <4>3. QED
        BY <3>4, <4>1, <4>2
    <3>6. QED
      BY <3>5, <1>7 DEF w
  <2>3. QED
    BY <2>1, <2>2
<1>10. QED
  BY <1>2, <1>7, <1>8, <1>9 DEF TaskEffect, TcbOnly, OthersKept, c

\* The end of a wait, with a new priority.
LEMMA EndedFacts ==
    ASSUME NEW b \in TCB, TcbOk(b), "WAITING" \in b.tstat, NEW p \in Pri, NEW ercd \in Ercd
    PROVE  LET c == EndedTcb([b EXCEPT !.priority = p], ercd)
           IN  /\ c \in TCB /\ TcbOk(c) /\ c.priority = p /\ c.p_wobjcb = NULL
               /\ c.tstat # {} /\ b.tstat # {}
<1>. DEFINE c == EndedTcb([b EXCEPT !.priority = p], ercd)
<1>1. ~b.raster /\ ~b.transient
  BY DEF TcbOk
<1>2. /\ c.tstat = IF "SUSPENDED" \in b.tstat THEN {"SUSPENDED"} ELSE {"RUNNABLE"}
      /\ c.p_wobjcb = NULL /\ ~c.tmevtb /\ ~c.raster /\ ~c.transient /\ c.priority = p
  BY <1>1 DEF EndedTcb, TCB
<1>3. c \in TCB
  BY DEF EndedTcb, TCB
<1>. HIDE DEF c
<1>4. TcbOk(c)
  BY <1>2 DEF TcbOk
<1>5. QED
  BY <1>2, <1>3, <1>4 DEF c

\* mutex_release: a task leaves the queue, whatever its control block becomes.
LEMMA ReleasesWaiter ==
    ASSUME WaitAssumption, NEW k, WaitOk(k), NEW m \in WaitQueue, NEW i \in 1 .. Len(k.wait[m]),
           NEW t, t = k.wait[m][i], NEW c \in TCB, TcbOk(c), c.p_wobjcb = NULL,
           NEW d \in Seq(Tsk), Removed(k.wait[m], i, d), NEW k1, k1 = SetWait(k, m, d),
           NEW k2, k2 = SetTcb(k1, t, c)
    PROVE  /\ WaitOk(k2) /\ TcbOnly(k, k2, t, c) /\ k2.wait[m] = d
           /\ \A w \in WaitQueue : w # m => k2.wait[w] = k.wait[w]
<1>1. k \in KerType /\ QueueOk(k, m) /\ k.wait[m] \in Seq(Tsk)
  BY KerFields DEF WaitOk
<1>2. t \in Tsk
  BY <1>1, LenProperties
<1>3. /\ k1 \in KerType /\ k1.tcb = k.tcb /\ k1.tpri = k.tpri /\ k1.wait[m] = d
      /\ \A w \in WaitQueue : w # m => k1.wait[w] = k.wait[w]
  BY <1>1, QueueSet
<1>4. k2 \in KerType /\ k2.tcb[t] = c /\ OthersKept(k1, k2, t) /\ k2.wait = k1.wait /\ k2.tpri = k1.tpri
  BY <1>2, <1>3, TcbSet
<1>5. OthersKept(k, k2, t)
  BY <1>3, <1>4 DEF OthersKept
<1>6. Leaves(k, k2, t, m)
  BY <1>3, <1>4, <1>5 DEF Leaves
<1>7. WaitOk(k2)
  BY <1>2, <1>4, <1>6, LeaveStep
<1>8. QED
  BY <1>3, <1>4, <1>5, <1>7 DEF TcbOnly

\* The first task of a queue waits for its mutex.
LEMMA FirstWaits ==
    ASSUME WaitAssumption, NEW k, WaitOk(k), NEW m \in WaitQueue, k.wait[m] # << >>,
           NEW t, t = Head(k.wait[m])
    PROVE  /\ t \in Tsk /\ k.tcb[t].p_wobjcb = m /\ k.tcb[t] \in TCB
           /\ "WAITING" \in k.tcb[t].tstat /\ TcbOk(k.tcb[t])
           /\ 1 \in 1 .. Len(k.wait[m]) /\ k.wait[m][1] = t
           /\ Tail(k.wait[m]) \in Seq(Tsk) /\ Removed(k.wait[m], 1, Tail(k.wait[m]))
<1>1. k \in KerType /\ QueueOk(k, m) /\ k.wait[m] \in Seq(Tsk)
  BY KerFields DEF WaitOk
<1>2. /\ 1 \in 1 .. Len(k.wait[m]) /\ k.wait[m][1] = t /\ t \in Tsk
      /\ Tail(k.wait[m]) \in Seq(Tsk) /\ Removed(k.wait[m], 1, Tail(k.wait[m]))
  BY <1>1, TailRemoves
<1>3. t \in Range(k.wait[m])
  BY <1>1, <1>2, LenProperties DEF Range
<1>4. k.tcb[t].p_wobjcb = m /\ TcbOk(k.tcb[t]) /\ k.tcb[t] \in TCB /\ m # NULL
  BY <1>1, <1>2, <1>3, KerFields DEF QueueOk, WaitOk, WaitAssumption
<1>5. "WAITING" \in k.tcb[t].tstat
  BY <1>4 DEF TcbOk
<1>6. QED
  BY <1>2, <1>4, <1>5

\* init_wait_queue: the control blocks of the tasks that waited.
LEMMA InitedTcb ==
    ASSUME WaitAssumption, NEW k, WaitOk(k), NEW w \in WaitQueue,
           NEW k2, k2 = InitWaitQueue(k, w), NEW u \in Tsk
    PROVE  k2.tcb[u] = IF k.tcb[u].p_wobjcb = w THEN EndedTcb(k.tcb[u], "E_DLT") ELSE k.tcb[u]
<1>1. k \in KerType /\ k.tcb \in [Tsk -> TCB] /\ QueueOk(k, w) /\ k.wait[w] \in Seq(Tsk)
  BY KerFields DEF WaitOk
<1>2. DOMAIN k.wait[w] = 1 .. Len(k.wait[w])
  BY <1>1, LenProperties
<1>3. (\E i \in DOMAIN k.wait[w] : k.wait[w][i] = u) <=> u \in Range(k.wait[w])
  BY DEF Range
<1>4. u \in Range(k.wait[w]) <=> k.tcb[u].p_wobjcb = w
  BY <1>1 DEF QueueOk
<1>5. k2.tcb = [t \in Tsk |-> IF \E i \in DOMAIN k.wait[w] : k.wait[w][i] = t
                                THEN EndedTcb(k.tcb[t], "E_DLT") ELSE k.tcb[t]]
  BY <1>1 DEF InitWaitQueue, KerType
<1>6. QED
  BY <1>3, <1>4, <1>5

\* wobj_make_wait: the control block of the task.
LEMMA WaitsTcb ==
    ASSUME WaitAssumption, NEW k, WaitOk(k), NEW t \in Tsk, NEW w \in WaitQueue,
           NEW tmout, NEW k2, k2 = WobjMakeWait(k, w, t, tmout)
    PROVE  /\ TcbOnly(k, k2, t, WaitingTcb(k.tcb[t], w, tmout))
           /\ \A v \in WaitQueue : v # w => k2.wait[v] = k.wait[v]
<1>1. k \in KerType
  BY DEF WaitOk
<1>. DEFINE k1 == MakeWait(k, w, t, tmout)
            q  == WobjQueueInsert(k1, w, t)
<1>2. k2 = [k1 EXCEPT !.wait[w] = q]
  BY DEF WobjMakeWait
<1>3. /\ k1.tcb = [k.tcb EXCEPT ![t] = WaitingTcb(@, w, tmout)] /\ k1.wait = k.wait
      /\ DOMAIN k1 = DOMAIN k
  BY <1>1 DEF MakeWait, KerType
<1>. HIDE DEF k1, q
<1>4. DOMAIN k1 = {"tcb", "wait", "tpri"}
  BY <1>1, <1>3 DEF KerType
<1>5. k2.tcb = k1.tcb /\ \A v \in WaitQueue : v # w => k2.wait[v] = k1.wait[v]
  BY <1>2, <1>4, <1>1, <1>3 DEF KerType
<1>6. QED
  BY <1>3, <1>5, <1>1 DEF TcbOnly, OthersKept, KerType

\* A task that keeps its priority and its mutexes, and does not begin to wait.
Calmer(c, c2) ==
    /\ c2.priority = c.priority /\ (c2.p_wobjcb = c.p_wobjcb \/ c2.p_wobjcb = NULL)
    /\ c2.tstat = {} => c.tstat = {}

\* What the change of the mutexes means for a task that is not concerned.
SameMutexes(cb, cb2, c, u) ==
    \A m \in Mtx :
        /\ cb2[m].p_loctsk = u <=> cb[m].p_loctsk = u
        /\ cb[m].p_loctsk = u \/ c.p_wobjcb = m =>
              cb2[m].mtxatr = cb[m].mtxatr /\ cb2[m].ceilpri = cb[m].ceilpri
        /\ c.p_wobjcb = m => cb2[m].p_loctsk # NULL /\ cb2[m].p_loctsk # u

LEMMA TaskKept ==
    ASSUME WaitAssumption, MtxAssumption, NEW u, NEW c, NEW c2, NEW hu, NEW cb, NEW cb2,
           TaskOk(c, hu, cb, u), Calmer(c, c2), SameMutexes(cb, cb2, c2, u)
    PROVE  TaskOk(c2, hu, cb2, u)
<1>1. NULL \notin Mtx
  BY DEF WaitAssumption, MtxAssumption
<1>2. \A m \in Mtx : HoldsCeiling(cb2, u, m) <=> HoldsCeiling(cb, u, m)
  BY DEF SameMutexes, HoldsCeiling
<1>3. \A m \in Mtx : HoldsCeiling(cb, u, m) => cb2[m].ceilpri = cb[m].ceilpri
  BY DEF SameMutexes, HoldsCeiling
<1>4. ListOk(hu, cb2, u)
  BY DEF TaskOk, ListOk, SameMutexes
<1>5. PriorityOk(c2, hu, cb2, u)
  BY <1>2, <1>3 DEF TaskOk, PriorityOk, Calmer
<1>6. CeilingOk(c2, hu, cb2, u)
  <2>. SUFFICES ASSUME NEW m \in Mtx, cb2[m].mtxatr = "TA_CEILING",
                       cb2[m].p_loctsk = u \/ c2.p_wobjcb = m
                PROVE  hu.bpriority >= cb2[m].ceilpri
    BY DEF CeilingOk
  <2>1. cb[m].p_loctsk = u \/ c.p_wobjcb = m
    BY <1>1 DEF SameMutexes, Calmer
  <2>2. cb2[m].mtxatr = cb[m].mtxatr /\ cb2[m].ceilpri = cb[m].ceilpri
    BY DEF SameMutexes
  <2>3. QED
    BY <2>1, <2>2 DEF TaskOk, CeilingOk
<1>7. AwaitsOk(c2, cb2, u)
  BY DEF AwaitsOk, SameMutexes
<1>8. DormantOk(c2, hu, u)
  BY DEF TaskOk, DormantOk, Calmer
<1>9. QED
  BY <1>4, <1>5, <1>6, <1>7, <1>8 DEF TaskOk

\* A task that has ended, or not yet begun.
LEMMA DormantTask ==
    ASSUME WaitAssumption, MtxAssumption, NEW u \in Tsk, NEW c, NEW cb,
           c.priority = ipriority[u], c.p_wobjcb = NULL,
           \A m \in Mtx : cb[m].p_loctsk # u
    PROVE  TaskOk(c, NoMutex(u), cb, u)
<1>1. NULL \notin Mtx /\ ipriority[u] \in Nat
  BY DEF WaitAssumption, MtxAssumption, Pri
<1>2. ListOk(NoMutex(u), cb, u)
  <2>1. DOMAIN NoMutex(u).lastmtx = {} /\ Range(NoMutex(u).lastmtx) = {}
    BY DEF NoMutex, Range
  <2>2. IsInjective(NoMutex(u).lastmtx)
    BY <2>1 DEF IsInjective
  <2>3. QED
    BY <2>1, <2>2 DEF ListOk
<1>3. \A m \in Mtx : ~HoldsCeiling(cb, u, m)
  BY DEF HoldsCeiling
<1>4. PriorityOk(c, NoMutex(u), cb, u)
  BY <1>1, <1>3 DEF PriorityOk, NoMutex
<1>5. CeilingOk(c, NoMutex(u), cb, u) /\ AwaitsOk(c, cb, u) /\ DormantOk(c, NoMutex(u), u)
  BY <1>1 DEF CeilingOk, AwaitsOk, DormantOk
<1>6. QED
  BY <1>2, <1>4, <1>5 DEF TaskOk

\* wait_dequeue_wobj changes no control block.
LEMMA DequeueTcb ==
    ASSUME NEW k \in KerType, NEW t
    PROVE  /\ WaitDequeueWobj(k, t).tcb = k.tcb
           /\ DOMAIN WaitDequeueWobj(k, t) = DOMAIN k
BY DEF WaitDequeueWobj, KerType

LEMMA EndTcb ==
    ASSUME NEW k, NEW k1, k1.tcb = k.tcb, DOMAIN k1 = DOMAIN k, k \in KerType, NEW t \in Tsk,
           NEW ercd, NEW k2, k2 = EndWait(k1, t, ercd)
    PROVE  k2.tcb = [k.tcb EXCEPT ![t] = EndedTcb(@, ercd)] /\ DOMAIN k2 = DOMAIN k
<1>1. DOMAIN k1 = {"tcb", "wait", "tpri"}
  BY DEF KerType
<1>2. QED
  BY <1>1 DEF EndWait

LEMMA EndCalmer ==
    ASSUME NEW c \in TCB, NEW ercd
    PROVE  Calmer(c, EndedTcb(c, ercd))
BY DEF Calmer, EndedTcb, TCB

\* The calls on tasks that are not special for mutexes.
LEMMA CallCalmer ==
    ASSUME WaitOk(ker), NEW t \in Tsk, TaskCall(t), NEW u \in Tsk
    PROVE  Calmer(ker.tcb[u], ker'.tcb[u])
<1>1. ker \in KerType /\ ker.tcb \in [Tsk -> TCB] /\ ker.tcb[u] \in TCB /\ DOMAIN ker = {"tcb", "wait", "tpri"}
  BY KerFields DEF WaitOk, KerType
<1>. DEFINE W == WaitDequeueWobj(ker, t)
<1>2. W.tcb = ker.tcb /\ DOMAIN W = DOMAIN ker
  BY <1>1, DequeueTcb
<1>. HIDE DEF W
<1>3. CASE act_tsk(t)
  BY <1>1, <1>3 DEF act_tsk, Calmer, TCB, Dormant, tcb
<1>4. ASSUME NEW ercd, ker' = EndWait(W, t, ercd)
      PROVE  Calmer(ker.tcb[u], ker'.tcb[u])
  <2>1. ker'.tcb = [ker.tcb EXCEPT ![t] = EndedTcb(@, ercd)]
    BY <1>1, <1>2, <1>4, EndTcb
  <2>2. ker'.tcb[u] = IF u = t THEN EndedTcb(ker.tcb[u], ercd) ELSE ker.tcb[u]
    BY <1>1, <2>1
  <2>3. QED
    BY <1>1, <2>2, EndCalmer DEF Calmer
<1>5. CASE ras_ter(t)
  <2>. DEFINE k == IF Waiting(t) THEN EndWait(WaitDequeueWobj(ker, t), t, "E_RASTER") ELSE ker
  <2>1. DOMAIN k = DOMAIN ker /\ k.tcb = IF Waiting(t) THEN [ker.tcb EXCEPT ![t] = EndedTcb(@, "E_RASTER")]
                                         ELSE ker.tcb
    <3>1. CASE Waiting(t)
      <4>1. k = EndWait(W, t, "E_RASTER")
        BY <3>1 DEF W
      <4>. HIDE DEF k
      <4>2. QED
        BY <1>1, <1>2, <3>1, <4>1, EndTcb
    <3>2. CASE ~Waiting(t)
      BY <3>2
    <3>3. QED
      BY <3>1, <3>2
  <2>2. ker' = [k EXCEPT !.tcb[t] = [@ EXCEPT !.raster = TRUE, !.tstat = {"RUNNABLE"},
                                              !.transient = FALSE]]
    BY <1>5 DEF ras_ter
  <2>. HIDE DEF k
  <2>3. k.tcb[u] = IF u = t /\ Waiting(t) THEN EndedTcb(ker.tcb[u], "E_RASTER") ELSE ker.tcb[u]
    BY <1>1, <2>1
  <2>4. Calmer(ker.tcb[u], k.tcb[u]) /\ DOMAIN k.tcb = Tsk
    BY <1>1, <2>1, <2>3, EndCalmer DEF Calmer
  <2>5. ker'.tcb[u] = IF u = t THEN [k.tcb[u] EXCEPT !.raster = TRUE, !.tstat = {"RUNNABLE"},
                                                     !.transient = FALSE] ELSE k.tcb[u]
    BY <1>1, <2>1, <2>2, <2>4
  <2>6. /\ ker'.tcb[u].priority = k.tcb[u].priority /\ ker'.tcb[u].p_wobjcb = k.tcb[u].p_wobjcb
        /\ ker'.tcb[u].tstat = {} => k.tcb[u].tstat = {}
    <3>1. DOMAIN k.tcb[u] = DOMAIN ker.tcb[u]
      BY <2>3, <1>1 DEF EndedTcb, TCB
    <3>2. DOMAIN k.tcb[u] = {"tstat", "priority", "p_wobjcb", "tmevtb", "wercd", "raster", "transient"}
      BY <3>1, <1>1 DEF TCB
    <3>3. CASE u = t
      BY <3>2, <3>3, <2>5
    <3>4. CASE u # t
      BY <3>4, <2>5
    <3>5. QED
      BY <3>3, <3>4
  <2>7. QED
    BY <2>4, <2>6 DEF Calmer
<1>6. CASE rel_wai(t)
  BY <1>4, <1>6 DEF rel_wai, W
<1>7. CASE sus_tsk(t)
  <2>1. PICK e \in {FALSE, Runnable(t)} :
          ker' = [ker EXCEPT !.tcb[t] = [@ EXCEPT !.tstat = (tcb[t].tstat \ {"RUNNABLE"}) \cup {"SUSPENDED"},
                                                  !.transient = e]]
    BY <1>7 DEF sus_tsk
  <2>2. QED
    BY <1>1, <2>1 DEF Calmer, TCB
<1>8. CASE Dispatch(t)
  BY <1>1, <1>8 DEF Dispatch, Calmer, TCB
<1>9. CASE rsm_tsk(t)
  BY <1>1, <1>9 DEF rsm_tsk, Calmer, TCB
<1>10. CASE wait_tmout(t)
  BY <1>4, <1>10 DEF wait_tmout, W
<1>11. QED
  BY <1>3, <1>5, <1>6, <1>7, <1>8, <1>9, <1>10 DEF TaskCall

LEMMA FirstFacts ==
    ASSUME NEW S, NEW q \in Seq(S), IsInjective(q), NEW t \in S, t \notin Range(q)
    PROVE  /\ <<t>> \o q \in Seq(S) /\ IsInjective(<<t>> \o q)
           /\ Range(<<t>> \o q) = Range(q) \cup {t}
<1>1. \A s : ToSet(s) = Range(s)
  BY DEF ToSet, Range
<1>2. QueueInsertNext(q, t) = <<t>> \o q
  BY DEF QueueInsertNext
<1>3. t \notin ToSet(q)
  BY <1>1
<1>4. /\ QueueInsertNext(q, t) \in Seq(S) /\ IsInjective(QueueInsertNext(q, t))
      /\ ToSet(QueueInsertNext(q, t)) = ToSet(q) \cup {t}
  BY <1>3, PrependFacts
<1>. HIDE DEF QueueInsertNext
<1>5. QED
  BY <1>1, <1>2, <1>4, Zenon

LEMMA PrioritiesNat ==
    ASSUME WaitAssumption, NEW c \in TCB, NEW hu \in HELD, NEW cb \in [Mtx -> MTXCB]
    PROVE  /\ c.priority \in Nat /\ hu.bpriority \in Nat
           /\ \A m \in Mtx : cb[m].ceilpri \in Nat
<1>1. Pri \subseteq Nat
  BY DEF WaitAssumption, Pri
<1>2. c.priority \in Pri /\ hu.bpriority \in Pri /\ \A m \in Mtx : cb[m].ceilpri \in Pri
  BY DEF TCB, HELD, MTXCB
<1>3. QED
  BY <1>1, <1>2

\* The other mutexes do not change for a task.
OtherMutexes(cb, cb2, m, u) ==
    \A n \in Mtx : n # m =>
        /\ cb2[n].p_loctsk = u <=> cb[n].p_loctsk = u
        /\ cb[n].p_loctsk = u => cb2[n].mtxatr = cb[n].mtxatr /\ cb2[n].ceilpri = cb[n].ceilpri

\* The list of mutexes with one more.
Pushed(hu, m) == <<m>> \o hu.lastmtx

\* The priority of a task that gets the mutex with the control block b.
AsHolder(pri, b) == IF b.mtxatr = "TA_CEILING" /\ b.ceilpri < pri THEN b.ceilpri ELSE pri

\* A task gets the mutex m, for which it waited or not.
Acquires(c, c2, hu, hu2, cb, cb2, m, u) ==
    /\ cb[m].p_loctsk # u /\ OtherMutexes(cb, cb2, m, u)
    /\ cb2[m].p_loctsk = u /\ cb2[m].mtxatr = cb[m].mtxatr /\ cb2[m].ceilpri = cb[m].ceilpri
    /\ cb[m].mtxatr = "TA_CEILING" => hu.bpriority >= cb[m].ceilpri
    /\ c2.p_wobjcb = NULL /\ c2.tstat # {}
    /\ c2.priority = AsHolder(c.priority, cb[m])
    /\ hu2.bpriority = hu.bpriority /\ hu2.lastmtx = Pushed(hu, m)
    /\ hu2.boosted <=> hu.boosted \/ cb[m].mtxatr = "TA_CEILING"

LEMMA TaskGets ==
    ASSUME WaitAssumption, MtxAssumption, NEW u \in Tsk, NEW m \in Mtx,
           NEW c \in TCB, NEW c2, NEW hu \in HELD, NEW hu2, NEW cb \in [Mtx -> MTXCB], NEW cb2,
           TaskOk(c, hu, cb, u), Acquires(c, c2, hu, hu2, cb, cb2, m, u)
    PROVE  TaskOk(c2, hu2, cb2, u)
<1>. DEFINE ceiling == cb[m].mtxatr = "TA_CEILING"
<1>. USE DEF AsHolder, Pushed, Acquires
<1>1. NULL \notin Mtx
  BY DEF WaitAssumption, MtxAssumption
<1>2. /\ c.priority \in Nat /\ hu.bpriority \in Nat /\ \A n \in Mtx : cb[n].ceilpri \in Nat
  BY PrioritiesNat
<1>3. /\ ListOk(hu, cb, u) /\ PriorityOk(c, hu, cb, u) /\ CeilingOk(c, hu, cb, u)
  BY DEF TaskOk
<1>4. \A n \in Mtx : HoldsCeiling(cb2, u, n) <=> HoldsCeiling(cb, u, n) \/ (n = m /\ ceiling)
  BY DEF OtherMutexes, HoldsCeiling
<1>5. \A n \in Mtx : HoldsCeiling(cb, u, n) \/ n = m => cb2[n].ceilpri = cb[n].ceilpri
  BY DEF OtherMutexes, HoldsCeiling
<1>6. ListOk(hu2, cb2, u)
  <2>1. hu.lastmtx \in Seq(Mtx) /\ IsInjective(hu.lastmtx) /\ m \notin Range(hu.lastmtx)
    BY <1>3 DEF HELD, ListOk
  <2>2. IsInjective(hu2.lastmtx) /\ Range(hu2.lastmtx) = Range(hu.lastmtx) \cup {m}
    BY <2>1, FirstFacts
  <2>3. \A n \in Mtx : n \in Range(hu.lastmtx) <=> cb[n].p_loctsk = u
    BY <1>3 DEF ListOk
  <2>4. QED
    BY <2>2, <2>3 DEF ListOk, OtherMutexes
<1>7. PriorityOk(c2, hu2, cb2, u)
  <2>1. c2.priority <= hu2.bpriority
    BY <1>2, <1>3 DEF PriorityOk
  <2>2. \A n \in Mtx : HoldsCeiling(cb2, u, n) => c2.priority <= cb2[n].ceilpri
    BY <1>2, <1>3, <1>4, <1>5 DEF PriorityOk
  <2>3. c2.priority = hu2.bpriority \/
           \E n \in Mtx : HoldsCeiling(cb2, u, n) /\ c2.priority = cb2[n].ceilpri
    BY <1>3, <1>4, <1>5 DEF PriorityOk
  <2>4. hu2.boosted <=> \E n \in Mtx : HoldsCeiling(cb2, u, n)
    BY <1>3, <1>4 DEF PriorityOk
  <2>5. QED
    BY <2>1, <2>2, <2>3, <2>4 DEF PriorityOk
<1>8. CeilingOk(c2, hu2, cb2, u)
  <2>. SUFFICES ASSUME NEW n \in Mtx, cb2[n].mtxatr = "TA_CEILING", cb2[n].p_loctsk = u
                PROVE  hu2.bpriority >= cb2[n].ceilpri
    BY <1>1 DEF CeilingOk
  <2>1. CASE n = m
    BY <2>1
  <2>2. CASE n # m
    BY <2>2, <1>3 DEF CeilingOk, OtherMutexes
  <2>3. QED
    BY <2>1, <2>2
<1>9. AwaitsOk(c2, cb2, u) /\ DormantOk(c2, hu2, u)
  BY <1>1 DEF AwaitsOk, DormantOk
<1>10. QED
  BY <1>6, <1>7, <1>8, <1>9 DEF TaskOk

\* A priority is the highest of the base priority and the ceilings of L.
Highest(p, base, cb, L) ==
    /\ p <= base /\ \A n \in L : p <= cb[n].ceilpri
    /\ p = base \/ \E n \in L : p = cb[n].ceilpri

\* A task loses the mutex m.
OtherCeilings(cb, m, u) == {n \in Mtx : n # m /\ HoldsCeiling(cb, u, n)}

Loses(c, c2, hu, hu2, cb, cb2, m, u) ==
    /\ cb[m].p_loctsk = u /\ cb2[m].p_loctsk # u /\ OtherMutexes(cb, cb2, m, u)
    /\ c2.tstat = c.tstat /\ c2.p_wobjcb = c.p_wobjcb
    /\ \A n \in Mtx : c.p_wobjcb = n =>
          /\ cb2[n].p_loctsk # NULL /\ cb2[n].p_loctsk # u
          /\ cb2[n].mtxatr = cb[n].mtxatr /\ cb2[n].ceilpri = cb[n].ceilpri
    /\ hu2.bpriority = hu.bpriority
    /\ IsInjective(hu2.lastmtx) /\ Range(hu2.lastmtx) = Range(hu.lastmtx) \ {m}
    /\ cb[m].mtxatr = "TA_CEILING" /\ cb[m].ceilpri = c.priority =>
          /\ Highest(c2.priority, hu.bpriority, cb, OtherCeilings(cb, m, u))
          /\ hu2.boosted <=> OtherCeilings(cb, m, u) # {}
    /\ ~(cb[m].mtxatr = "TA_CEILING" /\ cb[m].ceilpri = c.priority) =>
          c2.priority = c.priority /\ (hu2.boosted <=> hu.boosted)

LEMMA TaskDrops ==
    ASSUME WaitAssumption, MtxAssumption, NEW u \in Tsk, NEW m \in Mtx,
           NEW c \in TCB, NEW c2, NEW hu \in HELD, NEW hu2, NEW cb \in [Mtx -> MTXCB], NEW cb2,
           TaskOk(c, hu, cb, u), Loses(c, c2, hu, hu2, cb, cb2, m, u)
    PROVE  TaskOk(c2, hu2, cb2, u)
<1>. DEFINE L == OtherCeilings(cb, m, u)
<1>. USE DEF Loses, OtherCeilings
<1>. DEFINE recalc == cb[m].mtxatr = "TA_CEILING" /\ cb[m].ceilpri = c.priority
<1>1. NULL \notin Mtx
  BY DEF WaitAssumption, MtxAssumption
<1>2. /\ c.priority \in Nat /\ hu.bpriority \in Nat /\ \A n \in Mtx : cb[n].ceilpri \in Nat
  BY PrioritiesNat
<1>3. /\ ListOk(hu, cb, u) /\ PriorityOk(c, hu, cb, u) /\ CeilingOk(c, hu, cb, u)
      /\ DormantOk(c, hu, u)
  BY DEF TaskOk
<1>4. \A n \in Mtx : HoldsCeiling(cb2, u, n) <=> n \in L
  BY DEF OtherMutexes, HoldsCeiling
<1>5. \A n \in L : n \in Mtx /\ HoldsCeiling(cb, u, n) /\ cb2[n].ceilpri = cb[n].ceilpri
  BY DEF OtherMutexes, HoldsCeiling
<1>6. ListOk(hu2, cb2, u)
  BY <1>3 DEF ListOk, OtherMutexes
<1>7. PriorityOk(c2, hu2, cb2, u)
  <2>1. CASE recalc
    BY <2>1, <1>4, <1>5 DEF PriorityOk, Highest
  <2>2. CASE ~recalc
    <3>1. c2.priority <= hu2.bpriority /\ \A n \in L : c2.priority <= cb2[n].ceilpri
      BY <2>2, <1>3, <1>5 DEF PriorityOk
    <3>2. c2.priority = hu2.bpriority \/ \E n \in L : c2.priority = cb2[n].ceilpri
      <4>1. CASE c.priority = hu.bpriority
        BY <4>1, <2>2
      <4>2. CASE c.priority # hu.bpriority
        <5>1. PICK n \in Mtx : HoldsCeiling(cb, u, n) /\ c.priority = cb[n].ceilpri
          BY <4>2, <1>3 DEF PriorityOk
        <5>2. n # m
          <6>1. cb[n].mtxatr = "TA_CEILING" /\ cb[n].ceilpri = c.priority
            BY <5>1 DEF HoldsCeiling
          <6>2. QED
            BY <6>1, <2>2
        <5>3. QED
          BY <5>1, <5>2, <1>5, <2>2
      <4>3. QED
        BY <4>1, <4>2
    <3>3. hu.boosted <=> L # {}
      <4>1. CASE cb[m].mtxatr # "TA_CEILING"
        <5>1. \A n \in Mtx : HoldsCeiling(cb, u, n) <=> n \in L
          BY <4>1 DEF HoldsCeiling
        <5>2. QED
          BY <5>1, <1>3 DEF PriorityOk
      <4>2. CASE cb[m].mtxatr = "TA_CEILING"
        <5>1. HoldsCeiling(cb, u, m) /\ c.priority # cb[m].ceilpri
          BY <4>2, <2>2 DEF HoldsCeiling
        <5>2. c.priority < cb[m].ceilpri /\ hu.bpriority >= cb[m].ceilpri
          BY <5>1, <4>2, <1>2, <1>3 DEF PriorityOk, CeilingOk
        <5>3. c.priority # hu.bpriority
          BY <5>2, <1>2
        <5>4. PICK n \in Mtx : HoldsCeiling(cb, u, n) /\ c.priority = cb[n].ceilpri
          BY <5>3, <1>3 DEF PriorityOk
        <5>5. n \in L
          BY <5>1, <5>4
        <5>6. hu.boosted
          BY <5>1, <1>3 DEF PriorityOk
        <5>7. QED
          BY <5>5, <5>6
      <4>3. QED
        BY <4>1, <4>2
    <3>4. hu2.boosted <=> L # {}
      BY <2>2, <3>3
    <3>5. QED
      BY <3>1, <3>2, <3>4, <1>4, <1>5 DEF PriorityOk
  <2>3. QED
    BY <2>1, <2>2
<1>8. CeilingOk(c2, hu2, cb2, u)
  <2>. SUFFICES ASSUME NEW n \in Mtx, cb2[n].mtxatr = "TA_CEILING",
                       cb2[n].p_loctsk = u \/ c2.p_wobjcb = n
                PROVE  hu2.bpriority >= cb2[n].ceilpri
    BY DEF CeilingOk
  <2>1. /\ cb[n].p_loctsk = u \/ c.p_wobjcb = n
        /\ cb2[n].mtxatr = cb[n].mtxatr /\ cb2[n].ceilpri = cb[n].ceilpri
    BY DEF OtherMutexes
  <2>2. QED
    BY <2>1, <1>3 DEF CeilingOk
<1>9. AwaitsOk(c2, cb2, u)
  BY DEF AwaitsOk
<1>10. DormantOk(c2, hu2, u)
  <2>1. c.tstat # {}
    <3>1. m \in Range(hu.lastmtx)
      BY <1>3 DEF ListOk
    <3>2. Range(NoMutex(u).lastmtx) = {}
      BY DEF NoMutex, Range
    <3>3. QED
      BY <3>1, <3>2, <1>3 DEF DormantOk
  <2>2. QED
    BY <2>1 DEF DormantOk
<1>11. QED
  BY <1>6, <1>7, <1>8, <1>9, <1>10 DEF TaskOk

\* The base priority of a task changes.
LEMMA TaskRebased ==
    ASSUME WaitAssumption, MtxAssumption, NEW u \in Tsk, NEW p \in Pri,
           NEW c \in TCB, NEW c2, NEW hu \in HELD, NEW hu2, NEW cb \in [Mtx -> MTXCB],
           TaskOk(c, hu, cb, u), c.tstat # {}, c2.tstat = c.tstat, c2.p_wobjcb = c.p_wobjcb,
           c2.priority = IF hu.boosted THEN c.priority ELSE p,
           hu2.bpriority = p, hu2.lastmtx = hu.lastmtx, hu2.boosted = hu.boosted,
           hu.boosted \/ c.p_wobjcb # NULL =>
              \A m \in Mtx : cb[m].mtxatr = "TA_CEILING" /\ (cb[m].p_loctsk = u \/ c.p_wobjcb = m) =>
                 p >= cb[m].ceilpri
    PROVE  TaskOk(c2, hu2, cb, u)
<1>1. NULL \notin Mtx /\ p \in Nat
  BY DEF WaitAssumption, MtxAssumption, Pri
<1>2. /\ c.priority \in Nat /\ hu.bpriority \in Nat /\ \A n \in Mtx : cb[n].ceilpri \in Nat
  BY PrioritiesNat
<1>3. /\ ListOk(hu, cb, u) /\ PriorityOk(c, hu, cb, u) /\ CeilingOk(c, hu, cb, u)
      /\ AwaitsOk(c, cb, u)
  BY DEF TaskOk
<1>4. hu.boosted <=> \E n \in Mtx : HoldsCeiling(cb, u, n)
  BY <1>3 DEF PriorityOk
<1>5. CeilingOk(c2, hu2, cb, u)
  BY <1>1, <1>4 DEF CeilingOk, HoldsCeiling
<1>6. PriorityOk(c2, hu2, cb, u)
  <2>1. CASE ~hu.boosted
    BY <2>1, <1>1, <1>4 DEF PriorityOk
  <2>2. CASE hu.boosted
    <3>1. \A n \in Mtx : HoldsCeiling(cb, u, n) => p >= cb[n].ceilpri /\ hu.bpriority >= cb[n].ceilpri
      BY <2>2, <1>3 DEF HoldsCeiling, CeilingOk
    <3>2. \E n \in Mtx : HoldsCeiling(cb, u, n) /\ c.priority = cb[n].ceilpri
      <4>1. CASE c.priority # hu.bpriority
        BY <4>1, <1>3 DEF PriorityOk
      <4>2. CASE c.priority = hu.bpriority
        <5>1. PICK n \in Mtx : HoldsCeiling(cb, u, n)
          BY <2>2, <1>4
        <5>2. c.priority <= cb[n].ceilpri
          BY <5>1, <1>3 DEF PriorityOk
        <5>3. QED
          BY <5>1, <5>2, <3>1, <4>2, <1>2
      <4>3. QED
        BY <4>1, <4>2
    <3>3. c2.priority <= p
      BY <2>2, <3>1, <3>2, <1>1, <1>2
    <3>4. QED
      BY <2>2, <3>2, <3>3, <1>3, <1>4 DEF PriorityOk
  <2>3. QED
    BY <2>1, <2>2
<1>7. ListOk(hu2, cb, u) /\ AwaitsOk(c2, cb, u) /\ DormantOk(c2, hu2, u)
  BY <1>3 DEF ListOk, AwaitsOk, DormantOk
<1>8. QED
  BY <1>5, <1>6, <1>7 DEF TaskOk

\* A task begins to wait for the mutex m.
LEMMA TaskAwaits ==
    ASSUME WaitAssumption, MtxAssumption, NEW u \in Tsk, NEW m \in Mtx,
           NEW c, NEW c2, NEW hu, NEW cb, TaskOk(c, hu, cb, u), c2.tstat # {},
           c2.p_wobjcb = m, c2.priority = c.priority,
           cb[m].p_loctsk # NULL, cb[m].p_loctsk # u,
           cb[m].mtxatr = "TA_CEILING" => hu.bpriority >= cb[m].ceilpri
    PROVE  TaskOk(c2, hu, cb, u)
<1>1. /\ ListOk(hu, cb, u) /\ PriorityOk(c, hu, cb, u) /\ CeilingOk(c, hu, cb, u)
  BY DEF TaskOk
<1>2. PriorityOk(c2, hu, cb, u)
  BY <1>1 DEF PriorityOk
<1>3. CeilingOk(c2, hu, cb, u) /\ AwaitsOk(c2, cb, u) /\ DormantOk(c2, hu, u)
  BY <1>1 DEF CeilingOk, AwaitsOk, DormantOk
<1>4. QED
  BY <1>1, <1>2, <1>3 DEF TaskOk

\* A change of the priority of a task.
PriorityOnly(k, k2, t, p) ==
    /\ WaitOk(k2) /\ OthersKept(k, k2, t)
    /\ \A w \in WaitQueue : w # k.tcb[t].p_wobjcb => k2.wait[w] = k.wait[w]
    /\ k2.tcb[t].priority = p /\ k2.tcb[t].tstat = k.tcb[t].tstat
    /\ k2.tcb[t].p_wobjcb = k.tcb[t].p_wobjcb

LEMMA PriorityChanged ==
    ASSUME WaitAssumption, NEW k, WaitOk(k), NEW t \in Tsk, NEW p \in Pri,
           NEW k2, k2 = change_priority(k, t, p) \/ (p = k.tcb[t].priority /\ k2 = k)
    PROVE  PriorityOnly(k, k2, t, p)
<1>1. k.tcb[t] \in TCB
  BY KerFields DEF WaitOk
<1>2. CASE k2 = change_priority(k, t, p)
  <2>. DEFINE c == [k.tcb[t] EXCEPT !.priority = p]
  <2>1. c.priority = p /\ c.tstat = k.tcb[t].tstat /\ c.p_wobjcb = k.tcb[t].p_wobjcb
    BY <1>1 DEF TCB
  <2>2. /\ WaitOk(k2) /\ TcbOnly(k, k2, t, c)
        /\ \A w \in WaitQueue : w # k.tcb[t].p_wobjcb => k2.wait[w] = k.wait[w]
    BY <1>2, ChangesPriority
  <2>. HIDE DEF c
  <2>3. QED
    BY <2>1, <2>2 DEF PriorityOnly, TcbOnly
<1>3. CASE p = k.tcb[t].priority /\ k2 = k
  BY <1>3 DEF PriorityOnly, OthersKept
<1>4. QED
  BY <1>2, <1>3

\* mutex_raise_priority
LEMMA Raises ==
    ASSUME WaitAssumption, NEW st, WaitOk(st.k), NEW t \in Tsk, NEW newpri \in Pri,
           NEW st2, st2 = mutex_raise_priority(st, t, newpri)
    PROVE  /\ newpri < st.k.tcb[t].priority => PriorityOnly(st.k, st2.k, t, newpri)
           /\ ~(newpri < st.k.tcb[t].priority) =>
                 PriorityOnly(st.k, st2.k, t, st.k.tcb[t].priority)
           /\ newpri <= st.k.tcb[t].priority => st2.h = [st.h EXCEPT ![t].boosted = TRUE]
           /\ ~(newpri <= st.k.tcb[t].priority) => st2.h = st.h
<1>1. /\ st.k.tcb[t] \in TCB /\ st.k.tcb[t].priority \in Pri /\ st.k.tcb[t].priority \in Nat
      /\ newpri \in Nat
  BY KerFields DEF WaitOk, TCB, WaitAssumption, Pri
<1>2. /\ newpri < st.k.tcb[t].priority => st2.k = change_priority(st.k, t, newpri)
      /\ ~(newpri < st.k.tcb[t].priority) => st2.k = st.k
      /\ newpri <= st.k.tcb[t].priority => st2.h = [st.h EXCEPT ![t].boosted = TRUE]
      /\ ~(newpri <= st.k.tcb[t].priority) => st2.h = st.h
  BY <1>1 DEF mutex_raise_priority
<1>3. newpri < st.k.tcb[t].priority => PriorityOnly(st.k, st2.k, t, newpri)
  BY <1>2, PriorityChanged
<1>4. ~(newpri < st.k.tcb[t].priority) => PriorityOnly(st.k, st2.k, t, st.k.tcb[t].priority)
  BY <1>1, <1>2, PriorityChanged
<1>5. QED
  BY <1>2, <1>3, <1>4

\* mutex_calc_priority
HeldCeilings(h, t) == {m \in Range(h[t].lastmtx) : MTX_CEILING(m)}

LEMMA CalcFacts ==
    ASSUME WaitAssumption, NEW h \in [Tsk -> HELD], mtxcb \in [Mtx -> MTXCB], NEW t \in Tsk,
           NEW p, p = CalcPriority(h, t)
    PROVE  /\ p \in Pri /\ Highest(p, h[t].bpriority, mtxcb, HeldCeilings(h, t))
           /\ Ceilings(h, t) # {} <=> HeldCeilings(h, t) # {}
<1>. DEFINE S == {h[t].bpriority} \cup Ceilings(h, t)
<1>1. h[t].bpriority \in Pri /\ h[t].lastmtx \in Seq(Mtx) /\ Pri \subseteq Nat
  BY DEF HELD, WaitAssumption, Pri
<1>2. Range(h[t].lastmtx) \subseteq Mtx
  BY <1>1, LenProperties DEF Range
<1>3. Ceilings(h, t) = {mtxcb[m].ceilpri : m \in HeldCeilings(h, t)}
  BY DEF Ceilings, HeldCeilings
<1>4. Ceilings(h, t) \subseteq Pri
  BY <1>2, <1>3 DEF HeldCeilings, MTXCB
<1>5. S \in SUBSET Nat /\ S # {} /\ S \subseteq Pri
  BY <1>1, <1>4
<1>. HIDE DEF S
<1>6. \E x \in S : \A y \in S : x <= y
  BY <1>5, Minimum
<1>7. p = CHOOSE x \in S : \A y \in S : x <= y
  BY DEF CalcPriority, Min, S
<1>8. p \in S /\ \A y \in S : p <= y
  BY <1>6, <1>7
<1>9. QED
  BY <1>1, <1>3, <1>5, <1>8 DEF S, Highest

\* mutex_drop_priority
LEMMA Drops ==
    ASSUME WaitAssumption, NEW st, WaitOk(st.k), st.h \in [Tsk -> HELD], NEW t \in Tsk,
           mtxcb \in [Mtx -> MTXCB],
           NEW oldpri, NEW st2, st2 = mutex_drop_priority(st, t, oldpri)
    PROVE  /\ oldpri = st.k.tcb[t].priority =>
                 /\ PriorityOnly(st.k, st2.k, t, CalcPriority(st.h, t))
                 /\ st2.h = [st.h EXCEPT ![t].boosted = HeldCeilings(st.h, t) # {}]
           /\ oldpri # st.k.tcb[t].priority =>
                 PriorityOnly(st.k, st2.k, t, st.k.tcb[t].priority) /\ st2.h = st.h
<1>1. st.k.tcb[t] \in TCB /\ st.k.tcb[t].priority \in Pri
  BY KerFields DEF WaitOk, TCB
<1>2. CASE oldpri = st.k.tcb[t].priority
  <2>. DEFINE p == CalcPriority(st.h, t)
  <2>1. p \in Pri /\ (Ceilings(st.h, t) # {} <=> HeldCeilings(st.h, t) # {})
    BY CalcFacts
  <2>2. /\ st2.k = IF p # st.k.tcb[t].priority THEN change_priority(st.k, t, p) ELSE st.k
        /\ st2.h = [st.h EXCEPT ![t].boosted = Ceilings(st.h, t) # {}]
    BY <1>1, <1>2 DEF mutex_drop_priority
  <2>. HIDE DEF p
  <2>3. PriorityOnly(st.k, st2.k, t, p)
    BY <2>1, <2>2, PriorityChanged
  <2>4. (Ceilings(st.h, t) # {}) = (HeldCeilings(st.h, t) # {})
    BY <2>1
  <2>5. QED
    BY <2>2, <2>3, <2>4, <1>2 DEF p
<1>3. CASE oldpri # st.k.tcb[t].priority
  <2>1. st2 = st
    BY <1>1, <1>3 DEF mutex_drop_priority
  <2>2. PriorityOnly(st.k, st2.k, t, st.k.tcb[t].priority)
    BY <2>1, <1>1, PriorityChanged
  <2>3. QED
    BY <2>1, <2>2, <1>1, <1>3
<1>4. QED
  BY <1>2, <1>3

\* mutex_release_all: the first tasks of several queues leave at once.
First(k, u, R) == k.tcb[u].p_wobjcb \in R /\ Head(k.wait[k.tcb[u].p_wobjcb]) = u

LEMMA ReleasesAll ==
    ASSUME WaitAssumption, NEW k, WaitOk(k), NEW R \in SUBSET WaitQueue,
           \A w \in R : k.wait[w] # << >>, NEW k2 \in KerType, k2.tpri = k.tpri,
           \A w \in WaitQueue : k2.wait[w] = IF w \in R THEN Tail(k.wait[w]) ELSE k.wait[w],
           \A u \in Tsk : IF First(k, u, R) THEN TcbOk(k2.tcb[u]) /\ k2.tcb[u].p_wobjcb = NULL
                                            ELSE k2.tcb[u] = k.tcb[u]
    PROVE  WaitOk(k2)
<1>1. k \in KerType /\ NULL \notin WaitQueue
  BY DEF WaitOk, WaitAssumption
<1>2. ASSUME NEW w \in WaitQueue
      PROVE  QueueOk(k2, w)
  <2>. DEFINE q == k.wait[w]
  <2>1. q \in Seq(Tsk) /\ QueueOk(k, w)
    BY <1>1, KerFields DEF WaitOk
  <2>2. \A u \in Range(q) : u \in Tsk /\ k.tcb[u].p_wobjcb = w
    BY <2>1 DEF QueueOk
  <2>3. CASE w \notin R
    <3>1. \A u \in Tsk : k2.tcb[u].p_wobjcb = w <=> k.tcb[u].p_wobjcb = w
      BY <2>3, <1>1 DEF First
    <3>2. \A u \in Range(q) : PriorityOf(k)[u] = PriorityOf(k2)[u]
      BY <2>2, <2>3 DEF First, PriorityOf
    <3>3. k2.wait[w] = q
      BY <2>3
    <3>4. w \in k2.tpri => Sorted(k2.wait[w], PriorityOf(k2))
      BY <2>1, <3>2, <3>3, SortedKept DEF QueueOk
    <3>5. QED
      BY <2>1, <3>1, <3>3, <3>4 DEF QueueOk
  <2>4. CASE w \in R
    <3>. DEFINE d == Tail(q)
                f == PriorityOf(k)
    <3>1. /\ 1 \in 1 .. Len(q) /\ q[1] = Head(q) /\ d \in Seq(Tsk) /\ Removed(q, 1, d)
          /\ IsInjective(q) /\ (w \in k.tpri => Sorted(q, f))
      BY <2>1, <2>4, TailRemoves DEF QueueOk
    <3>2. k2.wait[w] = d
      BY <2>4
    <3>3. Range(q) = {u \in Tsk : k.tcb[u].p_wobjcb = w}
      BY <2>1 DEF QueueOk
    <3>4. \A u \in Tsk : k.tcb[u].p_wobjcb = w => (First(k, u, R) <=> u = Head(q))
      BY <2>4 DEF First
    <3>. HIDE DEF q, d, f
    <3>5. IsInjective(d) /\ Range(d) = Range(q) \ {Head(q)} /\ (Sorted(q, f) => Sorted(d, f))
      BY <2>1, <3>1, RemoveFacts
    <3>6. \A u \in Tsk : k2.tcb[u].p_wobjcb = w <=> k.tcb[u].p_wobjcb = w /\ u # Head(q)
      BY <3>4, <1>1
    <3>7. Range(d) = {u \in Tsk : k2.tcb[u].p_wobjcb = w}
      BY <3>3, <3>5, <3>6
    <3>8. \A u \in Range(d) : u \in Tsk /\ k2.tcb[u] = k.tcb[u]
      BY <3>3, <3>4, <3>5
    <3>9. \A u \in Range(d) : f[u] = PriorityOf(k2)[u]
      BY <3>8 DEF PriorityOf, f
    <3>10. w \in k2.tpri => Sorted(d, PriorityOf(k2))
      BY <3>1, <3>5, <3>9, SortedKept
    <3>11. QED
      BY <3>2, <3>5, <3>7, <3>10 DEF QueueOk
  <2>5. QED
    BY <2>3, <2>4
<1>3. \A u \in Tsk : TcbOk(k2.tcb[u])
  BY DEF WaitOk
<1>4. QED
  BY <1>2, <1>3 DEF WaitOk

LEMMA MtxFacts ==
    ASSUME WaitAssumption, MtxAssumption, MtxInv
    PROVE  /\ WaitQueue = Mtx /\ NULL \notin Mtx /\ NULL \notin Tsk
           /\ WaitOk(ker) /\ ker \in KerType /\ ker.tcb \in [Tsk -> TCB]
           /\ mtxcb \in [Mtx -> MTXCB] /\ held \in [Tsk -> HELD]
           /\ free_mtxcb \in Seq(DynamicMtx) /\ IsInjective(free_mtxcb)
           /\ \A t \in Tsk : TaskOk(ker.tcb[t], held[t], mtxcb, t)
BY KerFields DEF MtxInv, MtxTypeOK, WaitAssumption, MtxAssumption

\* A mutex for which a task waits is locked by another one.
LEMMA AwaitedLocked ==
    ASSUME WaitAssumption, MtxAssumption, MtxInv, NEW m \in Mtx
    PROVE  /\ ker.wait[m] # << >> => mtxcb[m].p_loctsk # NULL
           /\ \A t \in Tsk : ker.tcb[t].p_wobjcb = m =>
                 mtxcb[m].p_loctsk # NULL /\ mtxcb[m].p_loctsk # t
           /\ mtxcb[m].p_loctsk # NULL => mtxcb[m].p_loctsk \in Tsk /\ Exists(m)
<1>1. \A t \in Tsk : ker.tcb[t].p_wobjcb = m =>
                 mtxcb[m].p_loctsk # NULL /\ mtxcb[m].p_loctsk # t
  BY MtxFacts DEF TaskOk, AwaitsOk
<1>2. CASE ker.wait[m] # << >>
  <2>1. PICK t : t = Head(ker.wait[m])
    OBVIOUS
  <2>2. t \in Tsk /\ ker.tcb[t].p_wobjcb = m
    BY <1>2, <2>1, MtxFacts, FirstWaits
  <2>3. QED
    BY <1>1, <2>2, MtxFacts DEF MtxInv, MTXCB
<1>3. QED
  BY <1>1, <1>2, MtxFacts DEF MtxInv, MTXCB

\* A task that does not get or lose the mutex of which the block changes.
LEMMA OneMutex ==
    ASSUME WaitAssumption, MtxAssumption, NEW u, NEW c, NEW c2, NEW hu,
           NEW cb \in [Mtx -> MTXCB], NEW cb2, NEW m \in Mtx, NEW b, cb2 = [cb EXCEPT ![m] = b],
           TaskOk(c, hu, cb, u), Calmer(c, c2),
           b.p_loctsk = u <=> cb[m].p_loctsk = u,
           cb[m].p_loctsk = u \/ c2.p_wobjcb = m =>
              b.mtxatr = cb[m].mtxatr /\ b.ceilpri = cb[m].ceilpri,
           c2.p_wobjcb = m => b.p_loctsk # NULL /\ b.p_loctsk # u
    PROVE  TaskOk(c2, hu, cb2, u)
<1>1. NULL \notin Mtx /\ AwaitsOk(c, cb, u)
  BY DEF WaitAssumption, MtxAssumption, TaskOk
<1>2. \A n \in Mtx : cb2[n] = IF n = m THEN b ELSE cb[n]
  OBVIOUS
<1>3. \A n \in Mtx : c2.p_wobjcb = n => c.p_wobjcb = n
  BY <1>1 DEF Calmer
<1>4. SameMutexes(cb, cb2, c2, u)
  BY <1>1, <1>2, <1>3 DEF SameMutexes, AwaitsOk
<1>5. QED
  BY <1>4, TaskKept

LEMMA OtherOnes ==
    ASSUME NEW cb \in [Mtx -> MTXCB], NEW m \in Mtx, NEW b, NEW cb2, cb2 = [cb EXCEPT ![m] = b],
           NEW u
    PROVE  OtherMutexes(cb, cb2, m, u) /\ cb2[m] = b
BY DEF OtherMutexes

LEMMA MtxStep ==
    ASSUME WaitOk(ker'), mtxcb' \in [Mtx -> MTXCB], held' \in [Tsk -> HELD],
           free_mtxcb' \in Seq(DynamicMtx), IsInjective(free_mtxcb'),
           \A u \in Tsk : TaskOk(ker'.tcb[u], held'[u], mtxcb', u),
           \A n \in Mtx : mtxcb'[n].p_loctsk # NULL => mtxcb'[n].mtxatr # "TA_NOEXS",
           \A n \in Mtx : n \in Range(free_mtxcb') <=> mtxcb'[n].mtxatr = "TA_NOEXS"
    PROVE  MtxInv'
BY DEF MtxInv, MtxTypeOK, WaitOk, Exists

LEMMA SameCalmer ==
    ASSUME NEW c
    PROVE  Calmer(c, c)
BY DEF Calmer

\* The state at the start.
LEMMA InitWaitOk ==
    ASSUME WaitAssumption, NEW T \in SUBSET WaitQueue, KerInit(T)
    PROVE  /\ WaitOk(ker) /\ \A w \in WaitQueue : ker.wait[w] = << >>
           /\ \A t \in Tsk : /\ ker.tcb[t].p_wobjcb = NULL /\ ker.tcb[t].tstat = {"RUNNABLE"}
                             /\ ker.tcb[t].priority = ipriority[t]
<1>1. ker = [tcb  |-> [t \in Tsk |-> [DormantTcb(t) EXCEPT !.tstat = {"RUNNABLE"}]],
             wait |-> [w \in WaitQueue |-> << >>], tpri |-> T]
  BY DEF KerInit
<1>2. ASSUME NEW t \in Tsk
      PROVE  /\ ker.tcb[t] \in TCB /\ TcbOk(ker.tcb[t]) /\ ker.tcb[t].p_wobjcb = NULL
             /\ ker.tcb[t].tstat = {"RUNNABLE"} /\ ker.tcb[t].priority = ipriority[t]
  <2>1. ker.tcb[t] = [DormantTcb(t) EXCEPT !.tstat = {"RUNNABLE"}]
    BY <1>1
  <2>2. /\ ker.tcb[t].tstat = {"RUNNABLE"} /\ ker.tcb[t].p_wobjcb = NULL
        /\ ker.tcb[t].tmevtb = FALSE /\ ker.tcb[t].raster = FALSE
        /\ ker.tcb[t].transient = FALSE /\ ker.tcb[t].priority = ipriority[t]
    BY <2>1 DEF DormantTcb
  <2>3. DormantTcb(t) \in TCB
    BY DormantFacts
  <2>4. ker.tcb[t] \in TCB
    BY <2>1, <2>3 DEF TCB
  <2>5. QED
    BY <2>2, <2>4 DEF TcbOk
<1>3. ker.wait = [w \in WaitQueue |-> << >>] /\ ker.tpri = T
  BY <1>1
<1>4. ker \in KerType
  <2>1. ker.tcb = [t \in Tsk |-> [DormantTcb(t) EXCEPT !.tstat = {"RUNNABLE"}]]
    BY <1>1
  <2>2. ker.tcb \in [Tsk -> TCB]
    BY <2>1, <1>2
  <2>3. QED
    BY <2>2, <1>1, <1>3 DEF KerType
<1>5. \A w \in WaitQueue : QueueOk(ker, w)
  BY <1>2, <1>3 DEF QueueOk, IsInjective, Range, Sorted, WaitAssumption
<1>6. QED
  BY <1>2, <1>3, <1>4, <1>5 DEF WaitOk

LEMMA InitMtxInv ==
    ASSUME WaitAssumption, MtxAssumption, MtxInit
    PROVE  MtxInv
<1>. DEFINE T == {m \in StaticMtx : mtxinib[m].mtxatr # "TA_NULL"}
<1>1. /\ KerInit(T) /\ held = [t \in Tsk |-> NoMutex(t)] /\ free_mtxcb = SetToSeq(DynamicMtx)
      /\ mtxcb = [m \in Mtx |-> IF m \in StaticMtx THEN NewMtxcb(mtxinib[m])
                    ELSE [mtxatr |-> "TA_NOEXS", ceilpri |-> 0, p_loctsk |-> NULL]]
  BY DEF MtxInit
<1>2. /\ WaitQueue = Mtx /\ StaticMtx \in SUBSET Mtx /\ DynamicMtx \in SUBSET Mtx
      /\ StaticMtx \cap DynamicMtx = {} /\ Mtx = StaticMtx \cup DynamicMtx
      /\ IsFiniteSet(DynamicMtx)
  BY DEF MtxAssumption, Mtx
<1>3. T \in SUBSET WaitQueue
  BY <1>2
<1>4. /\ WaitOk(ker) /\ \A t \in Tsk : ker.tcb[t].p_wobjcb = NULL /\ ker.tcb[t].priority = ipriority[t]
  BY <1>1, <1>3, InitWaitOk
<1>5. ASSUME NEW m \in Mtx
      PROVE  mtxcb[m] \in MTXCB /\ mtxcb[m].p_loctsk = NULL /\ (m \in DynamicMtx <=> ~Exists(m))
  <2>1. 0 \in Pri
    BY DEF WaitAssumption, Pri
  <2>2. CASE m \in StaticMtx
    <3>1. mtxcb[m] = NewMtxcb(mtxinib[m]) /\ mtxinib[m] \in MTXINIB
      BY <2>2, <1>1 DEF MtxAssumption
    <3>2. QED
      BY <3>1, <2>2, <1>2 DEF NewMtxcb, MTXINIB, MTXCB, Exists
  <2>3. CASE m \notin StaticMtx
    <3>1. mtxcb[m] = [mtxatr |-> "TA_NOEXS", ceilpri |-> 0, p_loctsk |-> NULL]
      BY <2>3, <1>1
    <3>2. QED
      BY <3>1, <2>1, <2>3, <1>2 DEF MTXCB, Exists
  <2>4. QED
    BY <2>2, <2>3
<1>6. mtxcb \in [Mtx -> MTXCB]
  BY <1>1, <1>5
<1>7. held \in [Tsk -> HELD]
  <2>1. \A t \in Tsk : NoMutex(t) \in HELD
    BY DEF NoMutex, HELD, WaitAssumption
  <2>2. QED
    BY <1>1, <2>1
<1>8. free_mtxcb \in Seq(DynamicMtx) /\ IsInjective(free_mtxcb) /\ Range(free_mtxcb) = DynamicMtx
  BY <1>1, <1>2, SetToSeqFacts
<1>9. ASSUME NEW t \in Tsk
      PROVE  TaskOk(ker.tcb[t], held[t], mtxcb, t)
  <2>1. held[t] = NoMutex(t) /\ \A m \in Mtx : mtxcb[m].p_loctsk # t
    BY <1>1, <1>5 DEF WaitAssumption
  <2>2. ker.tcb[t].p_wobjcb = NULL /\ ker.tcb[t].priority = ipriority[t]
    BY <1>4
  <2>3. TaskOk(ker.tcb[t], NoMutex(t), mtxcb, t)
    BY <2>1, <2>2, DormantTask
  <2>4. QED
    BY <2>1, <2>3
<1>10. MtxTypeOK
  BY <1>4, <1>6, <1>7, <1>8 DEF MtxTypeOK, WaitOk
<1>11. QED
  BY <1>4, <1>5, <1>8, <1>9, <1>10 DEF MtxInv

----------------------------------------------------------------------------
\* The calls on mutexes: each keeps the invariant and hands mutexes over as
\* it should.

LEMMA TaskMtx ==
    ASSUME WaitAssumption, MtxAssumption, MtxInv, NEW t \in Tsk, TaskCall(t),
           UNCHANGED <<mtxcb, held, free_mtxcb>>
    PROVE  MtxInv' /\ PassedToFirst
<1>1. WaitOk(ker')
  BY MtxFacts, TaskStep DEF TaskCall, TaskNext, TaskEffect
<1>2. ASSUME NEW u \in Tsk
      PROVE  TaskOk(ker'.tcb[u], held[u], mtxcb, u)
  <2>1. Calmer(ker.tcb[u], ker'.tcb[u]) /\ TaskOk(ker.tcb[u], held[u], mtxcb, u)
    BY MtxFacts, CallCalmer
  <2>2. SameMutexes(mtxcb, mtxcb, ker'.tcb[u], u)
    BY <2>1, MtxFacts DEF SameMutexes, Calmer, TaskOk, AwaitsOk
  <2>3. QED
    BY <2>1, <2>2, TaskKept
<1>3. MtxInv'
  BY <1>1, <1>2 DEF MtxInv, MtxTypeOK, WaitOk, Exists
<1>4. QED
  BY <1>3 DEF PassedToFirst

LEMMA AcreMtx ==
    ASSUME WaitAssumption, MtxAssumption, MtxInv, NEW ini \in MTXINIB, acre_mtx(ini)
    PROVE  MtxInv' /\ PassedToFirst
<1>. DEFINE m == Head(free_mtxcb)
            b == NewMtxcb(ini)
            T == IF ini.mtxatr # "TA_NULL" THEN ker.tpri \cup {m} ELSE ker.tpri \ {m}
<1>1. /\ free_mtxcb # << >> /\ mtxcb' = [mtxcb EXCEPT ![m] = b]
      /\ ker' = NewQueue(ker, m, T)
      /\ free_mtxcb' = Tail(free_mtxcb) /\ held' = held
  BY DEF acre_mtx, NewQueue
<1>2. /\ m \in Range(free_mtxcb) /\ m \in DynamicMtx
      /\ Tail(free_mtxcb) \in Seq(DynamicMtx) /\ IsInjective(Tail(free_mtxcb))
      /\ Range(Tail(free_mtxcb)) = Range(free_mtxcb) \ {m}
  BY <1>1, MtxFacts, TailFacts
<1>3. m \in Mtx
  BY <1>2 DEF Mtx
<1>. HIDE DEF m
<1>4. ~Exists(m) /\ mtxcb[m].p_loctsk = NULL /\ ker.wait[m] = << >>
      /\ \A t \in Tsk : ker.tcb[t].p_wobjcb # m
  <2>1. ~Exists(m)
    BY <1>2, <1>3 DEF MtxInv
  <2>2. QED
    BY <2>1, <1>3, AwaitedLocked
<1>5. b \in MTXCB /\ b.p_loctsk = NULL /\ b.mtxatr # "TA_NOEXS"
  BY DEF NewMtxcb, MTXCB, MTXINIB
<1>6. T \in SUBSET WaitQueue /\ \A v \in WaitQueue : v # m => (v \in T <=> v \in ker.tpri)
  BY <1>3, MtxFacts, KerFields
<1>. HIDE DEF T, b
<1>7. WaitOk(ker') /\ ker'.wait = ker.wait /\ ker'.tcb = ker.tcb
  BY <1>1, <1>3, <1>4, <1>6, MtxFacts, CreateQueue
<1>8. mtxcb' \in [Mtx -> MTXCB] /\ \A n \in Mtx : mtxcb'[n] = IF n = m THEN b ELSE mtxcb[n]
  BY <1>1, <1>3, <1>5, MtxFacts
<1>9. ASSUME NEW u \in Tsk
      PROVE  TaskOk(ker'.tcb[u], held[u], mtxcb', u)
  <2>1. TaskOk(ker.tcb[u], held[u], mtxcb, u) /\ ker.tcb[u].p_wobjcb # m /\ u # NULL
    BY <1>4, MtxFacts
  <2>2. TaskOk(ker.tcb[u], held[u], mtxcb', u)
    BY <2>1, <1>1, <1>3, <1>4, <1>5, MtxFacts, SameCalmer, OneMutex
  <2>3. QED
    BY <2>2, <1>7
<1>10. MtxTypeOK'
  BY <1>1, <1>2, <1>7, <1>8, MtxFacts DEF MtxTypeOK, WaitOk
<1>11. \A n \in Mtx : /\ mtxcb'[n].p_loctsk # NULL => mtxcb'[n].mtxatr # "TA_NOEXS"
                      /\ n \in Range(free_mtxcb') <=> mtxcb'[n].mtxatr = "TA_NOEXS"
  BY <1>1, <1>2, <1>5, <1>8 DEF MtxInv, Exists
<1>12. MtxInv'
  BY <1>1, <1>2, <1>7, <1>9, <1>10, <1>11 DEF MtxInv, Exists
<1>13. PassedToFirst
  BY <1>4, <1>8, MtxFacts DEF PassedToFirst
<1>14. QED
  BY <1>12, <1>13

\* A step on one task that keeps the mutexes.
LEMMA OneTaskMtx ==
    ASSUME WaitAssumption, MtxAssumption, MtxInv, NEW t \in Tsk, WaitOk(ker'),
           OthersKept(ker, ker', t), \A u \in Tsk : u # t => held'[u] = held[u],
           held' \in [Tsk -> HELD], mtxcb' = mtxcb, free_mtxcb' = free_mtxcb,
           TaskOk(ker'.tcb[t], held'[t], mtxcb, t)
    PROVE  MtxInv' /\ PassedToFirst
<1>1. ASSUME NEW u \in Tsk
      PROVE  TaskOk(ker'.tcb[u], held'[u], mtxcb, u)
  BY MtxFacts DEF OthersKept
<1>2. MtxInv'
  BY <1>1 DEF MtxInv, MtxTypeOK, WaitOk, Exists
<1>3. QED
  BY <1>2 DEF PassedToFirst

LEMMA ChgBpri ==
    ASSUME WaitAssumption, MtxAssumption, MtxInv, NEW t \in Tsk, NEW p \in Pri, chg_bpri(t, p)
    PROVE  MtxInv' /\ PassedToFirst
<1>1. /\ ker.tcb[t].tstat # {} /\ held' = [held EXCEPT ![t].bpriority = p]
      /\ ker' = IF held[t].boosted THEN ker ELSE change_priority(ker, t, p)
      /\ mtxcb' = mtxcb /\ free_mtxcb' = free_mtxcb
      /\ held[t].boosted \/ ker.tcb[t].p_wobjcb # NULL => mutex_check_ceilpri(t, p)
  BY DEF chg_bpri, Dormant, tcb
<1>2. /\ WaitOk(ker) /\ ker.tcb[t] \in TCB /\ held[t] \in HELD
      /\ TaskOk(ker.tcb[t], held[t], mtxcb, t)
  BY MtxFacts
<1>3. PriorityOnly(ker, ker', t, IF held[t].boosted THEN ker.tcb[t].priority ELSE p)
  <2>1. CASE held[t].boosted
    <3>1. ker.tcb[t].priority \in Pri /\ ker' = ker
      BY <2>1, <1>1, <1>2 DEF TCB
    <3>2. QED
      BY <3>1, <2>1, <1>2, PriorityChanged
  <2>2. CASE ~held[t].boosted
    <3>1. PriorityOnly(ker, ker', t, p)
      BY <2>2, <1>1, <1>2, PriorityChanged
    <3>2. QED
      BY <3>1, <2>2
  <2>3. QED
    BY <2>1, <2>2
<1>4. /\ held' \in [Tsk -> HELD] /\ \A u \in Tsk : u # t => held'[u] = held[u]
      /\ held'[t].bpriority = p /\ held'[t].lastmtx = held[t].lastmtx
      /\ held'[t].boosted = held[t].boosted
  BY <1>1, <1>2, MtxFacts DEF HELD
<1>5. held[t].boosted \/ ker.tcb[t].p_wobjcb # NULL =>
         \A m \in Mtx : mtxcb[m].mtxatr = "TA_CEILING"
                           /\ (mtxcb[m].p_loctsk = t \/ ker.tcb[t].p_wobjcb = m) =>
            p >= mtxcb[m].ceilpri
  <2>. SUFFICES ASSUME mutex_check_ceilpri(t, p), NEW m \in Mtx, mtxcb[m].mtxatr = "TA_CEILING",
                       mtxcb[m].p_loctsk = t \/ ker.tcb[t].p_wobjcb = m
                PROVE  p >= mtxcb[m].ceilpri
    BY <1>1
  <2>1. CASE mtxcb[m].p_loctsk = t
    <3>1. m \in Range(held[t].lastmtx)
      BY <2>1, <1>2 DEF TaskOk, ListOk
    <3>2. mtxcb[m].ceilpri \in Ceilings(held, t)
      BY <3>1 DEF Ceilings, MTX_CEILING
    <3>3. QED
      BY <3>2 DEF mutex_check_ceilpri
  <2>2. CASE ker.tcb[t].p_wobjcb = m
    BY <2>2 DEF mutex_check_ceilpri, MTX_CEILING, tcb
  <2>3. QED
    BY <2>1, <2>2
<1>6. TaskOk(ker'.tcb[t], held'[t], mtxcb, t)
  <2>1. /\ ker'.tcb[t].priority = IF held[t].boosted THEN ker.tcb[t].priority ELSE p
        /\ ker'.tcb[t].tstat = ker.tcb[t].tstat /\ ker'.tcb[t].p_wobjcb = ker.tcb[t].p_wobjcb
    BY <1>3 DEF PriorityOnly
  <2>2. mtxcb \in [Mtx -> MTXCB]
    BY MtxFacts
  <2>3. QED
    BY <2>1, <2>2, <1>1, <1>2, <1>4, <1>5, TaskRebased
<1>7. WaitOk(ker') /\ OthersKept(ker, ker', t)
  BY <1>3 DEF PriorityOnly
<1>8. QED
  BY <1>1, <1>4, <1>6, <1>7, OneTaskMtx

LEMMA ExecutingFacts ==
    ASSUME WaitAssumption, MtxAssumption, MtxInv, NEW t \in Tsk, Executes(t)
    PROVE  /\ "RUNNABLE" \in ker.tcb[t].tstat \/ ker.tcb[t].transient
           /\ ker.tcb[t].p_wobjcb = NULL /\ ker.tcb[t].tstat # {} /\ ker.tcb[t] \in TCB
           /\ TcbOk(ker.tcb[t])
<1>1. "RUNNABLE" \in ker.tcb[t].tstat \/ ker.tcb[t].transient
  BY DEF Executes, Runnable, tcb
<1>2. TcbOk(ker.tcb[t]) /\ ker.tcb[t] \in TCB
  BY MtxFacts DEF WaitOk
<1>3. QED
  BY <1>1, <1>2 DEF TcbOk

\* The calling task finds the mutex free.
LEMMA LocksFree ==
    ASSUME WaitAssumption, MtxAssumption, MtxInv, NEW t \in Tsk, NEW m \in Mtx, Executes(t),
           LockFree(t, m)
    PROVE  MtxInv' /\ PassedToFirst
<1>. DEFINE c   == ker.tcb[t]
            b   == [mtxcb[m] EXCEPT !.p_loctsk = t]
            st  == [k |-> ker, h |-> Push(held, t, m)]
            hu1 == [held[t] EXCEPT !.lastmtx = <<m>> \o held[t].lastmtx]
            ceiling == mtxcb[m].mtxatr = "TA_CEILING"
            p   == AsHolder(c.priority, mtxcb[m])
            boosts == ceiling /\ mtxcb[m].ceilpri <= c.priority
<1>1. /\ Exists(m) /\ (ceiling => held[t].bpriority >= mtxcb[m].ceilpri)
      /\ mtxcb[m].p_loctsk = NULL /\ Becomes(mutex_acquire(State, t, m))
      /\ mtxcb' = [mtxcb EXCEPT ![m] = b] /\ free_mtxcb' = free_mtxcb
  BY DEF LockFree, MayLock, MTX_CEILING
<1>2. /\ WaitOk(ker) /\ c \in TCB /\ held[t] \in HELD /\ mtxcb[m] \in MTXCB
      /\ TaskOk(c, held[t], mtxcb, t)
      /\ mtxcb \in [Mtx -> MTXCB] /\ held \in [Tsk -> HELD]
  BY MtxFacts
<1>3. c.p_wobjcb = NULL /\ c.tstat # {}
  BY ExecutingFacts
<1>4. hu1 \in HELD
  <2>1. <<m>> \o held[t].lastmtx \in Seq(Mtx)
    BY <1>2 DEF HELD
  <2>2. QED
    BY <1>2, <2>1 DEF HELD
<1>5. /\ Push(held, t, m) \in [Tsk -> HELD] /\ Push(held, t, m)[t] = hu1
      /\ \A u \in Tsk : u # t => Push(held, t, m)[u] = held[u]
  BY <1>2, <1>4 DEF Push
<1>6. /\ PriorityOnly(ker, ker', t, p)
      /\ held' = IF boosts THEN [Push(held, t, m) EXCEPT ![t].boosted = TRUE] ELSE Push(held, t, m)
  <2>1. [State EXCEPT !.h = Push(@, t, m)] = st
    BY DEF State
  <2>2. CASE ceiling
    <3>1. mutex_acquire(State, t, m) = mutex_raise_priority(st, t, mtxcb[m].ceilpri)
      BY <2>1, <2>2 DEF mutex_acquire, MTX_CEILING
    <3>2. PICK np \in Pri : np = mtxcb[m].ceilpri
      BY <1>2 DEF MTXCB
    <3>. DEFINE st2 == mutex_raise_priority(st, t, np)
    <3>3. ker' = st2.k /\ held' = st2.h
      BY <3>1, <3>2, <1>1 DEF Becomes
    <3>4. st.k = ker /\ st.h = Push(held, t, m) /\ WaitOk(st.k)
      BY <1>2
    <3>5. st2 = mutex_raise_priority(st, t, np)
      OBVIOUS
    <3>. HIDE DEF st, st2, c, p
    <3>7. /\ np < st.k.tcb[t].priority => PriorityOnly(st.k, st2.k, t, np)
          /\ ~(np < st.k.tcb[t].priority) => PriorityOnly(st.k, st2.k, t, st.k.tcb[t].priority)
          /\ np <= st.k.tcb[t].priority => st2.h = [st.h EXCEPT ![t].boosted = TRUE]
          /\ ~(np <= st.k.tcb[t].priority) => st2.h = st.h
      BY <3>4, <3>5, Raises
    <3>8. p = IF np < ker.tcb[t].priority THEN np ELSE ker.tcb[t].priority
      BY <2>2, <3>2 DEF p, c, AsHolder
    <3>9. boosts <=> np <= ker.tcb[t].priority
      BY <2>2, <3>2 DEF c
    <3>. HIDE DEF boosts, ceiling
    <3>10. PriorityOnly(ker, ker', t, p)
      BY <3>3, <3>4, <3>7, <3>8
    <3>11. QED
      BY <3>3, <3>4, <3>7, <3>9, <3>10
  <2>3. CASE ~ceiling
    <3>1. mutex_acquire(State, t, m) = st
      BY <2>1, <2>3 DEF mutex_acquire, MTX_CEILING
    <3>2. ker' = ker /\ held' = Push(held, t, m)
      BY <3>1, <1>1 DEF Becomes
    <3>3. c.priority \in Pri /\ p = c.priority
      BY <1>2, <2>3 DEF TCB, AsHolder
    <3>4. PriorityOnly(ker, ker', t, p)
      BY <3>2, <3>3, <1>2, PriorityChanged
    <3>5. QED
      BY <3>2, <3>4, <2>3
  <2>4. QED
    BY <2>2, <2>3
<1>7. /\ held' \in [Tsk -> HELD] /\ \A u \in Tsk : u # t => held'[u] = held[u]
      /\ held'[t].bpriority = held[t].bpriority /\ held'[t].lastmtx = <<m>> \o held[t].lastmtx
      /\ held'[t].boosted <=> (held[t].boosted \/ boosts)
  <2>. DEFINE h1 == Push(held, t, m)
  <2>1. /\ h1 \in [Tsk -> HELD] /\ h1[t].bpriority = held[t].bpriority
        /\ h1[t].lastmtx = <<m>> \o held[t].lastmtx /\ h1[t].boosted = held[t].boosted
        /\ \A u \in Tsk : u # t => h1[u] = held[u]
    BY <1>2, <1>5 DEF HELD
  <2>2. held' = IF boosts THEN [h1 EXCEPT ![t].boosted = TRUE] ELSE h1
    BY <1>6
  <2>. HIDE DEF h1, boosts
  <2>3. CASE boosts
    <3>1. h1[t] \in HELD /\ [h1[t] EXCEPT !.boosted = TRUE] \in HELD
      BY <2>1 DEF HELD
    <3>2. held' = [h1 EXCEPT ![t] = [h1[t] EXCEPT !.boosted = TRUE]]
      BY <2>2, <2>3
    <3>3. held' \in [Tsk -> HELD] /\ held'[t] = [h1[t] EXCEPT !.boosted = TRUE]
          /\ \A u \in Tsk : u # t => held'[u] = h1[u]
      BY <3>1, <3>2, <2>1
    <3>4. /\ held'[t].bpriority = h1[t].bpriority /\ held'[t].lastmtx = h1[t].lastmtx
          /\ held'[t].boosted
      BY <3>1, <3>3 DEF HELD
    <3>5. QED
      BY <3>3, <3>4, <2>1, <2>3
  <2>4. CASE ~boosts
    BY <2>1, <2>2, <2>4
  <2>5. QED
    BY <2>3, <2>4
<1>8. held'[t].boosted <=> held[t].boosted \/ ceiling
  <2>1. ceiling /\ ~boosts => held[t].boosted
    <3>. SUFFICES ASSUME ceiling, ~boosts
                  PROVE  held[t].boosted
      OBVIOUS
    <3>1. /\ c.priority \in Nat /\ held[t].bpriority \in Nat /\ mtxcb[m].ceilpri \in Nat
      BY <1>2, PrioritiesNat
    <3>2. c.priority # held[t].bpriority
      BY <3>1, <1>1
    <3>3. PriorityOk(c, held[t], mtxcb, t)
      BY <1>2 DEF TaskOk
    <3>4. QED
      BY <3>2, <3>3 DEF PriorityOk
  <2>2. QED
    BY <2>1, <1>7
<1>9. b \in MTXCB /\ b.p_loctsk = t /\ b.mtxatr = mtxcb[m].mtxatr /\ b.ceilpri = mtxcb[m].ceilpri
  BY <1>2 DEF MTXCB
<1>. HIDE DEF b, c, boosts
<1>10. mtxcb' \in [Mtx -> MTXCB] /\ \A n \in Mtx : mtxcb'[n] = IF n = m THEN b ELSE mtxcb[n]
  BY <1>1, <1>2, <1>9
<1>11. /\ WaitOk(ker') /\ OthersKept(ker, ker', t) /\ ker'.tcb[t].priority = p
       /\ ker'.tcb[t].tstat = c.tstat /\ ker'.tcb[t].p_wobjcb = c.p_wobjcb
  BY <1>6 DEF PriorityOnly, c
<1>12. TaskOk(ker'.tcb[t], held'[t], mtxcb', t)
  <2>1. OtherMutexes(mtxcb, mtxcb', m, t)
    BY <1>10 DEF OtherMutexes
  <2>2. mtxcb[m].p_loctsk # t
    BY <1>1, MtxFacts
  <2>3. mtxcb'[m].p_loctsk = t /\ mtxcb'[m].mtxatr = mtxcb[m].mtxatr /\ mtxcb'[m].ceilpri = mtxcb[m].ceilpri
    BY <1>9, <1>10
  <2>4. ker'.tcb[t].priority = AsHolder(ker.tcb[t].priority, mtxcb[m])
    BY <1>11 DEF c
  <2>5. ker'.tcb[t].p_wobjcb = NULL /\ ker'.tcb[t].tstat # {}
    BY <1>3, <1>11 DEF c
  <2>6. mtxcb[m].mtxatr = "TA_CEILING" => held[t].bpriority >= mtxcb[m].ceilpri
    BY <1>1
  <2>7. TaskOk(ker.tcb[t], held[t], mtxcb, t) /\ ker.tcb[t] \in TCB
    BY <1>2 DEF c
  <2>8. held'[t].boosted <=> held[t].boosted \/ mtxcb[m].mtxatr = "TA_CEILING"
    BY <1>8
  <2>9. held'[t].lastmtx = Pushed(held[t], m) /\ held'[t].bpriority = held[t].bpriority
    BY <1>7 DEF Pushed
  <2>10. held[t] \in HELD /\ mtxcb \in [Mtx -> MTXCB]
    BY <1>2
  <2>11. Acquires(ker.tcb[t], ker'.tcb[t], held[t], held'[t], mtxcb, mtxcb', m, t)
    BY <2>1, <2>2, <2>3, <2>4, <2>5, <2>6, <2>8, <2>9 DEF Acquires
  <2>12. QED
    BY <2>7, <2>10, <2>11, TaskGets
<1>13. ASSUME NEW u \in Tsk
       PROVE  TaskOk(ker'.tcb[u], held'[u], mtxcb', u)
  <2>1. CASE u = t
    BY <2>1, <1>12
  <2>2. CASE u # t
    <3>1. /\ TaskOk(ker.tcb[u], held[u], mtxcb, u) /\ ker.tcb[u].p_wobjcb # m /\ u # NULL
          /\ ker'.tcb[u] = ker.tcb[u] /\ held'[u] = held[u]
      BY <2>2, <1>1, <1>7, <1>11, MtxFacts, AwaitedLocked DEF OthersKept
    <3>2. TaskOk(ker.tcb[u], held[u], mtxcb', u)
      BY <3>1, <2>2, <1>1, <1>2, <1>9, SameCalmer, OneMutex
    <3>3. QED
      BY <3>1, <3>2
  <2>3. QED
    BY <2>1, <2>2
<1>14. \A n \in Mtx : mtxcb'[n].p_loctsk # NULL => mtxcb'[n].mtxatr # "TA_NOEXS"
  <2>1. \A n \in Mtx : mtxcb[n].p_loctsk # NULL => mtxcb[n].mtxatr # "TA_NOEXS"
    BY AwaitedLocked DEF Exists
  <2>2. mtxcb[m].mtxatr # "TA_NOEXS"
    BY <1>1 DEF Exists
  <2>3. QED
    BY <2>1, <2>2, <1>9, <1>10
<1>15. \A n \in Mtx : n \in Range(free_mtxcb') <=> mtxcb'[n].mtxatr = "TA_NOEXS"
  <2>1. \A n \in Mtx : n \in Range(free_mtxcb) <=> mtxcb[n].mtxatr = "TA_NOEXS"
    BY DEF MtxInv, Exists
  <2>2. QED
    BY <2>1, <1>1, <1>9, <1>10
<1>16. MtxInv'
  <2>1. free_mtxcb' \in Seq(DynamicMtx) /\ IsInjective(free_mtxcb')
    BY <1>1, MtxFacts
  <2>2. QED
    BY <2>1, <1>7, <1>10, <1>11, <1>13, <1>14, <1>15, MtxStep
<1>17. PassedToFirst
  BY <1>1, <1>10 DEF PassedToFirst
<1>18. QED
  BY <1>16, <1>17

LEMMA WaitsMtx ==
    ASSUME WaitAssumption, MtxAssumption, MtxInv, NEW t \in Tsk, NEW m \in Mtx,
           NEW tmout \in BOOLEAN, LockWait(t, m, tmout)
    PROVE  MtxInv' /\ PassedToFirst
<1>1. Executes(t) /\ ~ker.tcb[t].raster
  BY DEF LockWait, MayWait, tcb
<1>2. CASE LockFree(t, m)
  BY <1>1, <1>2, LocksFree
<1>3. CASE /\ MayLock(t, m) /\ mtxcb[m].p_loctsk \notin {NULL, t}
           /\ ker' = WobjMakeWait(ker, m, t, tmout)
           /\ UNCHANGED <<mtxcb, held, free_mtxcb>>
  <2>1. m \in WaitQueue /\ WaitOk(ker) /\ TaskOk(ker.tcb[t], held[t], mtxcb, t)
    BY MtxFacts
  <2>2. ker.tcb[t] \in TCB /\ ("RUNNABLE" \in ker.tcb[t].tstat \/ ker.tcb[t].transient)
    BY <1>1, ExecutingFacts
  <2>3. WaitOk(ker')
    BY <1>1, <1>3, <2>1, <2>2, MakesWait
  <2>4. TcbOnly(ker, ker', t, WaitingTcb(ker.tcb[t], m, tmout))
    BY <1>3, <2>1, WaitsTcb
  <2>5. /\ ker'.tcb[t].p_wobjcb = m /\ ker'.tcb[t].priority = ker.tcb[t].priority
        /\ ker'.tcb[t].tstat # {}
    BY <2>2, <2>4 DEF TcbOnly, WaitingTcb, TCB
  <2>6. /\ mtxcb[m].p_loctsk # NULL /\ mtxcb[m].p_loctsk # t
        /\ mtxcb[m].mtxatr = "TA_CEILING" => held[t].bpriority >= mtxcb[m].ceilpri
    BY <1>3 DEF MayLock, MTX_CEILING
  <2>7. TaskOk(ker'.tcb[t], held[t], mtxcb, t)
    BY <2>1, <2>5, <2>6, TaskAwaits
  <2>8. QED
    BY <1>3, <2>3, <2>4, <2>7, OneTaskMtx, MtxFacts DEF TcbOnly
<1>4. QED
  BY <1>2, <1>3 DEF LockWait

\* In h the task t has the list q of mutexes.
WithList(h, t, q) ==
    /\ h \in [Tsk -> HELD] /\ h[t].bpriority = held[t].bpriority
    /\ h[t].lastmtx = q /\ (h[t].boosted <=> held[t].boosted)
    /\ \A u \in Tsk : u # t => h[u] = held[u]

LEMMA ListChanged ==
    ASSUME held \in [Tsk -> HELD], NEW t \in Tsk, NEW q \in Seq(Mtx),
           NEW h, h = [held EXCEPT ![t].lastmtx = q]
    PROVE  WithList(h, t, q)
<1>. DEFINE hu == [held[t] EXCEPT !.lastmtx = q]
<1>1. held[t] \in HELD
  OBVIOUS
<1>2. /\ hu \in HELD /\ hu.bpriority = held[t].bpriority
      /\ hu.lastmtx = q /\ hu.boosted = held[t].boosted
  BY <1>1 DEF HELD
<1>3. h = [held EXCEPT ![t] = hu]
  OBVIOUS
<1>. HIDE DEF hu
<1>4. h \in [Tsk -> HELD] /\ h[t] = hu /\ \A u \in Tsk : u # t => h[u] = held[u]
  BY <1>2, <1>3
<1>5. QED
  BY <1>2, <1>4 DEF WithList

\* What mutex_drop_priority does.
Dropped(st, st2, t, oldpri) ==
    /\ oldpri = st.k.tcb[t].priority =>
          /\ PriorityOnly(st.k, st2.k, t, CalcPriority(st.h, t))
          /\ st2.h = [st.h EXCEPT ![t].boosted = HeldCeilings(st.h, t) # {}]
    /\ oldpri # st.k.tcb[t].priority =>
          PriorityOnly(st.k, st2.k, t, st.k.tcb[t].priority) /\ st2.h = st.h

LEMMA DropsAll ==
    ASSUME WaitAssumption, NEW st, WaitOk(st.k), st.h \in [Tsk -> HELD], NEW t \in Tsk,
           mtxcb \in [Mtx -> MTXCB], NEW oldpri
    PROVE  Dropped(st, mutex_drop_priority(st, t, oldpri), t, oldpri)
<1>. DEFINE st2 == mutex_drop_priority(st, t, oldpri)
<1>1. st2 = mutex_drop_priority(st, t, oldpri)
  OBVIOUS
<1>. HIDE DEF st2
<1>2. /\ oldpri = st.k.tcb[t].priority =>
            /\ PriorityOnly(st.k, st2.k, t, CalcPriority(st.h, t))
            /\ st2.h = [st.h EXCEPT ![t].boosted = HeldCeilings(st.h, t) # {}]
      /\ oldpri # st.k.tcb[t].priority =>
            PriorityOnly(st.k, st2.k, t, st.k.tcb[t].priority) /\ st2.h = st.h
  BY <1>1, Drops, SMTT(30)
<1>3. QED
  BY <1>1, <1>2 DEF Dropped

\* The priority of the holder after it lost the mutex m.
DropsFor(st1, st2, t, m) ==
    st2 = IF MTX_CEILING(m) THEN mutex_drop_priority(st1, t, mtxcb[m].ceilpri) ELSE st1

\* The conclusion of the next lemma.
HolderDropped(st1, st2, cb2, t) ==
    /\ st2.h \in [Tsk -> HELD] /\ \A u \in Tsk : u # t => st2.h[u] = held[u]
    /\ WaitOk(st2.k) /\ OthersKept(st1.k, st2.k, t)
    /\ \A w \in WaitQueue : w # ker.tcb[t].p_wobjcb => st2.k.wait[w] = st1.k.wait[w]
    /\ st2.k.tcb[t].p_wobjcb = ker.tcb[t].p_wobjcb
    /\ TaskOk(st2.k.tcb[t], st2.h[t], cb2, t)

\* The holder t loses the mutex m, of which the control block becomes b; k is
\* the kernel data after what happened to other tasks before.
LEMMA DropsHolder ==
    ASSUME WaitAssumption, MtxAssumption, MtxInv, NEW m \in Mtx, NEW t \in Tsk,
           mtxcb[m].p_loctsk = t, NEW q \in Seq(Mtx), IsInjective(q),
           Range(q) = Range(held[t].lastmtx) \ {m},
           NEW st1, WaitOk(st1.k), st1.k.tcb[t] = ker.tcb[t],
           WithList(st1.h, t, q),
           NEW st2, DropsFor(st1, st2, t, m),
           NEW b, b.p_loctsk # t, NEW cb2, cb2 = [mtxcb EXCEPT ![m] = b]
    PROVE  HolderDropped(st1, st2, cb2, t)
<1>. DEFINE L == OtherCeilings(mtxcb, m, t)
            c == ker.tcb[t]
            recalc == mtxcb[m].mtxatr = "TA_CEILING" /\ mtxcb[m].ceilpri = c.priority
<1>1. /\ c \in TCB /\ held[t] \in HELD /\ TaskOk(c, held[t], mtxcb, t)
      /\ mtxcb \in [Mtx -> MTXCB] /\ held \in [Tsk -> HELD]
      /\ c.priority \in Pri
  BY MtxFacts DEF TCB
<1>2. ListOk(held[t], mtxcb, t) /\ AwaitsOk(c, mtxcb, t) /\ PriorityOk(c, held[t], mtxcb, t)
  BY <1>1 DEF TaskOk
<1>3. /\ st1.h \in [Tsk -> HELD] /\ st1.h[t].bpriority = held[t].bpriority
      /\ st1.h[t].lastmtx = q /\ (st1.h[t].boosted <=> held[t].boosted)
      /\ \A u \in Tsk : u # t => st1.h[u] = held[u]
  BY DEF WithList
<1>4. HeldCeilings(st1.h, t) = L
  <2>1. \A n \in Mtx : n \in Range(q) <=> n # m /\ mtxcb[n].p_loctsk = t
    BY <1>2 DEF ListOk
  <2>2. Range(q) \subseteq Mtx
    BY LenProperties DEF Range
  <2>3. HeldCeilings(st1.h, t) = {n \in Range(q) : mtxcb[n].mtxatr = "TA_CEILING"}
    BY <1>3 DEF HeldCeilings, MTX_CEILING
  <2>4. QED
    BY <2>1, <2>2, <2>3 DEF OtherCeilings, HoldsCeiling
<1>5. \A n \in Mtx : c.p_wobjcb = n => n # m
  BY <1>2 DEF AwaitsOk
<1>6. \A n \in Mtx : cb2[n] = IF n = m THEN b ELSE mtxcb[n]
  BY <1>1
<1>. HIDE DEF L, c, recalc
<1>7. /\ PriorityOnly(st1.k, st2.k, t, st2.k.tcb[t].priority)
      /\ recalc => /\ Highest(st2.k.tcb[t].priority, held[t].bpriority, mtxcb, L)
                   /\ st2.h = [st1.h EXCEPT ![t].boosted = L # {}]
      /\ ~recalc => st2.k.tcb[t].priority = c.priority /\ st2.h = st1.h
  <2>. USE DEF recalc
  <2>1. CASE mtxcb[m].mtxatr = "TA_CEILING"
    <3>1. st2 = mutex_drop_priority(st1, t, mtxcb[m].ceilpri)
      BY <2>1 DEF MTX_CEILING, DropsFor
    <3>2. /\ mtxcb[m].ceilpri = c.priority =>
                /\ PriorityOnly(st1.k, st2.k, t, CalcPriority(st1.h, t))
                /\ st2.h = [st1.h EXCEPT ![t].boosted = HeldCeilings(st1.h, t) # {}]
          /\ mtxcb[m].ceilpri # c.priority =>
                PriorityOnly(st1.k, st2.k, t, c.priority) /\ st2.h = st1.h
      <4>1. st1.k.tcb[t].priority = c.priority
        BY DEF c
      <4>2. PICK oldpri : oldpri = mtxcb[m].ceilpri
        OBVIOUS
      <4>3. st2 = mutex_drop_priority(st1, t, oldpri)
        BY <3>1, <4>2
      <4>4. st1.h \in [Tsk -> HELD] /\ mtxcb \in [Mtx -> MTXCB]
        BY <1>1, <1>3
      <4>5. Dropped(st1, st2, t, oldpri)
        BY <4>3, <4>4, DropsAll
      <4>6. QED
        BY <4>1, <4>2, <4>5 DEF Dropped
    <3>3. Highest(CalcPriority(st1.h, t), st1.h[t].bpriority, mtxcb, L)
      BY <1>1, <1>3, <1>4, CalcFacts
    <3>4. CASE mtxcb[m].ceilpri = c.priority
      <4>1. /\ PriorityOnly(st1.k, st2.k, t, CalcPriority(st1.h, t))
            /\ st2.h = [st1.h EXCEPT ![t].boosted = L # {}]
        BY <3>2, <3>4, <1>4
      <4>2. st2.k.tcb[t].priority = CalcPriority(st1.h, t)
        BY <4>1 DEF PriorityOnly
      <4>3. QED
        BY <4>1, <4>2, <3>3, <3>4, <1>3, <2>1
    <3>5. CASE mtxcb[m].ceilpri # c.priority
      <4>1. PriorityOnly(st1.k, st2.k, t, c.priority) /\ st2.h = st1.h
        BY <3>2, <3>5
      <4>2. st2.k.tcb[t].priority = c.priority
        BY <4>1 DEF PriorityOnly
      <4>3. QED
        BY <4>1, <4>2, <3>5
    <3>6. QED
      BY <3>4, <3>5
  <2>2. CASE mtxcb[m].mtxatr # "TA_CEILING"
    <3>1. st2 = st1
      BY <2>2 DEF MTX_CEILING, DropsFor
    <3>2. st1.k.tcb[t].priority = c.priority
      BY DEF c
    <3>3. PriorityOnly(st1.k, st1.k, t, st1.k.tcb[t].priority)
      BY DEF PriorityOnly, OthersKept
    <3>4. QED
      BY <3>1, <3>2, <3>3, <2>2
  <2>3. QED
    BY <2>1, <2>2
<1>8. /\ st2.h \in [Tsk -> HELD] /\ \A u \in Tsk : u # t => st2.h[u] = held[u]
      /\ st2.h[t].bpriority = held[t].bpriority /\ st2.h[t].lastmtx = q
      /\ recalc => (st2.h[t].boosted <=> L # {})
      /\ ~recalc => (st2.h[t].boosted <=> held[t].boosted)
  <2>1. CASE recalc
    <3>1. st2.h = [st1.h EXCEPT ![t].boosted = L # {}]
      BY <1>7, <2>1
    <3>2. st1.h[t] \in HELD
      BY <1>3
    <3>. DEFINE g == L # {}
                hu == [st1.h[t] EXCEPT !.boosted = g]
    <3>3. g \in BOOLEAN
      OBVIOUS
    <3>. HIDE DEF g
    <3>4. /\ hu \in HELD /\ hu.bpriority = st1.h[t].bpriority /\ hu.lastmtx = st1.h[t].lastmtx
          /\ hu.boosted = g
      BY <3>2, <3>3 DEF HELD
    <3>5. st2.h = [st1.h EXCEPT ![t] = hu]
      BY <3>1 DEF g
    <3>. HIDE DEF hu
    <3>6. st2.h \in [Tsk -> HELD] /\ st2.h[t] = hu /\ \A u \in Tsk : u # t => st2.h[u] = st1.h[u]
      BY <3>4, <3>5, <1>3
    <3>7. QED
      BY <3>4, <3>6, <1>3, <2>1 DEF g
  <2>2. CASE ~recalc
    BY <1>3, <1>7, <2>2
  <2>3. QED
    BY <2>1, <2>2
<1>9. /\ WaitOk(st2.k) /\ OthersKept(st1.k, st2.k, t)
      /\ \A w \in WaitQueue : w # c.p_wobjcb => st2.k.wait[w] = st1.k.wait[w]
      /\ st2.k.tcb[t].tstat = c.tstat /\ st2.k.tcb[t].p_wobjcb = c.p_wobjcb
  BY <1>7 DEF PriorityOnly, c
<1>10. OtherMutexes(mtxcb, cb2, m, t)
  BY <1>6 DEF OtherMutexes
<1>11. Loses(c, st2.k.tcb[t], held[t], st2.h[t], mtxcb, cb2, m, t)
  <2>1. \A n \in Mtx : c.p_wobjcb = n =>
          /\ cb2[n].p_loctsk # NULL /\ cb2[n].p_loctsk # t
          /\ cb2[n].mtxatr = mtxcb[n].mtxatr /\ cb2[n].ceilpri = mtxcb[n].ceilpri
    BY <1>2, <1>5, <1>6 DEF AwaitsOk
  <2>2. cb2[m].p_loctsk # t
    BY <1>6
  <2>3. recalc => /\ Highest(st2.k.tcb[t].priority, held[t].bpriority, mtxcb, L)
                  /\ st2.h[t].boosted <=> L # {}
    BY <1>7, <1>8
  <2>4. ~recalc => /\ st2.k.tcb[t].priority = c.priority
                   /\ st2.h[t].boosted <=> held[t].boosted
    BY <1>7, <1>8
  <2>5. QED
    <3>1. /\ mtxcb[m].mtxatr = "TA_CEILING" /\ mtxcb[m].ceilpri = c.priority =>
                /\ Highest(st2.k.tcb[t].priority, held[t].bpriority, mtxcb, L)
                /\ st2.h[t].boosted <=> L # {}
          /\ ~(mtxcb[m].mtxatr = "TA_CEILING" /\ mtxcb[m].ceilpri = c.priority) =>
                st2.k.tcb[t].priority = c.priority /\ (st2.h[t].boosted <=> held[t].boosted)
      BY <2>3, <2>4 DEF recalc
    <3>2. /\ IsInjective(st2.h[t].lastmtx) /\ st2.h[t].bpriority = held[t].bpriority
          /\ Range(st2.h[t].lastmtx) = Range(held[t].lastmtx) \ {m}
      BY <1>8
    <3>3. mtxcb[m].p_loctsk = t
      OBVIOUS
    <3>4. L = OtherCeilings(mtxcb, m, t)
      BY DEF L
    <3>5. st2.k.tcb[t].tstat = c.tstat /\ st2.k.tcb[t].p_wobjcb = c.p_wobjcb
      BY <1>9
    <3>6. QED
      BY <2>1, <2>2, <1>10, <3>1, <3>2, <3>3, <3>4, <3>5 DEF Loses
<1>12. TaskOk(st2.k.tcb[t], st2.h[t], cb2, t)
  BY <1>1, <1>11, TaskDrops DEF c
<1>13. QED
  BY <1>8, <1>9, <1>12 DEF c, HolderDropped

\* The control blocks of the mutexes after a change of one that keeps the list
\* of the free ones.
LEMMA BlocksKept ==
    ASSUME WaitAssumption, MtxAssumption, MtxInv, NEW m \in Mtx, Exists(m),
           NEW b \in MTXCB, b.mtxatr = mtxcb[m].mtxatr,
           mtxcb' = [mtxcb EXCEPT ![m] = b], free_mtxcb' = free_mtxcb
    PROVE  /\ mtxcb' \in [Mtx -> MTXCB] /\ free_mtxcb' \in Seq(DynamicMtx) /\ IsInjective(free_mtxcb')
           /\ \A n \in Mtx : mtxcb'[n] = IF n = m THEN b ELSE mtxcb[n]
           /\ \A n \in Mtx : mtxcb'[n].p_loctsk # NULL => mtxcb'[n].mtxatr # "TA_NOEXS"
           /\ \A n \in Mtx : n \in Range(free_mtxcb') <=> mtxcb'[n].mtxatr = "TA_NOEXS"
<1>1. mtxcb \in [Mtx -> MTXCB]
  BY MtxFacts
<1>2. mtxcb' \in [Mtx -> MTXCB] /\ \A n \in Mtx : mtxcb'[n] = IF n = m THEN b ELSE mtxcb[n]
  BY <1>1
<1>3. free_mtxcb' \in Seq(DynamicMtx) /\ IsInjective(free_mtxcb')
  BY MtxFacts
<1>4. \A n \in Mtx : /\ mtxcb[n].p_loctsk # NULL => mtxcb[n].mtxatr # "TA_NOEXS"
                     /\ n \in Range(free_mtxcb) <=> mtxcb[n].mtxatr = "TA_NOEXS"
  BY DEF MtxInv, Exists
<1>5. mtxcb[m].mtxatr # "TA_NOEXS"
  BY DEF Exists
<1>6. QED
  BY <1>2, <1>3, <1>4, <1>5

LEMMA UnlMtx ==
    ASSUME WaitAssumption, MtxAssumption, MtxInv, NEW t \in Tsk, NEW m \in Mtx, unl_mtx(t, m)
    PROVE  MtxInv' /\ PassedToFirst
<1>. DEFINE q   == Tail(held[t].lastmtx)
            b   == [mtxcb[m] EXCEPT !.p_loctsk = NextHolder(ker, m)]
            st1 == [State EXCEPT !.h[t].lastmtx = Tail(@)]
            st2 == IF MTX_CEILING(m) THEN mutex_drop_priority(st1, t, mtxcb[m].ceilpri) ELSE st1
            st3 == mutex_release(st2, m)
<1>1. /\ Executes(t) /\ Exists(m) /\ held[t].lastmtx # << >> /\ m = Head(held[t].lastmtx)
      /\ Becomes(st3) /\ mtxcb' = [mtxcb EXCEPT ![m] = b] /\ free_mtxcb' = free_mtxcb
  BY DEF unl_mtx
<1>2. /\ held[t] \in HELD /\ mtxcb[m] \in MTXCB /\ TaskOk(ker.tcb[t], held[t], mtxcb, t)
      /\ mtxcb \in [Mtx -> MTXCB] /\ held \in [Tsk -> HELD] /\ WaitOk(ker)
      /\ m \in WaitQueue
  BY MtxFacts
<1>3. /\ q \in Seq(Mtx) /\ IsInjective(q) /\ Range(q) = Range(held[t].lastmtx) \ {m}
      /\ m \in Range(held[t].lastmtx)
  <2>1. held[t].lastmtx \in Seq(Mtx) /\ IsInjective(held[t].lastmtx)
    BY <1>2 DEF HELD, TaskOk, ListOk
  <2>2. QED
    BY <1>1, <2>1, TailFacts
<1>4. mtxcb[m].p_loctsk = t
  BY <1>2, <1>3 DEF TaskOk, ListOk
<1>5. ker.tcb[t].p_wobjcb = NULL
  BY <1>1, ExecutingFacts
<1>6. st1.k = ker /\ WithList(st1.h, t, q)
  <2>1. st1.k = ker /\ st1.h = [held EXCEPT ![t].lastmtx = q]
    BY <1>2 DEF State
  <2>2. QED
    BY <2>1, <1>2, <1>3, ListChanged
<1>7. /\ NextHolder(ker, m) \in Tsk \cup {NULL} /\ NextHolder(ker, m) # t
      /\ ker.wait[m] # << >> => /\ NextHolder(ker, m) = Head(ker.wait[m])
                                /\ NextHolder(ker, m) \in Tsk
                                /\ ker.tcb[NextHolder(ker, m)].p_wobjcb = m
      /\ ker.wait[m] = << >> => NextHolder(ker, m) = NULL
  <2>1. CASE ker.wait[m] = << >>
    BY <2>1, MtxFacts DEF NextHolder
  <2>2. CASE ker.wait[m] # << >>
    <3>1. PICK u : u = Head(ker.wait[m])
      OBVIOUS
    <3>2. u \in Tsk /\ ker.tcb[u].p_wobjcb = m
      BY <1>2, <2>2, <3>1, FirstWaits
    <3>3. u # t
      BY <3>2, <1>5, MtxFacts
    <3>4. QED
      BY <2>2, <3>1, <3>2, <3>3 DEF NextHolder
  <2>3. QED
    BY <2>1, <2>2
<1>8. /\ b \in MTXCB /\ b.p_loctsk = NextHolder(ker, m) /\ b.mtxatr = mtxcb[m].mtxatr
      /\ b.ceilpri = mtxcb[m].ceilpri
  BY <1>2, <1>7 DEF MTXCB
<1>9. /\ mtxcb' \in [Mtx -> MTXCB] /\ free_mtxcb' \in Seq(DynamicMtx) /\ IsInjective(free_mtxcb')
      /\ \A n \in Mtx : mtxcb'[n] = IF n = m THEN b ELSE mtxcb[n]
      /\ \A n \in Mtx : mtxcb'[n].p_loctsk # NULL => mtxcb'[n].mtxatr # "TA_NOEXS"
      /\ \A n \in Mtx : n \in Range(free_mtxcb') <=> mtxcb'[n].mtxatr = "TA_NOEXS"
  BY <1>1, <1>8, BlocksKept
<1>10. ker' = st3.k /\ held' = st3.h /\ st3 = mutex_release(st2, m)
  BY <1>1 DEF Becomes
<1>11. DropsFor(st1, st2, t, m)
  BY DEF DropsFor
<1>. HIDE DEF q, b, st1, st2, st3
<1>12. /\ st2.h \in [Tsk -> HELD] /\ \A u \in Tsk : u # t => st2.h[u] = held[u]
       /\ WaitOk(st2.k) /\ OthersKept(ker, st2.k, t)
       /\ \A w \in WaitQueue : w # ker.tcb[t].p_wobjcb => st2.k.wait[w] = ker.wait[w]
       /\ st2.k.tcb[t].p_wobjcb = ker.tcb[t].p_wobjcb
       /\ TaskOk(st2.k.tcb[t], st2.h[t], mtxcb', t)
  <2>1. b.p_loctsk # t /\ mtxcb' = [mtxcb EXCEPT ![m] = b]
    BY <1>1, <1>7, <1>8
  <2>2. WaitOk(st1.k) /\ st1.k.tcb[t] = ker.tcb[t]
    BY <1>2, <1>6
  <2>3. HolderDropped(st1, st2, mtxcb', t)
    <3>1. PICK cb2 : cb2 = mtxcb'
      OBVIOUS
    <3>2. cb2 = [mtxcb EXCEPT ![m] = b]
      BY <3>1, <2>1
    <3>3. HolderDropped(st1, st2, cb2, t)
      BY <3>2, <2>1, <2>2, <1>3, <1>4, <1>6, <1>11, DropsHolder
    <3>4. QED
      BY <3>1, <3>3
  <2>4. QED
    BY <2>3, <1>6 DEF HolderDropped
<1>13. \A w \in WaitQueue : st2.k.wait[w] = ker.wait[w]
  BY <1>5, <1>12 DEF WaitAssumption
<1>14. ASSUME NEW u \in Tsk, u # t, u # NextHolder(ker, m)
       PROVE  TaskOk(ker.tcb[u], held[u], mtxcb', u)
  <2>1. ker.tcb[u].p_wobjcb = m => ker.wait[m] # << >>
    <3>1. QueueOk(ker, m)
      BY <1>2 DEF WaitOk
    <3>2. ker.wait[m] = << >> => Range(ker.wait[m]) = {}
      BY DEF Range
    <3>3. QED
      BY <3>1, <3>2 DEF QueueOk
  <2>2. TaskOk(ker.tcb[u], held[u], mtxcb, u) /\ u # NULL
    BY MtxFacts
  <2>3. ker.tcb[u].p_wobjcb = m => b.p_loctsk # NULL /\ b.p_loctsk # u
    BY <2>1, <1>7, <1>8, <1>14, MtxFacts
  <2>4. b.p_loctsk = u <=> mtxcb[m].p_loctsk = u
    BY <1>4, <1>8, <1>14
  <2>5. /\ mtxcb' = [mtxcb EXCEPT ![m] = b] /\ mtxcb \in [Mtx -> MTXCB]
        /\ b.mtxatr = mtxcb[m].mtxatr /\ b.ceilpri = mtxcb[m].ceilpri
    BY <1>1, <1>2, <1>8
  <2>6. Calmer(ker.tcb[u], ker.tcb[u])
    BY SameCalmer
  <2>7. QED
    BY <2>2, <2>3, <2>4, <2>5, <2>6, OneMutex
<1>15. CASE ker.wait[m] = << >>
  <2>1. ker' = st2.k /\ held' = st2.h
    BY <1>10, <1>13, <1>15, <1>2 DEF mutex_release
  <2>2. ASSUME NEW u \in Tsk
        PROVE  TaskOk(ker'.tcb[u], held'[u], mtxcb', u)
    <3>1. u # NextHolder(ker, m)
      BY <1>7, <1>15, MtxFacts
    <3>2. CASE u = t
      BY <2>1, <3>2, <1>12
    <3>3. CASE u # t
      <4>1. ker'.tcb[u] = ker.tcb[u] /\ held'[u] = held[u]
        BY <2>1, <3>3, <1>12 DEF OthersKept
      <4>2. QED
        BY <3>1, <3>3, <4>1, <1>14
    <3>4. QED
      BY <3>2, <3>3
  <2>3. MtxInv'
    BY <2>1, <2>2, <1>9, <1>12, MtxStep
  <2>4. PassedToFirst
    BY <2>1, <1>2, <1>7, <1>8, <1>9, <1>13, <1>15 DEF PassedToFirst
  <2>5. QED
    BY <2>3, <2>4
<1>16. CASE ker.wait[m] # << >>
  <2>. DEFINE u  == Head(ker.wait[m])
              d  == Tail(ker.wait[m])
              c  == TakesOver(st2.k.tcb[u], m)
              hu == Gets(held[u], m)
  <2>1. /\ u \in Tsk /\ u = NextHolder(ker, m) /\ u # t /\ ker.tcb[u].p_wobjcb = m
    BY <1>7, <1>16
  <2>2. /\ st3.k = [st2.k EXCEPT !.wait[m] = d, !.tcb[u] = c]
        /\ st3.h = [st2.h EXCEPT ![u] = Gets(st2.h[u], m)]
    <3>1. st2.k.wait[m] = ker.wait[m]
      BY <1>2, <1>13
    <3>2. QED
      BY <3>1, <1>10, <1>16 DEF mutex_release
  <2>3. st2.k.tcb[u] = ker.tcb[u] /\ st2.h[u] = held[u]
    BY <2>1, <1>12 DEF OthersKept
  <2>4. /\ held[u] \in HELD /\ ker.tcb[u] \in TCB /\ TcbOk(ker.tcb[u]) /\ "WAITING" \in ker.tcb[u].tstat
        /\ TaskOk(ker.tcb[u], held[u], mtxcb, u) /\ 1 \in 1 .. Len(ker.wait[m])
        /\ ker.wait[m][1] = u /\ d \in Seq(Tsk) /\ Removed(ker.wait[m], 1, d)
    <3>. HIDE DEF c, hu
    <3>1. u = Head(ker.wait[m]) /\ d = Tail(ker.wait[m])
      OBVIOUS
    <3>. HIDE DEF u, d
    <3>2. QED
      BY <2>1, <3>1, <1>2, <1>16, FirstWaits, MtxFacts
  <2>5. /\ c \in TCB /\ TcbOk(c) /\ c.p_wobjcb = NULL /\ c.tstat # {}
        /\ c.priority = AsHolder(ker.tcb[u].priority, mtxcb[m])
    <3>. DEFINE p == PriorityAsHolder(ker.tcb[u].priority, m)
    <3>1. p \in Pri /\ p = AsHolder(ker.tcb[u].priority, mtxcb[m])
      BY <1>2, <2>4 DEF PriorityAsHolder, AsHolder, MTX_CEILING, TCB, MTXCB
    <3>2. c = EndedTcb([ker.tcb[u] EXCEPT !.priority = p], "E_OK")
      BY <2>3, <2>4 DEF TakesOver, TCB
    <3>. HIDE DEF p, c, u
    <3>3. PICK ercd \in Ercd : ercd = "E_OK"
      BY DEF Ercd
    <3>4. c = EndedTcb([ker.tcb[u] EXCEPT !.priority = p], ercd)
      BY <3>2, <3>3
    <3>5. QED
      BY <3>1, <3>4, <2>4, EndedFacts
  <2>6. /\ hu \in HELD /\ hu.bpriority = held[u].bpriority /\ hu.lastmtx = Pushed(held[u], m)
        /\ hu.boosted <=> held[u].boosted \/ mtxcb[m].mtxatr = "TA_CEILING"
    <3>1. <<m>> \o held[u].lastmtx \in Seq(Mtx)
      BY <2>4 DEF HELD
    <3>. DEFINE g == held[u].boosted \/ MTX_CEILING(m)
    <3>2. hu = [held[u] EXCEPT !.lastmtx = Pushed(held[u], m), !.boosted = g]
      BY DEF Gets, Pushed
    <3>3. g \in BOOLEAN /\ (g <=> held[u].boosted \/ mtxcb[m].mtxatr = "TA_CEILING")
      BY DEF MTX_CEILING
    <3>4. Pushed(held[u], m) \in Seq(Mtx)
      BY <3>1 DEF Pushed
    <3>. HIDE DEF g, hu, u
    <3>5. /\ hu \in HELD /\ hu.bpriority = held[u].bpriority /\ hu.lastmtx = Pushed(held[u], m)
          /\ hu.boosted = g
      BY <2>4, <3>2, <3>3, <3>4 DEF HELD
    <3>6. QED
      BY <3>3, <3>5
  <2>. HIDE DEF c, hu
  <2>7. held' = [st2.h EXCEPT ![u] = hu]
    BY <2>2, <2>3, <1>10 DEF hu
  <2>8. /\ held' \in [Tsk -> HELD] /\ held'[u] = hu
        /\ \A v \in Tsk : v # u => held'[v] = st2.h[v]
    BY <2>1, <2>6, <2>7, <1>12
  <2>9. /\ WaitOk(ker') /\ TcbOnly(st2.k, ker', u, c) /\ ker'.wait[m] = d
    <3>. DEFINE k1 == SetWait(st2.k, m, d)
                k2 == SetTcb(k1, u, c)
    <3>1. k2 = ker'
      BY <2>2, <1>10 DEF SetWait, SetTcb
    <3>2. /\ k1 = SetWait(st2.k, m, d) /\ k2 = SetTcb(k1, u, c)
          /\ st2.k.wait[m] = ker.wait[m]
      BY <1>2, <1>13
    <3>. HIDE DEF k1, k2, u, d
    <3>3. WaitOk(k2) /\ TcbOnly(st2.k, k2, u, c) /\ k2.wait[m] = d
      <4>1. PICK i \in 1 .. Len(st2.k.wait[m]) : i = 1
        BY <2>4, <3>2
      <4>2. u = st2.k.wait[m][i] /\ Removed(st2.k.wait[m], i, d)
        BY <2>4, <3>2, <4>1
      <4>3. QED
        BY <3>2, <4>2, <1>2, <1>12, <2>4, <2>5, ReleasesWaiter, SMTT(30)
    <3>4. QED
      BY <3>1, <3>3
  <2>10. Acquires(ker.tcb[u], ker'.tcb[u], held[u], held'[u], mtxcb, mtxcb', m, u)
    <3>1. OtherMutexes(mtxcb, mtxcb', m, u)
      BY <1>9 DEF OtherMutexes
    <3>2. ker'.tcb[u] = c
      BY <2>9 DEF TcbOnly
    <3>3. mtxcb[m].p_loctsk # u
      BY <2>1, <1>4
    <3>4. mtxcb[m].mtxatr = "TA_CEILING" => held[u].bpriority >= mtxcb[m].ceilpri
      BY <2>1, <2>4 DEF TaskOk, CeilingOk
    <3>5. /\ mtxcb'[m].p_loctsk = u /\ mtxcb'[m].mtxatr = mtxcb[m].mtxatr
          /\ mtxcb'[m].ceilpri = mtxcb[m].ceilpri
      BY <2>1, <1>8, <1>9
    <3>. HIDE DEF u
    <3>6. QED
      BY <3>1, <3>2, <3>3, <3>4, <3>5, <2>5, <2>6, <2>8 DEF Acquires
  <2>11. ASSUME NEW v \in Tsk
         PROVE  TaskOk(ker'.tcb[v], held'[v], mtxcb', v)
    <3>. HIDE DEF u, d
    <3>1. CASE v = u
      BY <3>1, <2>1, <2>4, <2>10, <1>2, TaskGets
    <3>2. CASE v = t
      <4>1. ker'.tcb[t] = st2.k.tcb[t] /\ held'[t] = st2.h[t]
        BY <2>1, <2>8, <2>9 DEF TcbOnly, OthersKept
      <4>2. QED
        BY <3>2, <4>1, <1>12
    <3>3. CASE v # u /\ v # t
      <4>1. ker'.tcb[v] = ker.tcb[v] /\ held'[v] = held[v]
        BY <3>3, <2>8, <2>9, <1>12 DEF TcbOnly, OthersKept
      <4>2. QED
        BY <3>3, <4>1, <2>1, <1>14
    <3>4. QED
      BY <3>1, <3>2, <3>3
  <2>12. MtxInv'
    BY <2>8, <2>9, <2>11, <1>9, MtxStep
  <2>13. PassedToFirst
    <3>1. DOMAIN mtxcb = Mtx
      BY <1>2
    <3>2. mtxcb'[m].p_loctsk = u /\ ker'.wait[m] = d /\ \A n \in Mtx : n # m => mtxcb'[n] = mtxcb[n]
      BY <2>1, <2>9, <1>8, <1>9
    <3>3. u # NULL
      BY <2>1, MtxFacts
    <3>4. QED
      BY <3>1, <3>2, <3>3, <1>16 DEF PassedToFirst
  <2>14. QED
    BY <2>12, <2>13
<1>17. QED
  BY <1>15, <1>16

\* del_mtx and ini_mtx: what happens to the tasks.
LEMMA InitsMutex ==
    ASSUME WaitAssumption, MtxAssumption, MtxInv, NEW m \in Mtx, Exists(m),
           Becomes(InitMutex(m)), NEW b \in MTXCB, b.p_loctsk = NULL,
           mtxcb' = [mtxcb EXCEPT ![m] = b]
    PROVE  /\ WaitOk(ker') /\ held' \in [Tsk -> HELD] /\ ker'.wait[m] = << >>
           /\ \A u \in Tsk : TaskOk(ker'.tcb[u], held'[u], mtxcb', u)
<1>. DEFINE t   == mtxcb[m].p_loctsk
            k1  == InitWaitQueue(ker, m)
            q   == QueueDelete(held[t].lastmtx, m)
            st1 == [k |-> k1, h |-> held]
            st2 == [st1 EXCEPT !.h[t].lastmtx = QueueDelete(@, m)]
            st3 == InitMutex(m)
<1>1. /\ mtxcb \in [Mtx -> MTXCB] /\ held \in [Tsk -> HELD] /\ WaitOk(ker)
      /\ m \in WaitQueue /\ NULL \notin Tsk /\ NULL \notin Mtx /\ ker.tcb \in [Tsk -> TCB]
      /\ \A u \in Tsk : TaskOk(ker.tcb[u], held[u], mtxcb, u)
  BY MtxFacts
<1>2. t \in Tsk \cup {NULL}
  BY <1>1 DEF MTXCB
<1>3. WaitOk(k1) /\ k1.wait[m] = << >>
  BY <1>1, InitsQueue
<1>4. ASSUME NEW u \in Tsk
      PROVE  /\ Calmer(ker.tcb[u], k1.tcb[u]) /\ k1.tcb[u].p_wobjcb # m
             /\ ker.tcb[u].p_wobjcb # m => k1.tcb[u] = ker.tcb[u]
  <2>1. k1.tcb[u] = IF ker.tcb[u].p_wobjcb = m THEN EndedTcb(ker.tcb[u], "E_DLT") ELSE ker.tcb[u]
    BY <1>1, InitedTcb
  <2>2. EndedTcb(ker.tcb[u], "E_DLT").p_wobjcb = NULL
    BY <1>1 DEF EndedTcb, TCB
  <2>3. Calmer(ker.tcb[u], EndedTcb(ker.tcb[u], "E_DLT")) /\ Calmer(ker.tcb[u], ker.tcb[u])
    BY <1>1, EndCalmer, SameCalmer
  <2>4. QED
    BY <1>1, <2>1, <2>2, <2>3
<1>5. ASSUME NEW u \in Tsk, u # t
      PROVE  TaskOk(k1.tcb[u], held[u], mtxcb', u)
  <2>1. TaskOk(ker.tcb[u], held[u], mtxcb, u) /\ u # NULL
    BY <1>1
  <2>2. Calmer(ker.tcb[u], k1.tcb[u]) /\ k1.tcb[u].p_wobjcb # m
    BY <1>4
  <2>3. ~(b.p_loctsk = u) /\ ~(mtxcb[m].p_loctsk = u)
    BY <1>5, <2>1
  <2>. HIDE DEF t, k1
  <2>4. mtxcb' = [mtxcb EXCEPT ![m] = b] /\ mtxcb \in [Mtx -> MTXCB]
    BY <1>1
  <2>5. QED
    BY <2>1, <2>2, <2>3, <2>4, OneMutex
<1>6. ker' = st3.k /\ held' = st3.h
  BY DEF Becomes
<1>7. CASE t = NULL
  <2>1. ker' = k1 /\ held' = held
    BY <1>6, <1>7 DEF InitMutex
  <2>2. QED
    BY <2>1, <1>1, <1>3, <1>5, <1>7
<1>8. CASE t # NULL
  <2>1. t \in Tsk /\ ker.tcb[t].p_wobjcb # m
    BY <1>1, <1>2, <1>8 DEF TaskOk, AwaitsOk
  <2>2. /\ held[t].lastmtx \in Seq(Mtx) /\ IsInjective(held[t].lastmtx)
        /\ m \in Range(held[t].lastmtx)
    BY <1>1, <2>1 DEF HELD, TaskOk, ListOk
  <2>3. /\ q \in Seq(Mtx) /\ IsInjective(q) /\ Range(q) = Range(held[t].lastmtx) \ {m}
    <3>1. \A s : ToSet(s) = Range(s)
      BY DEF ToSet, Range
    <3>2. PICK s \in Seq(Mtx) : s = held[t].lastmtx
      BY <2>2
    <3>3. /\ QueueDelete(s, m) \in Seq(Mtx) /\ IsInjective(QueueDelete(s, m))
          /\ ToSet(QueueDelete(s, m)) = ToSet(s) \ {m}
      BY <2>2, <3>1, <3>2, DeleteFacts
    <3>4. q = QueueDelete(s, m)
      BY <3>2
    <3>. HIDE DEF q
    <3>5. QED
      BY <3>1, <3>2, <3>3, <3>4
  <2>4. st2.k = k1 /\ st2.h = [held EXCEPT ![t].lastmtx = q]
    BY <1>1, <2>1
  <2>. HIDE DEF q
  <2>5. WithList(st2.h, t, q)
    BY <2>1, <2>3, <2>4, <1>1, ListChanged
  <2>6. DropsFor(st2, st3, t, m)
    BY <1>8 DEF InitMutex, DropsFor
  <2>7. k1.tcb[t] = ker.tcb[t]
    BY <1>4, <2>1
  <2>8. mtxcb[m].p_loctsk = t
    OBVIOUS
  <2>. HIDE DEF t, k1, st1, st2, st3
  <2>9. HolderDropped(st2, st3, mtxcb', t)
    <3>1. PICK cb2 : cb2 = mtxcb'
      OBVIOUS
    <3>2. cb2 = [mtxcb EXCEPT ![m] = b]
      BY <3>1
    <3>3. b.p_loctsk # t /\ WaitOk(st2.k) /\ st2.k.tcb[t] = ker.tcb[t]
      BY <1>3, <1>8, <2>4, <2>7
    <3>4. HolderDropped(st2, st3, cb2, t)
      BY <3>2, <3>3, <2>1, <2>3, <2>5, <2>6, <2>8, DropsHolder
    <3>5. QED
      BY <3>1, <3>4
  <2>10. WaitOk(ker') /\ held' \in [Tsk -> HELD]
    BY <1>6, <2>9 DEF HolderDropped
  <2>11. ker'.wait[m] = << >>
    BY <1>1, <1>3, <1>6, <2>1, <2>4, <2>9 DEF HolderDropped
  <2>12. ASSUME NEW u \in Tsk
         PROVE  TaskOk(ker'.tcb[u], held'[u], mtxcb', u)
    <3>1. CASE u = t
      BY <3>1, <1>6, <2>9 DEF HolderDropped
    <3>2. CASE u # t
      <4>1. ker'.tcb[u] = k1.tcb[u] /\ held'[u] = held[u]
        BY <3>2, <1>6, <2>4, <2>9 DEF HolderDropped, OthersKept
      <4>2. QED
        BY <3>2, <4>1, <1>5
    <3>3. QED
      BY <3>1, <3>2
  <2>13. QED
    BY <2>10, <2>11, <2>12
<1>9. QED
  BY <1>7, <1>8

LEMMA IniMtx ==
    ASSUME WaitAssumption, MtxAssumption, MtxInv, NEW m \in Mtx, ini_mtx(m)
    PROVE  MtxInv' /\ PassedToFirst
<1>. DEFINE b == [mtxcb[m] EXCEPT !.p_loctsk = NULL]
<1>1. /\ Exists(m) /\ Becomes(InitMutex(m)) /\ mtxcb' = [mtxcb EXCEPT ![m] = b]
      /\ free_mtxcb' = free_mtxcb
  BY DEF ini_mtx
<1>2. mtxcb \in [Mtx -> MTXCB] /\ mtxcb[m] \in MTXCB
  BY MtxFacts
<1>3. b \in MTXCB /\ b.p_loctsk = NULL /\ b.mtxatr = mtxcb[m].mtxatr
  BY <1>2 DEF MTXCB
<1>. HIDE DEF b
<1>4. /\ WaitOk(ker') /\ held' \in [Tsk -> HELD] /\ ker'.wait[m] = << >>
      /\ \A u \in Tsk : TaskOk(ker'.tcb[u], held'[u], mtxcb', u)
  BY <1>1, <1>3, InitsMutex
<1>5. /\ mtxcb' \in [Mtx -> MTXCB] /\ free_mtxcb' \in Seq(DynamicMtx) /\ IsInjective(free_mtxcb')
      /\ \A n \in Mtx : mtxcb'[n] = IF n = m THEN b ELSE mtxcb[n]
      /\ \A n \in Mtx : mtxcb'[n].p_loctsk # NULL => mtxcb'[n].mtxatr # "TA_NOEXS"
      /\ \A n \in Mtx : n \in Range(free_mtxcb') <=> mtxcb'[n].mtxatr = "TA_NOEXS"
  BY <1>1, <1>3, BlocksKept
<1>6. MtxInv'
  BY <1>4, <1>5, MtxStep
<1>7. PassedToFirst
  BY <1>2, <1>3, <1>4, <1>5 DEF PassedToFirst
<1>8. QED
  BY <1>6, <1>7

LEMMA DelMtx ==
    ASSUME WaitAssumption, MtxAssumption, MtxInv, NEW m \in Mtx, del_mtx(m)
    PROVE  MtxInv' /\ PassedToFirst
<1>. DEFINE b == [mtxcb[m] EXCEPT !.mtxatr = "TA_NOEXS", !.p_loctsk = NULL]
<1>1. /\ Exists(m) /\ m \in DynamicMtx /\ Becomes(InitMutex(m)) /\ free_mtxcb' = Append(free_mtxcb, m)
      /\ mtxcb' = [mtxcb EXCEPT ![m].mtxatr = "TA_NOEXS", ![m].p_loctsk = NULL]
  BY DEF del_mtx, QueueInsertPrev
<1>2. mtxcb \in [Mtx -> MTXCB] /\ mtxcb[m] \in MTXCB
  BY MtxFacts
<1>3. mtxcb' = [mtxcb EXCEPT ![m] = b]
  BY <1>1, <1>2
<1>4. b \in MTXCB /\ b.p_loctsk = NULL /\ b.mtxatr = "TA_NOEXS"
  BY <1>2 DEF MTXCB
<1>. HIDE DEF b
<1>5. /\ WaitOk(ker') /\ held' \in [Tsk -> HELD] /\ ker'.wait[m] = << >>
      /\ \A u \in Tsk : TaskOk(ker'.tcb[u], held'[u], mtxcb', u)
  BY <1>1, <1>3, <1>4, InitsMutex
<1>6. mtxcb' \in [Mtx -> MTXCB] /\ \A n \in Mtx : mtxcb'[n] = IF n = m THEN b ELSE mtxcb[n]
  BY <1>2, <1>3, <1>4
<1>7. /\ free_mtxcb \in Seq(DynamicMtx) /\ IsInjective(free_mtxcb)
      /\ \A n \in Mtx : mtxcb[n].p_loctsk # NULL => mtxcb[n].mtxatr # "TA_NOEXS"
      /\ \A n \in Mtx : n \in Range(free_mtxcb) <=> mtxcb[n].mtxatr = "TA_NOEXS"
  BY MtxFacts DEF MtxInv, Exists
<1>8. m \notin Range(free_mtxcb)
  BY <1>1, <1>7 DEF Exists
<1>9. /\ free_mtxcb' \in Seq(DynamicMtx) /\ IsInjective(free_mtxcb')
      /\ Range(free_mtxcb') = Range(free_mtxcb) \cup {m}
  BY <1>1, <1>7, <1>8, LastFacts
<1>10. /\ \A n \in Mtx : mtxcb'[n].p_loctsk # NULL => mtxcb'[n].mtxatr # "TA_NOEXS"
       /\ \A n \in Mtx : n \in Range(free_mtxcb') <=> mtxcb'[n].mtxatr = "TA_NOEXS"
  BY <1>4, <1>6, <1>7, <1>9
<1>11. MtxInv'
  BY <1>5, <1>6, <1>9, <1>10, MtxStep
<1>12. PassedToFirst
  BY <1>2, <1>4, <1>5, <1>6 DEF PassedToFirst
<1>13. QED
  BY <1>11, <1>12

\* What mutex_release_all does, and then task_terminate.
Awaited(t)   == {m \in Range(held[t].lastmtx) : ker.wait[m] # << >>}
ReleasedKer(t) == mutex_release_all(State, t).k

LEMMA ReleasesMutexes ==
    ASSUME WaitAssumption, MtxAssumption, MtxInv, NEW t \in Tsk
    PROVE  /\ WaitOk(ReleasedKer(t)) /\ Awaited(t) \in SUBSET Mtx
           /\ \A m \in Mtx : m \in Awaited(t) <=> mtxcb[m].p_loctsk = t /\ ker.wait[m] # << >>
           /\ \A m \in Mtx : ReleasedKer(t).wait[m] = IF m \in Awaited(t) THEN Tail(ker.wait[m])
                                                                          ELSE ker.wait[m]
           /\ \A u \in Tsk : ReleasedKer(t).tcb[u] =
                 IF First(ker, u, Awaited(t)) THEN TakesOver(ker.tcb[u], ker.tcb[u].p_wobjcb)
                                               ELSE ker.tcb[u]
<1>. DEFINE R  == Awaited(t)
            k2 == ReleasedKer(t)
<1>1. /\ WaitOk(ker) /\ ker \in KerType /\ ker.tcb \in [Tsk -> TCB] /\ WaitQueue = Mtx
      /\ mtxcb \in [Mtx -> MTXCB] /\ held \in [Tsk -> HELD] /\ held[t].lastmtx \in Seq(Mtx)
      /\ ListOk(held[t], mtxcb, t)
  BY MtxFacts DEF HELD, TaskOk
<1>2. R \in SUBSET Mtx
  BY <1>1, LenProperties DEF Range, Awaited
<1>3. \A m \in Mtx : m \in R <=> mtxcb[m].p_loctsk = t /\ ker.wait[m] # << >>
  BY <1>1 DEF Awaited, ListOk
<1>4. k2 = [ker EXCEPT
                  !.wait = [m \in Mtx |-> IF m \in R THEN Tail(ker.wait[m]) ELSE ker.wait[m]],
                  !.tcb  = [u \in Tsk |-> IF First(ker, u, R)
                                            THEN TakesOver(ker.tcb[u], ker.tcb[u].p_wobjcb)
                                            ELSE ker.tcb[u]]]
  BY <1>1 DEF mutex_release_all, State, Awaited, ReleasedKer, First, KerType
<1>5. ASSUME NEW u \in Tsk, First(ker, u, R)
      PROVE  /\ TakesOver(ker.tcb[u], ker.tcb[u].p_wobjcb) \in TCB
             /\ TcbOk(TakesOver(ker.tcb[u], ker.tcb[u].p_wobjcb))
             /\ TakesOver(ker.tcb[u], ker.tcb[u].p_wobjcb).p_wobjcb = NULL
  <2>. DEFINE m == ker.tcb[u].p_wobjcb
              p == PriorityAsHolder(ker.tcb[u].priority, m)
              c == TakesOver(ker.tcb[u], m)
  <2>1. m \in Mtx /\ ker.wait[m] # << >> /\ u = Head(ker.wait[m])
    BY <1>2, <1>3, <1>5 DEF First
  <2>2. ker.tcb[u] \in TCB /\ TcbOk(ker.tcb[u]) /\ "WAITING" \in ker.tcb[u].tstat
    BY <2>1, <1>1, FirstWaits
  <2>3. p \in Pri
    BY <1>1, <2>1, <2>2 DEF PriorityAsHolder, TCB, MTXCB
  <2>4. c = EndedTcb([ker.tcb[u] EXCEPT !.priority = p], "E_OK")
    BY <2>2 DEF TakesOver, TCB
  <2>. HIDE DEF p, c
  <2>5. PICK ercd \in Ercd : ercd = "E_OK"
    BY DEF Ercd
  <2>6. c = EndedTcb([ker.tcb[u] EXCEPT !.priority = p], ercd)
    BY <2>4, <2>5
  <2>7. c \in TCB /\ TcbOk(c) /\ c.p_wobjcb = NULL
    BY <2>2, <2>3, <2>6, EndedFacts
  <2>8. QED
    BY <2>7 DEF c
<1>. DEFINE wait2 == [m \in Mtx |-> IF m \in R THEN Tail(ker.wait[m]) ELSE ker.wait[m]]
            tcb2  == [u \in Tsk |-> IF First(ker, u, R)
                                      THEN TakesOver(ker.tcb[u], ker.tcb[u].p_wobjcb)
                                      ELSE ker.tcb[u]]
<1>6. wait2 \in [WaitQueue -> Seq(Tsk)]
  <2>1. ker.wait \in [Mtx -> Seq(Tsk)]
    BY <1>1 DEF KerType
  <2>2. \A m \in R : m \in Mtx /\ ker.wait[m] # << >>
    BY <1>2, <1>3
  <2>. HIDE DEF R
  <2>3. ASSUME NEW m \in Mtx, m \in R
        PROVE  Tail(ker.wait[m]) \in Seq(Tsk)
    <3>1. PICK s \in Seq(Tsk) : s = ker.wait[m]
      BY <2>1
    <3>2. s # << >>
      BY <2>2, <2>3, <3>1
    <3>3. QED
      BY <3>1, <3>2
  <2>4. QED
    BY <1>1, <2>1, <2>3
<1>7. tcb2 \in [Tsk -> TCB]
  BY <1>1, <1>5
<1>8. k2 = [ker EXCEPT !.wait = wait2, !.tcb = tcb2]
  BY <1>4
<1>9. /\ \A m \in Mtx : wait2[m] = IF m \in R THEN Tail(ker.wait[m]) ELSE ker.wait[m]
      /\ \A u \in Tsk : tcb2[u] = IF First(ker, u, R)
                                    THEN TakesOver(ker.tcb[u], ker.tcb[u].p_wobjcb) ELSE ker.tcb[u]
  OBVIOUS
<1>. HIDE DEF k2, wait2, tcb2, R
<1>10. k2 \in KerType /\ k2.wait = wait2 /\ k2.tcb = tcb2 /\ k2.tpri = ker.tpri
  BY <1>1, <1>6, <1>7, <1>8 DEF KerType
<1>11. \A u \in Tsk : IF First(ker, u, R) THEN TcbOk(k2.tcb[u]) /\ k2.tcb[u].p_wobjcb = NULL
                                          ELSE k2.tcb[u] = ker.tcb[u]
  BY <1>5, <1>9, <1>10
<1>12. \A w \in R : ker.wait[w] # << >>
  BY <1>2, <1>3
<1>13. \A w \in WaitQueue : k2.wait[w] = IF w \in R THEN Tail(ker.wait[w]) ELSE ker.wait[w]
  BY <1>1, <1>9, <1>10
<1>14. WaitOk(k2)
  BY <1>1, <1>2, <1>10, <1>11, <1>12, <1>13, ReleasesAll
<1>15. QED
  BY <1>1, <1>2, <1>3, <1>9, <1>10, <1>14 DEF R, k2

LEMMA TerminateMtx ==
    ASSUME WaitAssumption, MtxAssumption, MtxInv, NEW t \in Tsk, terminate(t)
    PROVE  MtxInv' /\ PassedToFirst
<1>. DEFINE R    == Awaited(t)
            k    == ReleasedKer(t)
            W    == WaitDequeueWobj(k, t)
            F(u) == First(ker, u, R)
            wobj(u) == ker.tcb[u].p_wobjcb
<1>1. /\ ker' = [W EXCEPT !.tcb[t] = DormantTcb(t)] /\ free_mtxcb' = free_mtxcb
      /\ held' = [mutex_release_all(State, t).h EXCEPT ![t] = NoMutex(t)]
      /\ mtxcb' = [m \in Mtx |-> IF mtxcb[m].p_loctsk = t
                                   THEN [mtxcb[m] EXCEPT !.p_loctsk = NextHolder(ker, m)]
                                   ELSE mtxcb[m]]
  BY DEF terminate, ReleasedKer
<1>2. /\ WaitOk(ker) /\ ker \in KerType /\ ker.tcb \in [Tsk -> TCB] /\ WaitQueue = Mtx
      /\ mtxcb \in [Mtx -> MTXCB] /\ held \in [Tsk -> HELD] /\ NULL \notin Mtx /\ NULL \notin Tsk
      /\ \A u \in Tsk : TaskOk(ker.tcb[u], held[u], mtxcb, u)
  BY MtxFacts
<1>3. /\ WaitOk(k) /\ R \in SUBSET Mtx
      /\ \A m \in Mtx : m \in R <=> mtxcb[m].p_loctsk = t /\ ker.wait[m] # << >>
      /\ \A m \in Mtx : k.wait[m] = IF m \in R THEN Tail(ker.wait[m]) ELSE ker.wait[m]
      /\ \A u \in Tsk : k.tcb[u] = IF F(u) THEN TakesOver(ker.tcb[u], wobj(u)) ELSE ker.tcb[u]
  BY ReleasesMutexes
<1>4. \A u \in Tsk, m \in Mtx : wobj(u) = m => mtxcb[m].p_loctsk # NULL /\ mtxcb[m].p_loctsk # u
  BY <1>2 DEF TaskOk, AwaitsOk
<1>5. \A u \in Tsk : F(u) <=> wobj(u) \in R /\ Head(ker.wait[wobj(u)]) = u
  BY DEF First
<1>6. ~F(t)
  BY <1>3, <1>4, <1>5
<1>7. \A m \in Mtx : /\ ker.wait[m] = << >> => NextHolder(ker, m) = NULL
                     /\ ker.wait[m] # << >> =>
                           /\ NextHolder(ker, m) = Head(ker.wait[m])
                           /\ NextHolder(ker, m) \in Tsk
                           /\ wobj(NextHolder(ker, m)) = m
  <2>. SUFFICES ASSUME NEW m \in Mtx
                PROVE  /\ ker.wait[m] = << >> => NextHolder(ker, m) = NULL
                       /\ ker.wait[m] # << >> =>
                             /\ NextHolder(ker, m) = Head(ker.wait[m])
                             /\ NextHolder(ker, m) \in Tsk
                             /\ wobj(NextHolder(ker, m)) = m
    OBVIOUS
  <2>1. CASE ker.wait[m] = << >>
    BY <2>1 DEF NextHolder
  <2>2. CASE ker.wait[m] # << >>
    <3>1. PICK u : u = Head(ker.wait[m])
      OBVIOUS
    <3>2. u \in Tsk /\ ker.tcb[u].p_wobjcb = m
      BY <1>2, <2>2, <3>1, FirstWaits
    <3>3. NextHolder(ker, m) = u
      BY <2>2, <3>1 DEF NextHolder
    <3>4. QED
      BY <2>2, <3>1, <3>2, <3>3
  <2>3. QED
    BY <2>1, <2>2
<1>8. k \in KerType /\ W.tcb = k.tcb /\ DOMAIN W = DOMAIN k
  BY <1>3, DequeueTcb DEF WaitOk
<1>9. /\ WaitOk(ker') /\ ker'.tcb[t] = DormantTcb(t) /\ ker'.wait = W.wait
      /\ \A u \in Tsk : u # t => ker'.tcb[u] = k.tcb[u]
  <2>1. ker' = SetTcb(W, t, DormantTcb(t))
    BY <1>1 DEF SetTcb
  <2>2. TaskEffect(k, ker', t)
    BY <1>3, <2>1, TaskTerminate
  <2>3. DOMAIN W = {"tcb", "wait", "tpri"} /\ W.tcb \in [Tsk -> TCB]
    BY <1>8 DEF KerType
  <2>. HIDE DEF W, k
  <2>4. ker'.tcb = [k.tcb EXCEPT ![t] = DormantTcb(t)] /\ ker'.wait = W.wait
    BY <1>1, <1>8, <2>3
  <2>5. QED
    BY <1>8, <2>2, <2>3, <2>4 DEF TaskEffect
<1>10. /\ DOMAIN held' = Tsk /\ held'[t] = NoMutex(t)
       /\ \A u \in Tsk : u # t => held'[u] = IF F(u) THEN Gets(held[u], wobj(u)) ELSE held[u]
  <2>1. mutex_release_all(State, t).h =
           [u \in Tsk |-> IF u = t THEN [held[t] EXCEPT !.lastmtx = << >>]
                          ELSE IF F(u) THEN Gets(held[u], wobj(u)) ELSE held[u]]
    BY DEF mutex_release_all, State, Awaited, First
  <2>. HIDE DEF F, wobj
  <2>2. QED
    BY <1>1, <2>1
<1>11. /\ DOMAIN mtxcb' = Mtx
       /\ \A m \in Mtx : /\ mtxcb'[m] \in MTXCB /\ mtxcb'[m].mtxatr = mtxcb[m].mtxatr
                         /\ mtxcb'[m].ceilpri = mtxcb[m].ceilpri
                         /\ mtxcb[m].p_loctsk = t => mtxcb'[m].p_loctsk = NextHolder(ker, m)
                         /\ mtxcb[m].p_loctsk # t => mtxcb'[m] = mtxcb[m]
  <2>1. DOMAIN mtxcb' = Mtx
    BY <1>1
  <2>2. ASSUME NEW m \in Mtx, mtxcb[m].p_loctsk = t
        PROVE  /\ mtxcb'[m] \in MTXCB /\ mtxcb'[m].mtxatr = mtxcb[m].mtxatr
               /\ mtxcb'[m].ceilpri = mtxcb[m].ceilpri
               /\ mtxcb'[m].p_loctsk = NextHolder(ker, m)
    <3>1. PICK u : u = NextHolder(ker, m)
      OBVIOUS
    <3>2. u \in Tsk \cup {NULL}
      BY <1>7, <3>1
    <3>3. mtxcb'[m] = [mtxcb[m] EXCEPT !.p_loctsk = u] /\ mtxcb[m] \in MTXCB
      BY <1>1, <1>2, <2>2, <3>1
    <3>4. QED
      BY <3>1, <3>2, <3>3 DEF MTXCB
  <2>3. ASSUME NEW m \in Mtx, mtxcb[m].p_loctsk # t
        PROVE  mtxcb'[m] = mtxcb[m] /\ mtxcb'[m] \in MTXCB
    BY <1>1, <1>2, <2>3
  <2>4. QED
    BY <2>1, <2>2, <2>3
<1>. HIDE DEF R, k, W
<1>12. \A m \in Mtx, u \in Tsk : u # t =>
          /\ mtxcb'[m].p_loctsk = u <=> mtxcb[m].p_loctsk = u \/ (F(u) /\ wobj(u) = m)
          /\ wobj(u) = m => mtxcb'[m].p_loctsk # NULL
  <2>. SUFFICES ASSUME NEW m \in Mtx, NEW u \in Tsk, u # t
                PROVE  /\ mtxcb'[m].p_loctsk = u <=> mtxcb[m].p_loctsk = u \/ (F(u) /\ wobj(u) = m)
                       /\ wobj(u) = m => mtxcb'[m].p_loctsk # NULL
    OBVIOUS
  <2>. HIDE DEF F, wobj
  <2>1. wobj(u) = m => ker.wait[m] # << >>
    <3>1. QueueOk(ker, m)
      BY <1>2 DEF WaitOk
    <3>2. ker.wait[m] = << >> => Range(ker.wait[m]) = {}
      BY DEF Range
    <3>3. QED
      BY <3>1, <3>2 DEF QueueOk, wobj
  <2>2. CASE mtxcb[m].p_loctsk # t
    BY <2>2, <1>3, <1>4, <1>5, <1>11, <1>2
  <2>3. CASE mtxcb[m].p_loctsk = t
    <3>1. mtxcb'[m].p_loctsk = NextHolder(ker, m)
      BY <2>3, <1>11
    <3>2. NextHolder(ker, m) = u <=> F(u) /\ wobj(u) = m
      <4>1. CASE ker.wait[m] = << >>
        BY <4>1, <2>1, <1>7, <1>2
      <4>2. CASE ker.wait[m] # << >>
        <5>1. NextHolder(ker, m) = Head(ker.wait[m]) /\ wobj(NextHolder(ker, m)) = m /\ m \in R
          BY <4>2, <2>3, <1>3, <1>7
        <5>2. QED
          BY <5>1, <1>5
      <4>3. QED
        BY <4>1, <4>2
    <3>3. QED
      BY <3>1, <3>2, <2>1, <2>3, <1>7, <1>2
  <2>4. QED
    BY <2>2, <2>3
<1>13. ASSUME NEW u \in Tsk, u # t, F(u)
       PROVE  held'[u] \in HELD /\ TaskOk(ker'.tcb[u], held'[u], mtxcb', u)
  <2>. DEFINE m  == wobj(u)
              b  == ker.tcb[u]
              p  == PriorityAsHolder(b.priority, m)
              c  == TakesOver(b, m)
              hu == Gets(held[u], m)
  <2>1. /\ m \in Mtx /\ m \in R /\ ker.wait[m] # << >> /\ u = Head(ker.wait[m])
        /\ mtxcb[m].p_loctsk = t
    BY <1>3, <1>5, <1>13
  <2>2. ker'.tcb[u] = c /\ held'[u] = hu
    BY <1>3, <1>9, <1>10, <1>13
  <2>3. b \in TCB /\ TcbOk(b) /\ "WAITING" \in b.tstat
    BY <2>1, <1>2, FirstWaits
  <2>4. p \in Pri /\ p = AsHolder(b.priority, mtxcb[m])
    BY <1>2, <2>1, <2>3 DEF PriorityAsHolder, AsHolder, MTX_CEILING, TCB, MTXCB
  <2>5. c = EndedTcb([b EXCEPT !.priority = p], "E_OK")
    BY <2>3 DEF TakesOver, TCB
  <2>6. held[u] \in HELD /\ TaskOk(b, held[u], mtxcb, u)
    BY <1>2
  <2>. DEFINE g == held[u].boosted \/ MTX_CEILING(m)
  <2>7. hu = [held[u] EXCEPT !.lastmtx = Pushed(held[u], m), !.boosted = g]
    BY DEF Gets, Pushed
  <2>8. g \in BOOLEAN /\ (g <=> held[u].boosted \/ mtxcb[m].mtxatr = "TA_CEILING")
    BY DEF MTX_CEILING
  <2>9. Pushed(held[u], m) \in Seq(Mtx)
    <3>1. PICK s \in Seq(Mtx) : s = held[u].lastmtx
      BY <2>6 DEF HELD
    <3>2. <<m>> \o s \in Seq(Mtx)
      BY <2>1
    <3>3. QED
      BY <3>1, <3>2 DEF Pushed
  <2>10. mtxcb[m].mtxatr = "TA_CEILING" => held[u].bpriority >= mtxcb[m].ceilpri
    BY <2>1, <2>6 DEF TaskOk, CeilingOk
  <2>11. /\ mtxcb'[m].p_loctsk = u /\ mtxcb'[m].mtxatr = mtxcb[m].mtxatr
         /\ mtxcb'[m].ceilpri = mtxcb[m].ceilpri
    BY <1>11, <1>12, <1>13, <2>1
  <2>12. OtherMutexes(mtxcb, mtxcb', m, u)
    BY <1>11, <1>12, <1>13 DEF OtherMutexes
  <2>13. mtxcb[m].p_loctsk # u
    BY <1>13, <2>1
  <2>. HIDE DEF b, p, c, hu, g, m, F, wobj
  <2>14. /\ hu \in HELD /\ hu.bpriority = held[u].bpriority /\ hu.lastmtx = Pushed(held[u], m)
         /\ hu.boosted = g
    BY <2>6, <2>7, <2>8, <2>9 DEF HELD
  <2>15. /\ c.priority = p /\ c.p_wobjcb = NULL /\ c.tstat # {}
    <3>1. PICK ercd \in Ercd : ercd = "E_OK"
      BY DEF Ercd
    <3>2. c = EndedTcb([b EXCEPT !.priority = p], ercd)
      BY <2>5, <3>1
    <3>3. QED
      BY <2>3, <2>4, <3>2, EndedFacts
  <2>16. Acquires(b, c, held[u], hu, mtxcb, mtxcb', m, u)
    BY <2>4, <2>8, <2>10, <2>11, <2>12, <2>13, <2>14, <2>15 DEF Acquires
  <2>17. TaskOk(c, hu, mtxcb', u)
    BY <1>2, <2>1, <2>3, <2>6, <2>16, TaskGets
  <2>18. QED
    BY <2>2, <2>14, <2>17
<1>14. ASSUME NEW u \in Tsk, u # t, ~F(u)
       PROVE  held'[u] \in HELD /\ TaskOk(ker'.tcb[u], held'[u], mtxcb', u)
  <2>1. ker'.tcb[u] = ker.tcb[u] /\ held'[u] = held[u]
    BY <1>3, <1>9, <1>10, <1>14
  <2>2. SameMutexes(mtxcb, mtxcb', ker.tcb[u], u)
    BY <1>4, <1>11, <1>12, <1>14 DEF SameMutexes
  <2>3. Calmer(ker.tcb[u], ker.tcb[u]) /\ TaskOk(ker.tcb[u], held[u], mtxcb, u) /\ held[u] \in HELD
    BY <1>2, SameCalmer
  <2>4. TaskOk(ker.tcb[u], held[u], mtxcb', u)
    BY <2>2, <2>3, TaskKept
  <2>5. QED
    BY <2>1, <2>3, <2>4
<1>15. held'[t] \in HELD /\ TaskOk(ker'.tcb[t], held'[t], mtxcb', t)
  <2>1. \A m \in Mtx : mtxcb'[m].p_loctsk # t
    BY <1>2, <1>4, <1>7, <1>11
  <2>2. NoMutex(t) \in HELD
    BY DEF NoMutex, HELD, WaitAssumption, Pri
  <2>3. DormantTcb(t).priority = ipriority[t] /\ DormantTcb(t).p_wobjcb = NULL
    BY DEF DormantTcb
  <2>4. TaskOk(DormantTcb(t), NoMutex(t), mtxcb', t)
    BY <2>1, <2>3, DormantTask
  <2>5. QED
    BY <2>2, <2>4, <1>9, <1>10
<1>16. \A u \in Tsk : held'[u] \in HELD /\ TaskOk(ker'.tcb[u], held'[u], mtxcb', u)
  BY <1>13, <1>14, <1>15
<1>17. /\ mtxcb' \in [Mtx -> MTXCB] /\ held' \in [Tsk -> HELD]
  <2>1. held' = [u \in Tsk |-> held'[u]] /\ mtxcb' = [m \in Mtx |-> mtxcb'[m]]
    BY <1>1, <1>2 DEF mutex_release_all
  <2>2. QED
    BY <1>11, <1>16, <2>1
<1>18. /\ free_mtxcb' \in Seq(DynamicMtx) /\ IsInjective(free_mtxcb')
       /\ \A n \in Mtx : mtxcb'[n].p_loctsk # NULL => mtxcb'[n].mtxatr # "TA_NOEXS"
       /\ \A n \in Mtx : n \in Range(free_mtxcb') <=> mtxcb'[n].mtxatr = "TA_NOEXS"
  <2>1. /\ free_mtxcb \in Seq(DynamicMtx) /\ IsInjective(free_mtxcb)
        /\ \A n \in Mtx : mtxcb[n].p_loctsk # NULL => mtxcb[n].mtxatr # "TA_NOEXS"
        /\ \A n \in Mtx : n \in Range(free_mtxcb) <=> mtxcb[n].mtxatr = "TA_NOEXS"
    BY MtxFacts DEF MtxInv, Exists
  <2>2. t # NULL
    BY <1>2
  <2>3. QED
    BY <1>1, <1>11, <2>1, <2>2
<1>19. MtxInv'
  BY <1>9, <1>16, <1>17, <1>18, MtxStep
<1>20. ASSUME NEW m \in Mtx, mtxcb[m].p_loctsk = t
       PROVE  ker'.wait[m] = k.wait[m]
  <2>1. k.tcb[t] = ker.tcb[t] /\ wobj(t) # m
    BY <1>3, <1>4, <1>6, <1>20
  <2>2. k.wait \in [WaitQueue -> Seq(Tsk)] /\ DOMAIN k = {"tcb", "wait", "tpri"}
    BY <1>8 DEF KerType
  <2>3. W.wait[m] = k.wait[m]
    <3>1. CASE wobj(t) = NULL
      BY <3>1, <2>1 DEF WaitDequeueWobj, W
    <3>2. CASE wobj(t) # NULL
      <4>1. W = [k EXCEPT !.wait[wobj(t)] = QueueDelete(@, t)]
        BY <3>2, <2>1 DEF WaitDequeueWobj, W
      <4>2. PICK w : w = wobj(t)
        OBVIOUS
      <4>3. W.wait = [k.wait EXCEPT ![w] = QueueDelete(@, t)]
        BY <4>1, <4>2, <2>2
      <4>4. QED
        BY <4>2, <4>3, <2>1, <2>2, <1>2
    <3>3. QED
      BY <3>1, <3>2
  <2>4. QED
    BY <2>3, <1>9
<1>21. PassedToFirst
  <2>1. DOMAIN mtxcb = Mtx
    BY <1>2
  <2>2. ASSUME NEW m \in Mtx, mtxcb'[m].p_loctsk # mtxcb[m].p_loctsk
        PROVE  IF mtxcb'[m].p_loctsk = NULL THEN ker'.wait[m] = << >>
               ELSE /\ ker.wait[m] # << >> /\ mtxcb'[m].p_loctsk = Head(ker.wait[m])
                    /\ ker'.wait[m] = Tail(ker.wait[m])
    <3>1. mtxcb[m].p_loctsk = t /\ mtxcb'[m].p_loctsk = NextHolder(ker, m)
      BY <2>2, <1>11
    <3>2. ker'.wait[m] = IF m \in R THEN Tail(ker.wait[m]) ELSE ker.wait[m]
      BY <3>1, <1>3, <1>20
    <3>3. m \in R <=> ker.wait[m] # << >>
      BY <3>1, <1>3
    <3>4. CASE ker.wait[m] = << >>
      BY <3>1, <3>2, <3>3, <3>4, <1>7
    <3>5. CASE ker.wait[m] # << >>
      BY <3>1, <3>2, <3>3, <3>5, <1>7, <1>2
    <3>6. QED
      BY <3>4, <3>5
  <2>3. QED
    BY <2>1, <2>2 DEF PassedToFirst
<1>22. QED
  BY <1>19, <1>21

LEMMA SameMtx ==
    ASSUME MtxInv, UNCHANGED mtx_vars
    PROVE  MtxInv' /\ PassedToFirst
<1>1. ker' = ker /\ mtxcb' = mtxcb /\ held' = held /\ free_mtxcb' = free_mtxcb
  BY DEF mtx_vars
<1>2. MtxInv'
  BY <1>1 DEF MtxInv, MtxTypeOK, Exists
<1>3. PassedToFirst
  BY <1>1 DEF PassedToFirst
<1>4. QED
  BY <1>2, <1>3

LEMMA MtxPreserved ==
    ASSUME WaitAssumption, MtxAssumption, MtxInv, [MtxNext]_mtx_vars
    PROVE  MtxInv' /\ PassedToFirst
<1>1. ASSUME NEW ini \in T_CMTX, acre_mtx(ini)
      PROVE  MtxInv' /\ PassedToFirst
  BY <1>1, AcreMtx DEF MtxAssumption
<1>2. ASSUME NEW m \in Mtx, del_mtx(m)
      PROVE  MtxInv' /\ PassedToFirst
  BY <1>2, DelMtx
<1>3. ASSUME NEW m \in Mtx, ini_mtx(m)
      PROVE  MtxInv' /\ PassedToFirst
  BY <1>3, IniMtx
<1>4. ASSUME NEW m \in Mtx, NEW t \in Tsk, loc_mtx(t, m) \/ tloc_mtx(t, m)
      PROVE  MtxInv' /\ PassedToFirst
  <2>1. PICK tmout \in BOOLEAN : LockWait(t, m, tmout)
    BY <1>4 DEF loc_mtx, tloc_mtx
  <2>2. QED
    BY <2>1, WaitsMtx
<1>5. ASSUME NEW m \in Mtx, NEW t \in Tsk, ploc_mtx(t, m)
      PROVE  MtxInv' /\ PassedToFirst
  BY <1>5, LocksFree DEF ploc_mtx
<1>6. ASSUME NEW m \in Mtx, NEW t \in Tsk, unl_mtx(t, m)
      PROVE  MtxInv' /\ PassedToFirst
  BY <1>6, UnlMtx
<1>7. ASSUME NEW t \in Tsk, terminate(t)
      PROVE  MtxInv' /\ PassedToFirst
  BY <1>7, TerminateMtx
<1>8. ASSUME NEW t \in Tsk, NEW pri \in Pri, chg_bpri(t, pri)
      PROVE  MtxInv' /\ PassedToFirst
  BY <1>8, ChgBpri
<1>9. ASSUME NEW t \in Tsk, TaskCall(t), UNCHANGED <<mtxcb, held, free_mtxcb>>
      PROVE  MtxInv' /\ PassedToFirst
  BY <1>9, TaskMtx
<1>10. ASSUME UNCHANGED mtx_vars
       PROVE  MtxInv' /\ PassedToFirst
  BY <1>10, SameMtx
<1>11. QED
  BY <1>1, <1>2, <1>3, <1>4, <1>5, <1>6, <1>7, <1>8, <1>9, <1>10 DEF MtxNext

\* What the invariant says of who holds what and with which priority.
LEMMA HoldersAgreeFrom ==
    ASSUME WaitAssumption, MtxAssumption, MtxInv
    PROVE  HoldersAgree
<1>1. /\ DOMAIN held = Tsk /\ DOMAIN mtxcb = Mtx /\ tcb = ker.tcb
      /\ ker.tcb \in [Tsk -> TCB] /\ mtxcb \in [Mtx -> MTXCB] /\ held \in [Tsk -> HELD]
      /\ \A t \in Tsk : TaskOk(ker.tcb[t], held[t], mtxcb, t)
      /\ NULL \notin Tsk /\ NULL \notin Mtx
  BY MtxFacts DEF tcb
<1>2. HolderLists
  <2>1. \A t \in Tsk, m \in Mtx : m \in Range(held[t].lastmtx) <=> mtxcb[m].p_loctsk = t
    BY <1>1 DEF TaskOk, ListOk
  <2>2. ASSUME NEW m \in Mtx, mtxcb[m].p_loctsk # NULL
        PROVE  Exists(m) /\ ~Dormant(mtxcb[m].p_loctsk)
    <3>1. PICK t \in Tsk : t = mtxcb[m].p_loctsk
      BY <2>2, <1>1 DEF MTXCB
    <3>2. m \in Range(held[t].lastmtx)
      BY <2>1, <3>1
    <3>3. Range(NoMutex(t).lastmtx) = {}
      BY DEF NoMutex, Range
    <3>4. held[t] # NoMutex(t)
      BY <3>2, <3>3
    <3>5. ker.tcb[t].tstat # {}
      BY <3>4, <1>1 DEF TaskOk, DormantOk
    <3>6. QED
      BY <2>2, <3>1, <3>5, <1>1 DEF MtxInv, Dormant
  <2>3. \A t \in Tsk : IsInjective(held[t].lastmtx)
    BY <1>1 DEF TaskOk, ListOk
  <2>4. QED
    BY <1>1, <2>1, <2>2, <2>3 DEF HolderLists
<1>3. CurrentPriority
  <2>1. ASSUME NEW t \in Tsk
        PROVE  /\ ker.tcb[t].priority = CalcPriority(held, t)
               /\ held[t].boosted <=> Ceilings(held, t) # {}
    <3>. DEFINE L == HeldCeilings(held, t)
    <3>1. PICK p : p = CalcPriority(held, t)
      OBVIOUS
    <3>2. /\ p \in Pri /\ Highest(p, held[t].bpriority, mtxcb, L)
          /\ Ceilings(held, t) # {} <=> L # {}
      BY <1>1, <3>1, CalcFacts
    <3>3. \A m \in Mtx : m \in L <=> HoldsCeiling(mtxcb, t, m)
      BY <1>1 DEF HeldCeilings, HoldsCeiling, MTX_CEILING, TaskOk, ListOk
    <3>4. L \subseteq Mtx
      <4>1. held[t].lastmtx \in Seq(Mtx)
        BY <1>1 DEF HELD
      <4>2. QED
        BY <4>1, LenProperties DEF HeldCeilings, Range
    <3>5. PriorityOk(ker.tcb[t], held[t], mtxcb, t)
      BY <1>1 DEF TaskOk
    <3>6. ker.tcb[t].priority \in Nat /\ p \in Nat
      BY <1>1, <3>2, PrioritiesNat DEF WaitAssumption, Pri
    <3>7. held[t].bpriority \in Nat /\ \A m \in Mtx : mtxcb[m].ceilpri \in Nat
      BY <1>1, PrioritiesNat
    <3>. HIDE DEF L
    <3>8. ker.tcb[t].priority = p
      BY <3>2, <3>3, <3>4, <3>5, <3>6, <3>7 DEF Highest, PriorityOk
    <3>9. held[t].boosted <=> Ceilings(held, t) # {}
      <4>1. held[t].boosted <=> \E m \in Mtx : HoldsCeiling(mtxcb, t, m)
        BY <3>5 DEF PriorityOk
      <4>2. (\E m \in Mtx : HoldsCeiling(mtxcb, t, m)) <=> L # {}
        BY <3>3, <3>4
      <4>3. QED
        BY <3>2, <4>1, <4>2
    <3>10. QED
      BY <3>1, <3>8, <3>9
  <2>2. QED
    BY <1>1, <2>1 DEF CurrentPriority
<1>4. CeilingObserved
  BY <1>1 DEF CeilingObserved, TaskOk, CeilingOk, MTX_CEILING
<1>5. QED
  BY <1>2, <1>3, <1>4 DEF HoldersAgree

LEMMA WaitsForAnotherFrom ==
    ASSUME WaitAssumption, MtxAssumption, MtxInv
    PROVE  WaitsForAnother
<1>1. DOMAIN mtxcb = Mtx /\ WaitQueue = Mtx /\ WaitOk(ker)
  BY MtxFacts
<1>2. ASSUME NEW m \in Mtx, ker.wait[m] # << >>
      PROVE  mtxcb[m].p_loctsk \notin {NULL} \cup Range(ker.wait[m])
  <2>1. mtxcb[m].p_loctsk # NULL
    BY <1>2, AwaitedLocked
  <2>2. \A t \in Range(ker.wait[m]) : t \in Tsk /\ ker.tcb[t].p_wobjcb = m
    BY <1>1 DEF WaitOk, QueueOk
  <2>3. \A t \in Range(ker.wait[m]) : mtxcb[m].p_loctsk # t
    BY <2>2, AwaitedLocked
  <2>4. QED
    BY <2>1, <2>3
<1>3. QED
  BY <1>1, <1>2 DEF WaitsForAnother

----------------------------------------------------------------------------
\* The theorems about mutexes

\* The invariant MtxInv of the mutexes holds in every state: what the lists, the
\* control blocks, the priorities and the wait queues say of each other
\* (mutex.c, task_terminate and chg_pri).
THEOREM MutexInvariance ==
    ASSUME WaitAssumption, MtxAssumption
    PROVE  MtxSpec => []MtxInv
<1>1. MtxInit => MtxInv
  BY InitMtxInv
<1>2. MtxInv /\ [MtxNext]_mtx_vars => MtxInv'
  BY MtxPreserved
<1>3. QED
  BY <1>1, <1>2, PTL DEF MtxSpec

\* The wait queues of mutexes, the states of the tasks, their time events and the
\* termination requests agree about who waits, although a mutex that is unlocked
\* changes priorities and a task that ends releases all its mutexes
\* (wait.c:76-228, mutex.c:219-389, task.c:507-518).
THEOREM MutexWaits ==
    ASSUME WaitAssumption, MtxAssumption
    PROVE  MtxSpec => []WaitsAgree
<1>1. MtxInv => WaitsAgree
  BY WaitsAgreeFrom DEF MtxInv
<1>2. QED
  BY <1>1, MutexInvariance, PTL

\* The lists of the tasks and the control blocks agree about who holds a mutex;
\* the current priority of a task is the highest of its base priority and the
\* ceilings of its mutexes, whatever order it got and lost them in; and no base
\* priority is above the ceiling of a mutex that the task holds or awaits
\* (mutex.c:219-308, :335-389, :458-523, :573, task_manage.c:705).
THEOREM MutexHolders ==
    ASSUME WaitAssumption, MtxAssumption
    PROVE  MtxSpec => []HoldersAgree
<1>1. MtxInv => HoldersAgree
  BY HoldersAgreeFrom
<1>2. QED
  BY <1>1, MutexInvariance, PTL

\* Tasks wait only for mutexes that another task holds (mutex.c:577-586).
THEOREM MutexAwaited ==
    ASSUME WaitAssumption, MtxAssumption
    PROVE  MtxSpec => []WaitsForAnother
<1>1. MtxInv => WaitsForAnother
  BY WaitsForAnotherFrom
<1>2. QED
  BY <1>1, MutexInvariance, PTL

\* A mutex that leaves its holder goes to the first of the tasks that wait for
\* it, and gets free only when nobody waits any more, also when its holder is
\* terminated or it is deleted (mutex.c:335-389, task.c:507-518).
THEOREM MutexHandedOver ==
    ASSUME WaitAssumption, MtxAssumption
    PROVE  MtxSpec => HandOver
<1>1. MtxInv /\ [MtxNext]_mtx_vars => PassedToFirst
  BY MtxPreserved
<1>2. QED
  BY <1>1, MutexInvariance, PTL DEF MtxSpec, HandOver

----------------------------------------------------------------------------
\* The invariant of the event flags

\* The tasks R wait for the event flag with the control block c, and W is what
\* they wait for.
FlgQueueOk(R, c, W) ==
    /\ \A t \in R : c.exists /\ ~Satisfies(c.flgptn, W[t]) /\ W[t].waiptn # {}
    /\ c.inib.wmul \/ \A t, u \in R : t = u

\* NoWaitForSatisfied and SingleWaiter are inductive together with the invariant
\* of the waits, patterns of waiting tasks that are not empty, and the list of the
\* free blocks.
FlgInv ==
    /\ FlgTypeOK
    /\ WaitOk(ker)
    /\ \A f \in Flg : FlgQueueOk(Waiters(ker)[f], flgcb[f], winfo)
    /\ IsInjective(free_flgcb)
    /\ Range(free_flgcb) = {f \in Flg : ~flgcb[f].exists}

LEMMA FlgFacts ==
    ASSUME FlgAssumption, FlgInv, NEW f \in Flg
    PROVE  /\ f \in WaitQueue /\ WaitOk(ker) /\ ker \in KerType
           /\ Waiters(ker)[f] = Range(ker.wait[f]) /\ ker.wait[f] \in Seq(Tsk)
           /\ flgcb \in [Flg -> FLGCB] /\ flgcb[f] \in FLGCB /\ winfo \in [Tsk -> WINFO]
           /\ free_flgcb \in Seq(DynamicFlg) /\ IsInjective(free_flgcb)
           /\ f \in Range(free_flgcb) <=> ~flgcb[f].exists
           /\ FlgQueueOk(Waiters(ker)[f], flgcb[f], winfo)
<1>1. f \in WaitQueue /\ WaitOk(ker) /\ ker \in KerType
  BY DEF FlgAssumption, FlgInv, WaitOk
<1>2. Waiters(ker)[f] = Range(ker.wait[f]) /\ ker.wait[f] \in Seq(Tsk)
  BY <1>1, KerFields DEF Waiters
<1>3. QED
  BY <1>1, <1>2 DEF FlgInv, FlgTypeOK

\* A task that waits is in the queue of one of the event flags, and one that
\* executes in none.
LEMMA FlgWaiters ==
    ASSUME WaitAssumption, FlgAssumption, NEW k, WaitOk(k), NEW t \in Tsk
    PROVE  /\ "WAITING" \in k.tcb[t].tstat => \E f \in Flg : t \in Waiters(k)[f]
           /\ \A f \in Flg : t \in Waiters(k)[f] => "WAITING" \in k.tcb[t].tstat /\ k.tcb[t].p_wobjcb = f
<1>1. Flg = WaitQueue /\ \A f \in Flg : Waiters(k)[f] = Range(k.wait[f]) /\ QueueOk(k, f)
  BY DEF FlgAssumption, Waiters, WaitOk
<1>2. ASSUME "WAITING" \in k.tcb[t].tstat
      PROVE  \E f \in Flg : t \in Waiters(k)[f]
  BY <1>1, <1>2, WaiterInQueue
<1>3. TcbOk(k.tcb[t])
  BY DEF WaitOk
<1>4. QED
  BY <1>1, <1>2, <1>3 DEF QueueOk, TcbOk, WaitAssumption

LEMMA FlgTypes ==
    ASSUME WaitAssumption, FlgAssumption, WaitOk(ker), flgcb \in [Flg -> FLGCB],
           winfo \in [Tsk -> WINFO], free_flgcb \in Seq(DynamicFlg),
           \A f \in Flg : FlgQueueOk(Waiters(ker)[f], flgcb[f], winfo)
    PROVE  FlgTypeOK
<1>1. ASSUME NEW t \in Tsk, "WAITING" \in ker.tcb[t].tstat
      PROVE  winfo[t].waiptn # {}
  <2>1. PICK f \in Flg : t \in Waiters(ker)[f]
    BY <1>1, FlgWaiters
  <2>2. QED
    BY <2>1 DEF FlgQueueOk
<1>2. QED
  BY <1>1 DEF FlgTypeOK, WaitOk, Waiting, tcb

\* A step that changes one event flag.
LEMMA FlgSet ==
    ASSUME WaitAssumption, FlgAssumption, FlgInv, WaitOk(ker'), NEW f \in Flg, NEW c \in FLGCB,
           flgcb' = [flgcb EXCEPT ![f] = c], winfo' \in [Tsk -> WINFO],
           FlgQueueOk(Waiters(ker')[f], c, winfo'),
           \A v \in Flg : v # f => \A u \in Waiters(ker')[v] :
               u \in Waiters(ker)[v] /\ winfo'[u] = winfo[u],
           free_flgcb' \in Seq(DynamicFlg), IsInjective(free_flgcb'),
           Range(free_flgcb') = IF c.exists THEN Range(free_flgcb) \ {f}
                                            ELSE Range(free_flgcb) \cup {f}
    PROVE  FlgInv'
<1>1. flgcb \in [Flg -> FLGCB] /\ Range(free_flgcb) = {v \in Flg : ~flgcb[v].exists}
  BY DEF FlgInv, FlgTypeOK
<1>2. flgcb' \in [Flg -> FLGCB] /\ \A v \in Flg : flgcb'[v] = IF v = f THEN c ELSE flgcb[v]
  BY <1>1
<1>3. ASSUME NEW v \in Flg
      PROVE  FlgQueueOk(Waiters(ker')[v], flgcb'[v], winfo')
  <2>1. CASE v = f
    BY <2>1, <1>2
  <2>2. CASE v # f
    <3>1. FlgQueueOk(Waiters(ker)[v], flgcb[v], winfo)
      BY DEF FlgInv
    <3>2. QED
      BY <2>2, <3>1, <1>2 DEF FlgQueueOk
  <2>3. QED
    BY <2>1, <2>2
<1>4. FlgTypeOK'
  <2>1. \A v \in Flg : FlgQueueOk(Waiters(ker')[v], flgcb'[v], winfo')
    BY <1>3
  <2>2. ASSUME NEW t \in Tsk, "WAITING" \in ker'.tcb[t].tstat
        PROVE  winfo'[t].waiptn # {}
    <3>1. PICK v \in Flg : t \in Waiters(ker')[v]
      BY <2>2, FlgWaiters
    <3>2. QED
      BY <2>1, <3>1 DEF FlgQueueOk
  <2>3. QED
    BY <1>2, <2>2 DEF FlgTypeOK, WaitOk, Waiting, tcb
<1>5. Range(free_flgcb') = {v \in Flg : ~flgcb'[v].exists}
  BY <1>1, <1>2
<1>6. QED
  BY <1>3, <1>4, <1>5 DEF FlgInv

\* A step that changes no event flag, and after which nobody waits who did not
\* wait before.
LEMMA FlgSame ==
    ASSUME WaitAssumption, FlgAssumption, FlgInv, WaitOk(ker'), UNCHANGED <<flgcb, free_flgcb, winfo>>,
           \A v \in Flg : Waiters(ker')[v] \subseteq Waiters(ker)[v]
    PROVE  FlgInv'
<1>1. flgcb' = flgcb /\ free_flgcb' = free_flgcb /\ winfo' = winfo
  OBVIOUS
<1>2. \A v \in Flg : FlgQueueOk(Waiters(ker')[v], flgcb'[v], winfo')
  BY <1>1 DEF FlgInv, FlgQueueOk
<1>3. ASSUME NEW t \in Tsk, "WAITING" \in ker'.tcb[t].tstat
      PROVE  winfo'[t].waiptn # {}
  <2>1. PICK v \in Flg : t \in Waiters(ker')[v]
    BY <1>3, FlgWaiters
  <2>2. QED
    BY <1>2, <2>1 DEF FlgQueueOk
<1>4. FlgTypeOK'
  BY <1>1, <1>3 DEF FlgInv, FlgTypeOK, WaitOk, Waiting, tcb
<1>5. QED
  BY <1>1, <1>2, <1>4 DEF FlgInv

\* No wait is completed.
NobodyGranted == \A t \in Tsk : Results(ker)[t] = "pending" => Results(ker')[t] # "granted"

LEMMA NoneCompleted ==
    ASSUME NobodyGranted
    PROVE  CompletedWithPattern
<1>1. ASSUME NEW t \in Tsk, Waiting(t), "WAITING" \notin ker'.tcb[t].tstat,
             ker'.tcb[t].wercd = "E_OK"
      PROVE  FALSE
  <2>1. Results(ker)[t] = "pending" /\ Results(ker')[t] = "granted"
    BY <1>1 DEF Results, ResultOf, Waiting, tcb
  <2>2. QED
    BY <2>1 DEF NobodyGranted
<1>2. QED
  BY <1>1 DEF CompletedWithPattern

\* The free list while an event flag stays what it is.
LEMMA FreeFlgKept ==
    ASSUME FlgAssumption, FlgInv, NEW f \in Flg, NEW c, c.exists = flgcb[f].exists,
           free_flgcb' = free_flgcb
    PROVE  /\ free_flgcb' \in Seq(DynamicFlg) /\ IsInjective(free_flgcb')
           /\ Range(free_flgcb') = IF c.exists THEN Range(free_flgcb) \ {f}
                                               ELSE Range(free_flgcb) \cup {f}
<1>1. /\ free_flgcb \in Seq(DynamicFlg) /\ IsInjective(free_flgcb)
      /\ f \in Range(free_flgcb) <=> ~flgcb[f].exists
  BY FlgFacts
<1>2. QED
  BY <1>1

LEMMA InitFlgInv ==
    ASSUME WaitAssumption, FlgAssumption, FlgInit
    PROVE  FlgInv
<1>. DEFINE T == {f \in StaticFlg : flginib[f].tpri}
            free == [exists |-> FALSE, flgptn |-> {},
                     inib |-> [tpri |-> FALSE, wmul |-> FALSE, clr |-> FALSE, iflgptn |-> {}]]
<1>1. /\ KerInit(T) /\ free_flgcb = SetToSeq(DynamicFlg)
      /\ winfo = [t \in Tsk |-> [waiptn |-> {}, wfmode |-> "TWF_ORW"]]
      /\ flgcb = [f \in Flg |->
             IF f \in StaticFlg
               THEN [exists |-> TRUE, flgptn |-> flginib[f].iflgptn, inib |-> flginib[f]]
               ELSE free]
  BY DEF FlgInit
<1>2. /\ WaitQueue = Flg /\ Flg = StaticFlg \cup DynamicFlg /\ StaticFlg \cap DynamicFlg = {}
      /\ IsFiniteSet(DynamicFlg) /\ flginib \in [StaticFlg -> FLGINIB]
  BY DEF FlgAssumption, Flg
<1>3. WaitOk(ker) /\ \A w \in WaitQueue : ker.wait[w] = << >>
  <2>1. T \in SUBSET WaitQueue
    BY <1>2
  <2>. HIDE DEF T
  <2>2. QED
    BY <1>1, <2>1, InitWaitOk
<1>4. /\ free_flgcb \in Seq(DynamicFlg) /\ IsInjective(free_flgcb)
      /\ Range(free_flgcb) = DynamicFlg
  BY <1>1, <1>2, SetToSeqFacts
<1>5. winfo \in [Tsk -> WINFO]
  BY <1>1 DEF WINFO, Pattern
<1>6. ASSUME NEW f \in Flg
      PROVE  flgcb[f] \in FLGCB /\ (flgcb[f].exists <=> f \notin DynamicFlg)
  <2>1. CASE f \in StaticFlg
    <3>1. /\ flgcb[f] = [exists |-> TRUE, flgptn |-> flginib[f].iflgptn, inib |-> flginib[f]]
          /\ flginib[f] \in FLGINIB
      BY <2>1, <1>1, <1>2
    <3>2. QED
      BY <2>1, <3>1, <1>2 DEF FLGCB, FLGINIB
  <2>2. CASE f \notin StaticFlg
    <3>1. flgcb[f] = free
      BY <2>2, <1>1
    <3>2. QED
      BY <2>2, <3>1, <1>2 DEF FLGCB, FLGINIB, Pattern
  <2>3. QED
    BY <2>1, <2>2
<1>7. flgcb \in [Flg -> FLGCB]
  BY <1>1, <1>6
<1>8. \A f \in Flg : FlgQueueOk(Waiters(ker)[f], flgcb[f], winfo)
  BY <1>2, <1>3 DEF Waiters, Range, FlgQueueOk
<1>9. FlgTypeOK
  BY <1>3, <1>4, <1>5, <1>7, <1>8, FlgTypes
<1>10. Range(free_flgcb) = {f \in Flg : ~flgcb[f].exists}
  BY <1>2, <1>4, <1>6
<1>11. QED
  BY <1>3, <1>4, <1>8, <1>9, <1>10 DEF FlgInv

LEMMA TaskFlg ==
    ASSUME WaitAssumption, FlgAssumption, FlgInv, NEW t \in Tsk, TaskNext(t),
           UNCHANGED <<flgcb, free_flgcb, winfo>>
    PROVE  FlgInv' /\ CompletedWithPattern
<1>1. WaitOk(ker) /\ Flg = WaitQueue
  BY DEF FlgInv, FlgAssumption
<1>2. TaskEffect(ker, ker', t)
  BY <1>1, TaskStep
<1>3. WaitOk(ker')
  BY <1>2 DEF TaskEffect
<1>4. \A v \in Flg : Waiters(ker')[v] \subseteq Waiters(ker)[v]
  <2>1. \A w \in WaitQueue, v \in WaitQueue : WithoutWaiter(Waiters(ker), w, t)[v] \subseteq Waiters(ker)[v]
    BY DEF WithoutWaiter, Waiters
  <2>2. QED
    BY <1>1, <1>2, <2>1 DEF TaskEffect
<1>5. NobodyGranted
  <2>1. \A u \in Tsk : WithResult(Results(ker), t, "none")[u] \in {Results(ker)[u], "none"}
    BY DEF WithResult, Results
  <2>2. QED
    BY <1>2, <2>1 DEF TaskEffect, NobodyGranted
<1>6. QED
  BY <1>3, <1>4, <1>5, FlgSame, NoneCompleted

----------------------------------------------------------------------------
\* The calls on event flags

LEMMA AcreFlg ==
    ASSUME WaitAssumption, FlgAssumption, FlgInv, NEW ini \in FLGINIB, acre_flg(ini)
    PROVE  FlgInv' /\ CompletedWithPattern
<1>. DEFINE f == Head(free_flgcb)
            c == [exists |-> TRUE, flgptn |-> ini.iflgptn, inib |-> ini]
            T == IF ini.tpri THEN ker.tpri \cup {f} ELSE ker.tpri \ {f}
<1>1. /\ free_flgcb # << >> /\ flgcb' = [flgcb EXCEPT ![f] = c] /\ winfo' = winfo
      /\ ker' = NewQueue(ker, f, T) /\ free_flgcb' = Tail(free_flgcb)
  BY DEF acre_flg, NewQueue
<1>2. free_flgcb \in Seq(DynamicFlg) /\ IsInjective(free_flgcb)
  BY DEF FlgInv, FlgTypeOK
<1>3. /\ f \in Range(free_flgcb) /\ f \in DynamicFlg
      /\ Tail(free_flgcb) \in Seq(DynamicFlg) /\ IsInjective(Tail(free_flgcb))
      /\ Range(Tail(free_flgcb)) = Range(free_flgcb) \ {f}
  BY <1>1, <1>2, TailFacts
<1>4. f \in Flg
  BY <1>3 DEF Flg
<1>. HIDE DEF f
<1>5. /\ f \in WaitQueue /\ WaitOk(ker) /\ ker \in KerType /\ ~flgcb[f].exists
      /\ winfo \in [Tsk -> WINFO] /\ FlgQueueOk(Waiters(ker)[f], flgcb[f], winfo)
  BY <1>3, <1>4, FlgFacts
<1>6. Waiters(ker)[f] = {} /\ ker.wait[f] = << >>
  BY <1>5, WaitersEmpty DEF FlgQueueOk
<1>7. c \in FLGCB /\ c.exists
  BY DEF FLGCB, FLGINIB
<1>8. T \in SUBSET WaitQueue /\ \A v \in WaitQueue : v # f => (v \in T <=> v \in ker.tpri)
  BY <1>5, KerFields
<1>. HIDE DEF T, c
<1>9. WaitOk(ker') /\ ker'.wait = ker.wait /\ ker'.tcb = ker.tcb
  BY <1>1, <1>5, <1>6, <1>8, CreateQueue
<1>10. Waiters(ker') = Waiters(ker) /\ Results(ker') = Results(ker)
  BY <1>9 DEF Waiters, Results
<1>11. FlgQueueOk(Waiters(ker')[f], c, winfo')
  BY <1>6, <1>10 DEF FlgQueueOk
<1>12. /\ winfo' \in [Tsk -> WINFO]
       /\ \A v \in Flg : v # f => \A u \in Waiters(ker')[v] :
              u \in Waiters(ker)[v] /\ winfo'[u] = winfo[u]
  BY <1>1, <1>5, <1>10
<1>13. /\ free_flgcb' \in Seq(DynamicFlg) /\ IsInjective(free_flgcb')
       /\ Range(free_flgcb') = IF c.exists THEN Range(free_flgcb) \ {f}
                                           ELSE Range(free_flgcb) \cup {f}
  BY <1>1, <1>3, <1>7
<1>14. FlgInv'
  BY <1>1, <1>4, <1>7, <1>9, <1>11, <1>12, <1>13, FlgSet
<1>15. NobodyGranted
  BY <1>10 DEF NobodyGranted
<1>16. QED
  BY <1>14, <1>15, NoneCompleted

\* init_wait_queue of an event flag completes no wait.
LEMMA FlgInitsQueue ==
    ASSUME WaitAssumption, FlgAssumption, FlgInv, NEW f \in Flg, ker' = InitWaitQueue(ker, f),
           winfo' = winfo, NEW c
    PROVE  /\ WaitOk(ker') /\ NobodyGranted /\ FlgQueueOk(Waiters(ker')[f], c, winfo')
           /\ \A v \in Flg : v # f => \A u \in Waiters(ker')[v] :
                  u \in Waiters(ker)[v] /\ winfo'[u] = winfo[u]
           /\ winfo' \in [Tsk -> WINFO]
<1>1. /\ f \in WaitQueue /\ WaitOk(ker) /\ winfo \in [Tsk -> WINFO] /\ Flg = WaitQueue
  BY FlgFacts DEF FlgAssumption
<1>2. /\ WaitOk(ker') /\ Waiters(ker') = [Waiters(ker) EXCEPT ![f] = {}]
      /\ Results(ker') = [t \in Tsk |-> IF t \in Waiters(ker)[f] THEN "none" ELSE Results(ker)[t]]
  BY <1>1, InitsQueue
<1>3. \A v \in Flg : Waiters(ker')[v] = IF v = f THEN {} ELSE Waiters(ker)[v]
  BY <1>1, <1>2 DEF Waiters
<1>4. NobodyGranted
  BY <1>2 DEF NobodyGranted
<1>5. FlgQueueOk(Waiters(ker')[f], c, winfo')
  BY <1>3 DEF FlgQueueOk
<1>6. QED
  BY <1>1, <1>2, <1>3, <1>4, <1>5

LEMMA DelFlg ==
    ASSUME WaitAssumption, FlgAssumption, FlgInv, NEW f \in Flg, del_flg(f)
    PROVE  FlgInv' /\ CompletedWithPattern
<1>. DEFINE c == [flgcb[f] EXCEPT !.exists = FALSE]
<1>1. /\ f \in DynamicFlg /\ flgcb[f].exists /\ ker' = InitWaitQueue(ker, f) /\ winfo' = winfo
      /\ flgcb' = [flgcb EXCEPT ![f] = c] /\ free_flgcb' = Append(free_flgcb, f)
  BY DEF del_flg, QueueInsertPrev
<1>2. /\ flgcb[f] \in FLGCB /\ free_flgcb \in Seq(DynamicFlg) /\ IsInjective(free_flgcb)
      /\ f \notin Range(free_flgcb)
  BY <1>1, FlgFacts
<1>3. c \in FLGCB /\ ~c.exists
  BY <1>2 DEF FLGCB
<1>. HIDE DEF c
<1>4. /\ WaitOk(ker') /\ NobodyGranted /\ FlgQueueOk(Waiters(ker')[f], c, winfo')
      /\ \A v \in Flg : v # f => \A u \in Waiters(ker')[v] :
             u \in Waiters(ker)[v] /\ winfo'[u] = winfo[u]
      /\ winfo' \in [Tsk -> WINFO]
  BY <1>1, FlgInitsQueue
<1>5. /\ free_flgcb' \in Seq(DynamicFlg) /\ IsInjective(free_flgcb')
      /\ Range(free_flgcb') = IF c.exists THEN Range(free_flgcb) \ {f}
                                          ELSE Range(free_flgcb) \cup {f}
  BY <1>1, <1>2, <1>3, LastFacts
<1>6. FlgInv'
  BY <1>1, <1>3, <1>4, <1>5, FlgSet
<1>7. QED
  BY <1>4, <1>6, NoneCompleted

LEMMA IniFlg ==
    ASSUME WaitAssumption, FlgAssumption, FlgInv, NEW f \in Flg, ini_flg(f)
    PROVE  FlgInv' /\ CompletedWithPattern
<1>. DEFINE c == [flgcb[f] EXCEPT !.flgptn = flgcb[f].inib.iflgptn]
<1>1. /\ ker' = InitWaitQueue(ker, f) /\ winfo' = winfo
      /\ flgcb' = [flgcb EXCEPT ![f] = c] /\ free_flgcb' = free_flgcb
  BY DEF ini_flg
<1>2. c \in FLGCB /\ c.exists = flgcb[f].exists
  BY FlgFacts DEF FLGCB, FLGINIB
<1>. HIDE DEF c
<1>3. /\ WaitOk(ker') /\ NobodyGranted /\ FlgQueueOk(Waiters(ker')[f], c, winfo')
      /\ \A v \in Flg : v # f => \A u \in Waiters(ker')[v] :
             u \in Waiters(ker)[v] /\ winfo'[u] = winfo[u]
      /\ winfo' \in [Tsk -> WINFO]
  BY <1>1, FlgInitsQueue
<1>4. /\ free_flgcb' \in Seq(DynamicFlg) /\ IsInjective(free_flgcb')
      /\ Range(free_flgcb') = IF c.exists THEN Range(free_flgcb) \ {f}
                                          ELSE Range(free_flgcb) \cup {f}
  BY <1>1, <1>2, FreeFlgKept
<1>5. FlgInv'
  BY <1>1, <1>2, <1>3, <1>4, FlgSet
<1>6. QED
  BY <1>3, <1>5, NoneCompleted

LEMMA ClrFlg ==
    ASSUME WaitAssumption, FlgAssumption, FlgInv, NEW f \in Flg, NEW ptn \in Pattern, clr_flg(f, ptn)
    PROVE  FlgInv' /\ CompletedWithPattern
<1>. DEFINE c == [flgcb[f] EXCEPT !.flgptn = @ \cap ptn]
<1>1. /\ ker' = ker /\ winfo' = winfo /\ flgcb' = [flgcb EXCEPT ![f] = c]
      /\ free_flgcb' = free_flgcb
  BY DEF clr_flg
<1>2. /\ WaitOk(ker) /\ flgcb[f] \in FLGCB /\ winfo \in [Tsk -> WINFO]
      /\ FlgQueueOk(Waiters(ker)[f], flgcb[f], winfo)
  BY FlgFacts
<1>3. /\ c \in FLGCB /\ c.exists = flgcb[f].exists /\ c.inib = flgcb[f].inib
      /\ c.flgptn = flgcb[f].flgptn \cap ptn
  BY <1>2 DEF FLGCB, Pattern
<1>4. \A w : ~Satisfies(flgcb[f].flgptn, w) => ~Satisfies(flgcb[f].flgptn \cap ptn, w)
  BY DEF Satisfies
<1>. HIDE DEF c
<1>5. FlgQueueOk(Waiters(ker')[f], c, winfo')
  BY <1>1, <1>2, <1>3, <1>4 DEF FlgQueueOk
<1>6. /\ WaitOk(ker') /\ winfo' \in [Tsk -> WINFO]
      /\ \A v \in Flg : v # f => \A u \in Waiters(ker')[v] :
             u \in Waiters(ker)[v] /\ winfo'[u] = winfo[u]
  BY <1>1, <1>2
<1>7. /\ free_flgcb' \in Seq(DynamicFlg) /\ IsInjective(free_flgcb')
      /\ Range(free_flgcb') = IF c.exists THEN Range(free_flgcb) \ {f}
                                          ELSE Range(free_flgcb) \cup {f}
  BY <1>1, <1>3, FreeFlgKept
<1>8. FlgInv'
  BY <1>1, <1>3, <1>5, <1>6, <1>7, FlgSet
<1>9. NobodyGranted
  BY <1>1 DEF NobodyGranted
<1>10. QED
  BY <1>8, <1>9, NoneCompleted

\* No bit that is set satisfies nobody who waits.
LEMMA NotEmpty ==
    ASSUME NEW w, w.waiptn # {}
    PROVE  ~Satisfies({}, w)
BY DEF Satisfies

LEMMA GetsFlg ==
    ASSUME WaitAssumption, FlgAssumption, FlgInv, NEW f \in Flg, NEW t \in Tsk, NEW w \in Request,
           Executes(t), GetFlg(t, f, w)
    PROVE  FlgInv' /\ CompletedWithPattern
<1>. DEFINE c  == [flgcb[f] EXCEPT !.flgptn = PatternLeft(f, @)]
            c1 == [ker.tcb[t] EXCEPT !.wercd = "E_OK"]
<1>1. /\ winfo' = [winfo EXCEPT ![t].waiptn = flgcb[f].flgptn] /\ free_flgcb' = free_flgcb
      /\ flgcb' = [flgcb EXCEPT ![f] = c] /\ ker' = SetTcb(ker, t, c1)
  BY DEF GetFlg, SetTcb
<1>2. /\ WaitOk(ker) /\ ker \in KerType /\ flgcb[f] \in FLGCB /\ winfo \in [Tsk -> WINFO]
      /\ FlgQueueOk(Waiters(ker)[f], flgcb[f], winfo) /\ Flg = WaitQueue
  BY FlgFacts DEF FlgAssumption
<1>3. /\ c \in FLGCB /\ c.exists = flgcb[f].exists /\ c.inib = flgcb[f].inib
      /\ c.flgptn \in {flgcb[f].flgptn, {}}
  BY <1>2 DEF FLGCB, Pattern, PatternLeft
<1>4. "WAITING" \notin ker.tcb[t].tstat
  BY <1>2, ExecutesNotWaiting DEF Executes, Runnable, tcb
<1>5. ker.tcb[t] \in TCB /\ TcbOk(ker.tcb[t])
  BY <1>2, KerFields DEF WaitOk
<1>6. c1 \in TCB /\ c1.p_wobjcb = ker.tcb[t].p_wobjcb /\ c1.priority = ker.tcb[t].priority
  BY <1>5 DEF TCB, Ercd
<1>7. TcbOk(c1)
  BY <1>5 DEF TCB, TcbOk
<1>. HIDE DEF c, c1
<1>8. /\ ker' \in KerType /\ ker'.tcb[t] = c1 /\ OthersKept(ker, ker', t)
      /\ ker'.wait = ker.wait /\ ker'.tpri = ker.tpri
  BY <1>1, <1>2, <1>6, TcbSet
<1>9. WaitOk(ker') /\ Waiters(ker') = Waiters(ker)
  BY <1>2, <1>6, <1>7, <1>8, LocalStep
<1>10. NobodyGranted
  <2>1. Results(ker)[t] # "pending" /\ \A u \in Tsk : u # t => Results(ker')[u] = Results(ker)[u]
    BY <1>4, <1>8 DEF Results, ResultOf, OthersKept
  <2>2. QED
    BY <2>1 DEF NobodyGranted
<1>11. winfo' \in [Tsk -> WINFO] /\ \A u \in Tsk : u # t => winfo'[u] = winfo[u]
  <2>1. flgcb[f].flgptn \in Pattern
    BY <1>2 DEF FLGCB
  <2>2. [winfo[t] EXCEPT !.waiptn = flgcb[f].flgptn] \in WINFO
    BY <1>2, <2>1 DEF WINFO
  <2>3. QED
    BY <1>1, <1>2, <2>2
<1>12. \A v \in Flg : \A u \in Waiters(ker)[v] : u \in Tsk /\ u # t
  <2>1. \A v \in Flg : t \notin Waiters(ker)[v]
    BY <1>2, <1>4, FlgWaiters
  <2>2. \A v \in Flg : Waiters(ker)[v] = Range(ker.wait[v]) /\ QueueOk(ker, v)
    BY <1>2 DEF Waiters, WaitOk
  <2>3. QED
    BY <2>1, <2>2 DEF QueueOk
<1>13. FlgQueueOk(Waiters(ker')[f], c, winfo')
  <2>1. \A u \in Waiters(ker)[f] : ~Satisfies(c.flgptn, winfo[u])
    BY <1>2, <1>3, NotEmpty DEF FlgQueueOk
  <2>2. QED
    BY <2>1, <1>2, <1>3, <1>9, <1>11, <1>12 DEF FlgQueueOk
<1>14. \A v \in Flg : v # f => \A u \in Waiters(ker')[v] :
           u \in Waiters(ker)[v] /\ winfo'[u] = winfo[u]
  BY <1>9, <1>11, <1>12
<1>15. /\ free_flgcb' \in Seq(DynamicFlg) /\ IsInjective(free_flgcb')
       /\ Range(free_flgcb') = IF c.exists THEN Range(free_flgcb) \ {f}
                                           ELSE Range(free_flgcb) \cup {f}
  BY <1>1, <1>3, FreeFlgKept
<1>16. FlgInv'
  BY <1>1, <1>3, <1>9, <1>11, <1>13, <1>14, <1>15, FlgSet
<1>17. QED
  BY <1>10, <1>16, NoneCompleted

LEMMA WaitsFlg ==
    ASSUME WaitAssumption, FlgAssumption, FlgInv, NEW f \in Flg, NEW t \in Tsk, NEW w \in Request,
           NEW tmout \in BOOLEAN, WaitFlg(t, f, w, tmout)
    PROVE  FlgInv' /\ CompletedWithPattern
<1>1. Executes(t) /\ ~ker.tcb[t].raster
  BY DEF WaitFlg, MayWait, tcb
<1>2. CASE GetFlg(t, f, w)
  BY <1>1, <1>2, GetsFlg
<1>3. CASE /\ MayAsk(f) /\ ~Satisfies(flgcb[f].flgptn, w)
           /\ winfo' = [winfo EXCEPT ![t] = w]
           /\ ker' = WobjMakeWait(ker, f, t, tmout)
           /\ UNCHANGED <<flgcb, free_flgcb>>
  <2>. DEFINE c == flgcb[f]
  <2>1. /\ WaitOk(ker) /\ ker \in KerType /\ c \in FLGCB /\ flgcb \in [Flg -> FLGCB]
        /\ winfo \in [Tsk -> WINFO] /\ f \in WaitQueue
        /\ FlgQueueOk(Waiters(ker)[f], c, winfo) /\ Flg = WaitQueue
    BY FlgFacts DEF FlgAssumption
  <2>2. flgcb' = [flgcb EXCEPT ![f] = c] /\ c.exists = flgcb[f].exists /\ free_flgcb' = free_flgcb
    BY <1>3, <2>1
  <2>3. c.exists /\ ~Satisfies(c.flgptn, w) /\ (c.inib.wmul \/ ker.wait[f] = << >>)
    BY <1>3 DEF MayAsk
  <2>. HIDE DEF c
  <2>4. /\ WaitOk(ker') /\ Waiters(ker') = WithWaiter(Waiters(ker), f, t)
        /\ Results(ker') = WithResult(Results(ker), t, "pending")
    BY <1>1, <1>3, <2>1, MakesWait DEF Executes, Runnable, tcb
  <2>5. "WAITING" \notin ker.tcb[t].tstat
    BY <1>1, <2>1, ExecutesNotWaiting DEF Executes, Runnable, tcb
  <2>6. \A v \in Flg : \A u \in Waiters(ker)[v] : u \in Tsk /\ u # t
    <3>1. \A v \in Flg : t \notin Waiters(ker)[v]
      BY <2>1, <2>5, FlgWaiters
    <3>2. \A v \in Flg : Waiters(ker)[v] = Range(ker.wait[v]) /\ QueueOk(ker, v)
      BY <2>1 DEF Waiters, WaitOk
    <3>3. QED
      BY <3>1, <3>2 DEF QueueOk
  <2>7. \A v \in Flg : Waiters(ker')[v] = IF v = f THEN Waiters(ker)[f] \cup {t} ELSE Waiters(ker)[v]
    BY <2>1, <2>4 DEF WithWaiter, Waiters
  <2>8. /\ w \in WINFO /\ w.waiptn # {} /\ winfo' \in [Tsk -> WINFO] /\ winfo'[t] = w
        /\ \A u \in Tsk : u # t => winfo'[u] = winfo[u]
    <3>1. w \in WINFO /\ w.waiptn # {}
      BY DEF Request
    <3>2. QED
      BY <3>1, <1>3, <2>1
  <2>9. FlgQueueOk(Waiters(ker')[f], c, winfo')
    <3>1. \A u \in Waiters(ker')[f] :
             c.exists /\ ~Satisfies(c.flgptn, winfo'[u]) /\ winfo'[u].waiptn # {}
      BY <2>1, <2>3, <2>6, <2>7, <2>8 DEF FlgQueueOk
    <3>2. ker.wait[f] = << >> => Waiters(ker)[f] = {}
      BY <2>1, WaitersEmpty
    <3>3. c.inib.wmul \/ \A u, v \in Waiters(ker')[f] : u = v
      BY <2>3, <2>7, <3>2
    <3>4. QED
      BY <3>1, <3>3 DEF FlgQueueOk
  <2>10. \A v \in Flg : v # f => \A u \in Waiters(ker')[v] :
            u \in Waiters(ker)[v] /\ winfo'[u] = winfo[u]
    BY <2>6, <2>7, <2>8
  <2>11. /\ free_flgcb' \in Seq(DynamicFlg) /\ IsInjective(free_flgcb')
         /\ Range(free_flgcb') = IF c.exists THEN Range(free_flgcb) \ {f}
                                             ELSE Range(free_flgcb) \cup {f}
    BY <2>2, FreeFlgKept
  <2>12. FlgInv'
    BY <2>1, <2>2, <2>4, <2>8, <2>9, <2>10, <2>11, FlgSet
  <2>13. NobodyGranted
    BY <2>4 DEF NobodyGranted, WithResult, Results
  <2>14. QED
    BY <2>12, <2>13, NoneCompleted
<1>4. QED
  BY <1>2, <1>3 DEF WaitFlg

\* The tasks that set_flg releases: all that are satisfied or, with TA_CLR, one.
LEMMA ReleasedFacts ==
    ASSUME NEW f \in Flg, NEW ptn, ker.wait[f] \in Seq(Tsk), NEW R, R = Released(f, ptn)
    PROVE  /\ \A t \in R : t \in Range(ker.wait[f]) /\ Satisfies(ptn, winfo[t])
           /\ flgcb[f].inib.clr => \A t, u \in R : t = u
           /\ R = {} \/ ~flgcb[f].inib.clr =>
                  \A t \in Range(ker.wait[f]) \ R : ~Satisfies(ptn, winfo[t])
<1>. DEFINE q  == ker.wait[f]
            ok == {i \in DOMAIN q : Satisfies(ptn, winfo[q[i]])}
            at == IF flgcb[f].inib.clr THEN {i \in ok : \A j \in ok : i <= j} ELSE ok
<1>1. R = {q[i] : i \in at}
  BY DEF Released
<1>2. DOMAIN q = 1 .. Len(q) /\ Len(q) \in Nat /\ ok \in SUBSET Nat
  BY LenProperties
<1>3. \A i \in ok : i \in DOMAIN q /\ Satisfies(ptn, winfo[q[i]])
  OBVIOUS
<1>4. \A i \in DOMAIN q : Satisfies(ptn, winfo[q[i]]) => i \in ok
  OBVIOUS
<1>. HIDE DEF ok
<1>5. at \in SUBSET ok
  OBVIOUS
<1>6. ok # {} => at # {}
  BY <1>2, Minimum
<1>7. flgcb[f].inib.clr => \A i, j \in at : i = j
  BY <1>2
<1>8. ~flgcb[f].inib.clr => at = ok
  OBVIOUS
<1>. HIDE DEF at, q
<1>9. \A t \in R : t \in Range(q) /\ Satisfies(ptn, winfo[t])
  BY <1>1, <1>3, <1>5 DEF Range
<1>10. flgcb[f].inib.clr => \A t, u \in R : t = u
  BY <1>1, <1>7
<1>11. ASSUME R = {} \/ ~flgcb[f].inib.clr, NEW t \in Range(q) \ R
       PROVE  ~Satisfies(ptn, winfo[t])
  <2>1. PICK i \in DOMAIN q : q[i] = t
    BY DEF Range
  <2>2. i \in ok => i \in at
    BY <1>1, <1>6, <1>8, <1>11
  <2>3. QED
    BY <2>1, <2>2, <1>1, <1>4
<1>12. QED
  BY <1>9, <1>10, <1>11 DEF q

\* set_flg: nobody is left who is satisfied, and those who are released got a
\* pattern that satisfies them.
LEMMA SetsFlg ==
    ASSUME WaitAssumption, FlgAssumption, FlgInv, NEW f \in Flg, NEW setptn \in Pattern,
           set_flg(f, setptn)
    PROVE  FlgInv' /\ CompletedWithPattern
<1>. DEFINE ptn  == flgcb[f].flgptn \cup setptn
            R    == Released(f, ptn)
            left == IF R = {} THEN ptn ELSE PatternLeft(f, ptn)
            c    == [flgcb[f] EXCEPT !.flgptn = left]
            d    == Without(ker.wait[f], R)
<1>1. /\ flgcb[f].exists /\ free_flgcb' = free_flgcb /\ flgcb' = [flgcb EXCEPT ![f] = c]
      /\ winfo' = [t \in Tsk |-> IF t \in R THEN [winfo[t] EXCEPT !.waiptn = ptn] ELSE winfo[t]]
      /\ ker' = [ker EXCEPT !.wait[f] = Without(@, R),
                            !.tcb = [t \in Tsk |-> IF t \in R THEN EndedTcb(@[t], "E_OK") ELSE @[t]]]
  BY DEF set_flg, SetFlg
<1>2. /\ f \in WaitQueue /\ WaitOk(ker) /\ ker \in KerType /\ flgcb[f] \in FLGCB
      /\ winfo \in [Tsk -> WINFO] /\ ker.wait[f] \in Seq(Tsk)
      /\ Waiters(ker)[f] = Range(ker.wait[f])
      /\ FlgQueueOk(Range(ker.wait[f]), flgcb[f], winfo) /\ Flg = WaitQueue
      /\ QueueOk(ker, f)
  BY FlgFacts DEF FlgAssumption, WaitOk
<1>3. PICK ercd \in Ercd : ercd = "E_OK"
  BY DEF Ercd
<1>4. ker' = SetReleased(ker, f, d, R, ercd)
  BY <1>1, <1>3 DEF SetReleased
<1>5. ptn \in Pattern
  BY <1>2 DEF FLGCB, Pattern
<1>6. R = Released(f, ptn) /\ d = Without(ker.wait[f], R)
  OBVIOUS
<1>7. /\ c \in FLGCB /\ c.exists = flgcb[f].exists /\ c.inib = flgcb[f].inib
      /\ c.flgptn = IF R = {} \/ ~flgcb[f].inib.clr THEN ptn ELSE {}
  <2>1. left = IF R = {} \/ ~flgcb[f].inib.clr THEN ptn ELSE {}
    BY DEF PatternLeft
  <2>2. left \in Pattern
    BY <2>1, <1>5 DEF Pattern
  <2>. HIDE DEF left
  <2>3. QED
    BY <2>1, <2>2, <1>2 DEF FLGCB
<1>. HIDE DEF ptn, R, left, c, d
<1>8. /\ \A t \in R : t \in Range(ker.wait[f]) /\ Satisfies(ptn, winfo[t])
      /\ flgcb[f].inib.clr => \A t, u \in R : t = u
      /\ R = {} \/ ~flgcb[f].inib.clr =>
             \A t \in Range(ker.wait[f]) \ R : ~Satisfies(ptn, winfo[t])
  BY <1>2, <1>6, ReleasedFacts
<1>9. /\ d \in Seq(Tsk) /\ IsInjective(d) /\ Range(d) = Range(ker.wait[f]) \ R
      /\ \A g : Sorted(ker.wait[f], g) => Sorted(d, g)
  <2>1. IsInjective(ker.wait[f])
    BY <1>2 DEF QueueOk
  <2>2. d \in Seq(Tsk) /\ Range(d) = Range(ker.wait[f]) \ R
    BY <1>2, <1>6, WithoutFacts
  <2>3. IsInjective(d)
    BY <2>1, <1>2, <1>6, WithoutFacts
  <2>4. \A g : Sorted(ker.wait[f], g) => Sorted(d, g)
    BY <1>2, <1>6, WithoutFacts
  <2>5. QED
    BY <2>2, <2>3, <2>4
<1>10. WaitOk(ker') /\ ker'.wait[f] = d /\ Releases(ker, ker', f, R, ercd)
  <2>1. R \subseteq Range(ker.wait[f])
    BY <1>8
  <2>2. QED
    BY <2>1, <1>2, <1>4, <1>9, ReleasesSome
<1>11. \A t \in Range(ker.wait[f]) : t \in Tsk
  BY <1>2 DEF QueueOk
<1>12. /\ winfo' \in [Tsk -> WINFO] /\ \A t \in Tsk : t \notin R => winfo'[t] = winfo[t]
       /\ \A t \in Tsk : t \in R => winfo'[t].waiptn = ptn
  <2>1. \A t \in Tsk : /\ [winfo[t] EXCEPT !.waiptn = ptn] \in WINFO
                       /\ [winfo[t] EXCEPT !.waiptn = ptn].waiptn = ptn
    BY <1>2, <1>5 DEF WINFO
  <2>2. QED
    BY <1>1, <1>2, <2>1
<1>13. Waiters(ker')[f] = Range(ker.wait[f]) \ R
  BY <1>2, <1>9, <1>10 DEF Waiters
<1>14. FlgQueueOk(Waiters(ker')[f], c, winfo')
  <2>1. ASSUME NEW t \in Range(ker.wait[f]) \ R
        PROVE  c.exists /\ ~Satisfies(c.flgptn, winfo'[t]) /\ winfo'[t].waiptn # {}
    <3>1. winfo'[t] = winfo[t] /\ winfo[t].waiptn # {}
      BY <1>2, <1>11, <1>12 DEF FlgQueueOk
    <3>2. ~Satisfies(c.flgptn, winfo[t])
      BY <3>1, <1>7, <1>8, NotEmpty
    <3>3. QED
      BY <3>1, <3>2, <1>1, <1>7
  <2>2. QED
    BY <2>1, <1>2, <1>7, <1>13 DEF FlgQueueOk
<1>15. \A v \in Flg : v # f => \A u \in Waiters(ker')[v] :
           u \in Waiters(ker)[v] /\ winfo'[u] = winfo[u]
  <2>. SUFFICES ASSUME NEW v \in Flg, v # f, NEW u \in Waiters(ker')[v]
                PROVE  u \in Waiters(ker)[v] /\ winfo'[u] = winfo[u]
    OBVIOUS
  <2>1. Waiters(ker')[v] = Waiters(ker)[v] /\ Waiters(ker)[v] = Range(ker.wait[v])
    BY <1>2, <1>10 DEF Releases, Waiters
  <2>2. u \in Tsk /\ ker.tcb[u].p_wobjcb = v
    BY <2>1, <1>2 DEF WaitOk, QueueOk
  <2>3. u \notin R
    BY <2>2, <1>2, <1>8 DEF QueueOk
  <2>4. QED
    BY <2>1, <2>2, <2>3, <1>12
<1>16. /\ free_flgcb' \in Seq(DynamicFlg) /\ IsInjective(free_flgcb')
       /\ Range(free_flgcb') = IF c.exists THEN Range(free_flgcb) \ {f}
                                           ELSE Range(free_flgcb) \cup {f}
  BY <1>1, <1>7, FreeFlgKept
<1>17. FlgInv'
  BY <1>1, <1>7, <1>10, <1>12, <1>14, <1>15, <1>16, FlgSet, ZenonT(30)
<1>18. CompletedWithPattern
  <2>. SUFFICES ASSUME NEW t \in Tsk, "WAITING" \in ker.tcb[t].tstat,
                       "WAITING" \notin ker'.tcb[t].tstat
                PROVE  CompletesWithPattern(t)
    BY DEF CompletedWithPattern, Waiting, tcb
  <2>1. t \in R
    BY <1>10 DEF Releases
  <2>2. ker.tcb[t].p_wobjcb = f
    BY <2>1, <1>2, <1>8 DEF QueueOk
  <2>3. Satisfies(winfo'[t].waiptn, winfo[t])
    BY <2>1, <1>8, <1>12
  <2>4. ASSUME flgcb[f].inib.clr
        PROVE  /\ flgcb'[f].flgptn = {}
               /\ \A u \in Range(ker.wait[f]) \ {t} : ker'.tcb[u] = ker.tcb[u]
    <3>1. flgcb'[f] = c
      BY <1>1, FlgFacts
    <3>2. c.flgptn = {}
      BY <2>1, <2>4, <1>7
    <3>3. \A u \in Range(ker.wait[f]) \ {t} : u \notin R
      BY <2>1, <2>4, <1>8
    <3>4. QED
      BY <3>1, <3>2, <3>3, <1>10, <1>11 DEF Releases
  <2>5. QED
    BY <2>2, <2>3, <2>4 DEF CompletesWithPattern, tcb
<1>19. QED
  BY <1>17, <1>18

LEMMA FlgStep ==
    ASSUME WaitAssumption, FlgAssumption, FlgInv, [FlgNext]_flg_vars
    PROVE  FlgInv' /\ CompletedWithPattern
<1>1. ASSUME NEW ini \in FLGINIB, acre_flg(ini)
      PROVE  FlgInv' /\ CompletedWithPattern
  BY <1>1, AcreFlg
<1>2. ASSUME NEW f \in Flg, NEW ptn \in Pattern, set_flg(f, ptn) \/ clr_flg(f, ptn)
      PROVE  FlgInv' /\ CompletedWithPattern
  BY <1>2, SetsFlg, ClrFlg
<1>3. ASSUME NEW f \in Flg, ini_flg(f) \/ del_flg(f)
      PROVE  FlgInv' /\ CompletedWithPattern
  BY <1>3, IniFlg, DelFlg
<1>4. ASSUME NEW f \in Flg, NEW t \in Tsk, NEW w \in Request, wai_flg(t, f, w) \/ twai_flg(t, f, w)
      PROVE  FlgInv' /\ CompletedWithPattern
  <2>1. PICK tmout \in BOOLEAN : WaitFlg(t, f, w, tmout)
    BY <1>4 DEF wai_flg, twai_flg
  <2>2. QED
    BY <2>1, WaitsFlg
<1>5. ASSUME NEW f \in Flg, NEW t \in Tsk, NEW w \in Request, pol_flg(t, f, w)
      PROVE  FlgInv' /\ CompletedWithPattern
  BY <1>5, GetsFlg DEF pol_flg
<1>6. ASSUME NEW t \in Tsk, TaskNext(t), UNCHANGED <<flgcb, free_flgcb, winfo>>
      PROVE  FlgInv' /\ CompletedWithPattern
  BY <1>6, TaskFlg
<1>7. ASSUME UNCHANGED flg_vars
      PROVE  FlgInv' /\ CompletedWithPattern
  <2>1. ker' = ker /\ UNCHANGED <<flgcb, free_flgcb, winfo>>
    BY <1>7 DEF flg_vars
  <2>2. WaitOk(ker') /\ \A v \in Flg : Waiters(ker')[v] \subseteq Waiters(ker)[v]
    BY <2>1 DEF FlgInv
  <2>3. NobodyGranted
    BY <2>1 DEF NobodyGranted
  <2>4. QED
    BY <2>1, <2>2, <2>3, FlgSame, NoneCompleted
<1>8. QED
  BY <1>1, <1>2, <1>3, <1>4, <1>5, <1>6, <1>7 DEF FlgNext

\* What the invariant says of who waits.
LEMMA NoVainWaitFrom ==
    ASSUME FlgAssumption, FlgInv
    PROVE  NoWaitForSatisfied /\ SingleWaiter
<1>1. NoWaitForSatisfied
  BY FlgFacts DEF NoWaitForSatisfied, FlgQueueOk
<1>2. ASSUME NEW f \in Flg, ~flgcb[f].inib.wmul
      PROVE  Len(ker.wait[f]) <= 1
  <2>. DEFINE q == ker.wait[f]
  <2>1. q \in Seq(Tsk) /\ IsInjective(q) /\ \A t, u \in Range(q) : t = u
    BY <1>2, FlgFacts DEF FlgQueueOk, WaitOk, QueueOk
  <2>2. Len(q) \in Nat /\ DOMAIN q = 1 .. Len(q)
    BY <2>1, LenProperties
  <2>. HIDE DEF q
  <2>3. ASSUME Len(q) > 1
        PROVE  FALSE
    <3>1. 1 \in DOMAIN q /\ 2 \in DOMAIN q
      BY <2>2, <2>3
    <3>2. q[1] \in Range(q) /\ q[2] \in Range(q)
      BY <3>1 DEF Range
    <3>3. q[1] = q[2]
      BY <2>1, <3>2
    <3>4. QED
      BY <2>1, <3>1, <3>3 DEF IsInjective
  <2>4. QED
    BY <2>2, <2>3 DEF q
<1>3. QED
  BY <1>1, <1>2 DEF SingleWaiter

----------------------------------------------------------------------------
\* The theorems about event flags

\* The invariant FlgInv of the event flags holds in every state (eventflag.c).
THEOREM FlagInvariance ==
    ASSUME WaitAssumption, FlgAssumption
    PROVE  FlgSpec => []FlgInv
<1>1. FlgInit => FlgInv
  BY InitFlgInv
<1>2. FlgInv /\ [FlgNext]_flg_vars => FlgInv'
  BY FlgStep
<1>3. QED
  BY <1>1, <1>2, PTL DEF FlgSpec

\* The wait queues of event flags, the states of the tasks, their time events and
\* the termination requests agree about who waits, although set_flg takes several
\* tasks out of any places of a queue (wait.c:76-228, eventflag.c:343-357).
THEOREM FlagWaits ==
    ASSUME WaitAssumption, FlgAssumption
    PROVE  FlgSpec => []WaitsAgree
<1>1. FlgInv => WaitsAgree
  BY WaitsAgreeFrom DEF FlgInv
<1>2. QED
  BY <1>1, FlagInvariance, PTL

\* Nobody waits for a pattern that is there, and without TA_WMUL at most one task
\* waits, also in a control block that was used before (eventflag.c:343-357, :447,
\* :502, :552).
THEOREM NobodyWaitsForSatisfied ==
    ASSUME WaitAssumption, FlgAssumption
    PROVE  FlgSpec => [](NoWaitForSatisfied /\ SingleWaiter)
<1>1. FlgInv => NoWaitForSatisfied /\ SingleWaiter
  BY NoVainWaitFrom
<1>2. QED
  BY <1>1, FlagInvariance, PTL

\* A task whose wait is completed gets a pattern that satisfies its condition, and
\* with TA_CLR nobody else gets these bits (eventflag.c:179-187, :350-355).
THEOREM FlagReleases ==
    ASSUME WaitAssumption, FlgAssumption
    PROVE  FlgSpec => ReleasedWithPattern
<1>1. FlgInv /\ [FlgNext]_flg_vars => CompletedWithPattern
  BY FlgStep
<1>2. QED
  BY <1>1, FlagInvariance, PTL DEF FlgSpec, ReleasedWithPattern
----------------------------------------------------------------------------
\* The ring of a data queue

\* The slot that is i places behind the slot h in a ring of n slots.
Slot(n, h, i) == IF h + i < n THEN h + i ELSE h + i - n

LEMMA SlotIs ==
    ASSUME NEW n \in Nat \ {0}, NEW h \in 0 .. n - 1, NEW i \in 0 .. n
    PROVE  (h + i) % n = Slot(n, h, i) /\ Slot(n, h, i) \in 0 .. n - 1
<1>. DEFINE x == h + i
<1>1. x \in Nat /\ x < 2 * n
  OBVIOUS
<1>2. ASSUME NEW y \in Nat, y < n
      PROVE  y % n = y
  BY <1>2
<1>3. ASSUME NEW y \in Nat, y >= n, y < 2 * n
      PROVE  y % n = y - n
  <2>. DEFINE r == y % n
              k == y \div n
  <2>1. r \in 0 .. n - 1 /\ k \in Int /\ y = r + n * k
    OBVIOUS
  <2>. HIDE DEF r, k
  <2>2. ASSUME NEW z \in Int, n * z < 2 * n, n * z > 0
        PROVE  z = 1
    BY <2>2
  <2>3. n * k \in Int /\ n * k < 2 * n /\ n * k > 0
    BY <2>1, <1>3
  <2>4. k = 1
    BY <2>1, <2>2, <2>3
  <2>5. r = y - n
    BY <2>1, <2>4
  <2>6. QED
    BY <2>5 DEF r
<1>4. x % n = IF x < n THEN x ELSE x - n
  BY <1>1, <1>2, <1>3
<1>5. QED
  BY <1>1, <1>4 DEF Slot

LEMMA SameSeq ==
    ASSUME NEW S, NEW a \in Seq(S), NEW b \in Seq(S), Len(a) = Len(b),
           \A i \in 1 .. Len(a) : a[i] = b[i]
    PROVE  a = b
OBVIOUS

\* RingConsistent, of one control block and its memory.
RingOk(c, m) ==
    /\ c.count <= c.dtqcnt
    /\ c.dtqcnt > 0 =>
          /\ c.head < c.dtqcnt
          /\ c.tail = Slot(c.dtqcnt, c.head, c.count)
          /\ \A i \in 0 .. c.count - 1 : m[Slot(c.dtqcnt, c.head, i)] \in Data

\* The data in the ring, the oldest first.
Ring(c, m) == [i \in 1 .. c.count |-> m[Slot(c.dtqcnt, c.head, i - 1)]]

Memory == [0 .. Maxcnt - 1 -> Data \cup {NULL}]

\* The numbers of a control block.
LEMMA RingNumbers ==
    ASSUME DtqAssumption, NEW c \in DTQCB, NEW m \in Memory, RingOk(c, m)
    PROVE  /\ Maxcnt \in Nat /\ Maxcnt > 0 /\ c.count \in Nat /\ c.dtqcnt \in Nat
           /\ c.head \in Nat /\ c.tail \in Nat /\ c.head < Maxcnt /\ c.tail < Maxcnt
           /\ c.count <= c.dtqcnt /\ c.dtqcnt <= Maxcnt
           /\ c.count > 0 => c.dtqcnt > 0
           /\ c.dtqcnt > 0 => c.head < c.dtqcnt /\ c.tail = Slot(c.dtqcnt, c.head, c.count)
BY DEF DtqAssumption, DTQCB, RingOk

\* The ring in the words of the property and of Contents.
LEMMA RingIs ==
    ASSUME DtqAssumption, NEW c \in DTQCB, NEW m \in Memory, RingOk(c, m)
    PROVE  /\ Ring(c, m) \in Seq(Data) /\ Len(Ring(c, m)) = c.count
           /\ Ring(c, m) = [i \in 1 .. c.count |-> m[(c.head + i - 1) % c.dtqcnt]]
           /\ c.dtqcnt > 0 =>
                 /\ c.tail = (c.head + c.count) % c.dtqcnt
                 /\ \A i \in 0 .. c.count - 1 : m[(c.head + i) % c.dtqcnt] \in Data
<1>. DEFINE n == c.dtqcnt
            h == c.head
<1>1. /\ c.count \in Nat /\ n \in Nat /\ h \in Nat /\ c.count <= n
      /\ c.count > 0 => n > 0
      /\ n > 0 => h < n /\ c.tail = Slot(n, h, c.count)
  BY RingNumbers
<1>2. ASSUME NEW i \in 0 .. c.count, n > 0
      PROVE  (h + i) % n = Slot(n, h, i)
  <2>1. n \in Nat \ {0} /\ h \in 0 .. n - 1 /\ i \in 0 .. n
    BY <1>1, <1>2
  <2>2. QED
    BY <2>1, SlotIs
<1>3. ASSUME NEW i \in 1 .. c.count
      PROVE  /\ m[Slot(n, h, i - 1)] \in Data
             /\ Slot(n, h, i - 1) = (h + i - 1) % n
  <2>1. n > 0 /\ i - 1 \in 0 .. c.count - 1 /\ i - 1 \in 0 .. c.count
    BY <1>1
  <2>2. (h + (i - 1)) % n = Slot(n, h, i - 1)
    BY <2>1, <1>2
  <2>3. h + (i - 1) = h + i - 1
    BY <1>1
  <2>4. m[Slot(n, h, i - 1)] \in Data
    BY <2>1 DEF RingOk
  <2>5. QED
    BY <2>2, <2>3, <2>4
<1>4. Ring(c, m) \in Seq(Data) /\ Len(Ring(c, m)) = c.count
  BY <1>1, <1>3 DEF Ring
<1>5. Ring(c, m) = [i \in 1 .. c.count |-> m[(h + i - 1) % n]]
  BY <1>3 DEF Ring
<1>6. ASSUME n > 0
      PROVE  /\ c.tail = (h + c.count) % n
             /\ \A i \in 0 .. c.count - 1 : m[(h + i) % n] \in Data
  <2>1. c.tail = (h + c.count) % n
    BY <1>1, <1>2, <1>6
  <2>2. ASSUME NEW i \in 0 .. c.count - 1
        PROVE  m[(h + i) % n] \in Data
    <3>1. m[Slot(n, h, i)] \in Data
      BY <1>6 DEF RingOk
    <3>2. i \in 0 .. c.count
      BY <1>1
    <3>3. QED
      BY <3>1, <3>2, <1>2, <1>6
  <2>3. QED
    BY <2>1, <2>2
<1>7. QED
  BY <1>4, <1>5, <1>6

\* enqueue_data and dequeue_data, of the control block and the memory.
Enqueued(c, m, d, c2, m2) == c2 = EnqueueData(c) /\ m2 = [m EXCEPT ![c.tail] = d]

Dequeued(c, c2) == c2 = DequeueData(c)

LEMMA Enqueues ==
    ASSUME DtqAssumption, NEW c \in DTQCB, NEW m \in Memory, RingOk(c, m),
           c.count < c.dtqcnt, NEW d \in Data, NEW c2, NEW m2, Enqueued(c, m, d, c2, m2)
    PROVE  /\ c2 \in DTQCB /\ m2 \in Memory /\ RingOk(c2, m2)
           /\ c2.exists = c.exists /\ c2.dtqcnt = c.dtqcnt /\ c2.mballoc = c.mballoc
           /\ c2.count = c.count + 1
           /\ Ring(c2, m2) = Append(Ring(c, m), d)
<1>. DEFINE n == c.dtqcnt
            h == c.head
            k == c.count
<1>1. /\ Maxcnt \in Nat /\ n \in Nat /\ k \in Nat /\ h \in Nat /\ k < n /\ n <= Maxcnt
      /\ h < n /\ c.tail = Slot(n, h, k) /\ c.tail \in 0 .. n - 1
  BY RingNumbers DEF Slot
<1>2. /\ c2.exists = c.exists /\ c2.dtqcnt = n /\ c2.mballoc = c.mballoc
      /\ c2.count = k + 1 /\ c2.head = h /\ c2.tail = Advance(c, c.tail)
  BY DEF Enqueued, EnqueueData, DTQCB
<1>3. c2.tail = Slot(n, h, k + 1) /\ c2.tail \in 0 .. Maxcnt - 1
  <2>1. Advance(c, c.tail) = Slot(n, h, k + 1) /\ Advance(c, c.tail) \in 0 .. n - 1
    BY <1>1 DEF Advance, Slot
  <2>2. QED
    BY <2>1, <1>1, <1>2
<1>4. c2 \in DTQCB
  <2>1. c2 = [exists |-> c.exists, count |-> k + 1, head |-> h, tail |-> c2.tail,
              dtqcnt |-> n, mballoc |-> c.mballoc]
    BY <1>2 DEF Enqueued, EnqueueData, DTQCB
  <2>2. /\ c.exists \in BOOLEAN /\ c.mballoc \in BOOLEAN /\ h \in 0 .. Maxcnt - 1
        /\ k + 1 \in 0 .. Maxcnt /\ n \in 0 .. Maxcnt
    BY <1>1 DEF DTQCB
  <2>3. QED
    BY <2>1, <2>2, <1>3 DEF DTQCB
<1>5. m2 \in Memory /\ m2[c.tail] = d /\ \A j \in 0 .. Maxcnt - 1 : j # c.tail => m2[j] = m[j]
  BY <1>1 DEF Enqueued, Memory
<1>6. ASSUME NEW i \in 0 .. k - 1
      PROVE  m2[Slot(n, h, i)] = m[Slot(n, h, i)] /\ m2[Slot(n, h, i)] \in Data
  <2>1. Slot(n, h, i) # c.tail /\ Slot(n, h, i) \in 0 .. Maxcnt - 1
    BY <1>1 DEF Slot
  <2>2. m[Slot(n, h, i)] \in Data
    BY <1>1 DEF RingOk
  <2>3. QED
    BY <2>1, <2>2, <1>5
<1>7. m2[Slot(n, h, k)] = d
  BY <1>1, <1>5
<1>8. RingOk(c2, m2)
  <2>1. ASSUME NEW i \in 0 .. c2.count - 1
        PROVE  m2[Slot(c2.dtqcnt, c2.head, i)] \in Data
    <3>1. i \in 0 .. k - 1 \/ i = k
      BY <1>1, <1>2
    <3>2. QED
      BY <3>1, <1>2, <1>6, <1>7
  <2>2. QED
    BY <2>1, <1>1, <1>2, <1>3 DEF RingOk
<1>9. Ring(c2, m2) = Append(Ring(c, m), d)
  <2>1. Ring(c, m) \in Seq(Data) /\ Len(Ring(c, m)) = k
    BY RingIs
  <2>2. Ring(c2, m2) \in Seq(Data) /\ Len(Ring(c2, m2)) = k + 1
    BY <1>2, <1>4, <1>5, <1>8, RingIs
  <2>3. ASSUME NEW i \in 1 .. k + 1
        PROVE  Ring(c2, m2)[i] = Append(Ring(c, m), d)[i]
    <3>1. Ring(c2, m2)[i] = m2[Slot(n, h, i - 1)]
      BY <1>2 DEF Ring
    <3>2. CASE i = k + 1
      BY <3>1, <3>2, <2>1, <1>1, <1>7
    <3>3. CASE i # k + 1
      <4>1. i \in 1 .. k /\ i - 1 \in 0 .. k - 1
        BY <3>3, <1>1
      <4>2. Ring(c, m)[i] = m[Slot(n, h, i - 1)]
        BY <4>1 DEF Ring
      <4>3. QED
        BY <4>1, <4>2, <3>1, <1>6, <2>1
    <3>4. QED
      BY <3>2, <3>3
  <2>4. Append(Ring(c, m), d) \in Seq(Data) /\ Len(Append(Ring(c, m), d)) = k + 1
    BY <2>1
  <2>5. QED
    BY <2>2, <2>3, <2>4, SameSeq
<1>10. QED
  BY <1>2, <1>4, <1>5, <1>8, <1>9

LEMMA Dequeues ==
    ASSUME DtqAssumption, NEW c \in DTQCB, NEW m \in Memory, RingOk(c, m), c.count > 0,
           NEW c2, Dequeued(c, c2)
    PROVE  /\ c2 \in DTQCB /\ RingOk(c2, m)
           /\ c2.exists = c.exists /\ c2.dtqcnt = c.dtqcnt /\ c2.mballoc = c.mballoc
           /\ c2.count = c.count - 1 /\ c2.tail = c.tail
           /\ m[c.head] \in Data
           /\ Ring(c, m) # << >> /\ Head(Ring(c, m)) = m[c.head]
           /\ Ring(c2, m) = Tail(Ring(c, m))
<1>. DEFINE n == c.dtqcnt
            h == c.head
            k == c.count
<1>1. /\ Maxcnt \in Nat /\ n \in Nat /\ k \in Nat /\ h \in Nat /\ k <= n /\ n <= Maxcnt
      /\ h < n /\ c.tail = Slot(n, h, k) /\ k > 0
  BY RingNumbers
<1>2. /\ c2.exists = c.exists /\ c2.dtqcnt = n /\ c2.mballoc = c.mballoc
      /\ c2.count = k - 1 /\ c2.head = Advance(c, h) /\ c2.tail = c.tail
  BY DEF Dequeued, DequeueData, DTQCB
<1>3. Advance(c, h) \in 0 .. n - 1 /\ c.tail = Slot(n, Advance(c, h), k - 1)
  BY <1>1 DEF Advance, Slot
<1>4. c2 \in DTQCB
  <2>1. c2 = [exists |-> c.exists, count |-> k - 1, head |-> c2.head, tail |-> c.tail,
              dtqcnt |-> n, mballoc |-> c.mballoc]
    BY <1>2 DEF Dequeued, DequeueData, DTQCB
  <2>2. /\ c.exists \in BOOLEAN /\ c.mballoc \in BOOLEAN /\ c.tail \in 0 .. Maxcnt - 1
        /\ k - 1 \in 0 .. Maxcnt /\ n \in 0 .. Maxcnt /\ c2.head \in 0 .. Maxcnt - 1
    BY <1>1, <1>2, <1>3 DEF DTQCB
  <2>3. QED
    BY <2>1, <2>2 DEF DTQCB
<1>5. ASSUME NEW i \in 0 .. k - 2
      PROVE  Slot(n, Advance(c, h), i) = Slot(n, h, i + 1) /\ m[Slot(n, h, i + 1)] \in Data
  <2>1. Slot(n, Advance(c, h), i) = Slot(n, h, i + 1) /\ i + 1 \in 0 .. k - 1
    BY <1>1 DEF Advance, Slot
  <2>2. QED
    BY <2>1, <1>1 DEF RingOk
<1>6. RingOk(c2, m)
  <2>1. \A i \in 0 .. c2.count - 1 : m[Slot(c2.dtqcnt, c2.head, i)] \in Data
    BY <1>1, <1>2, <1>5
  <2>2. QED
    BY <2>1, <1>1, <1>2, <1>3 DEF RingOk
<1>7. Ring(c, m) \in Seq(Data) /\ Len(Ring(c, m)) = k
  BY RingIs
<1>8. Ring(c, m) # << >> /\ Head(Ring(c, m)) = m[h] /\ m[h] \in Data
  <2>1. Ring(c, m)[1] = m[Slot(n, h, 0)] /\ Slot(n, h, 0) = h /\ 0 \in 0 .. k - 1
    BY <1>1 DEF Ring, Slot
  <2>2. Ring(c, m)[1] \in Data
    BY <1>1, <1>7
  <2>3. QED
    BY <2>1, <2>2, <1>1, <1>7
<1>9. Ring(c2, m) = Tail(Ring(c, m))
  <2>1. Ring(c2, m) \in Seq(Data) /\ Len(Ring(c2, m)) = k - 1
    BY <1>2, <1>4, <1>6, RingIs
  <2>2. /\ Tail(Ring(c, m)) \in Seq(Data) /\ Len(Tail(Ring(c, m))) = k - 1
        /\ \A i \in 1 .. k - 1 : Tail(Ring(c, m))[i] = Ring(c, m)[i + 1]
    BY <1>1, <1>7, <1>8
  <2>3. ASSUME NEW i \in 1 .. k - 1
        PROVE  Ring(c2, m)[i] = Ring(c, m)[i + 1]
    <3>1. Ring(c2, m)[i] = m[Slot(n, Advance(c, h), i - 1)]
      BY <1>2 DEF Ring
    <3>2. i - 1 \in 0 .. k - 2 /\ (i - 1) + 1 = i /\ i + 1 \in 1 .. k /\ (i + 1) - 1 = i
      BY <1>1
    <3>3. Ring(c, m)[i + 1] = m[Slot(n, h, i)]
      BY <3>2 DEF Ring
    <3>4. QED
      BY <3>1, <3>2, <3>3, <1>5
  <2>4. QED
    BY <2>1, <2>2, <2>3
<1>10. QED
  BY <1>2, <1>4, <1>6, <1>8, <1>9

\* force_enqueue_data of a full ring: as dequeue_data and then enqueue_data.
LEMMA Forces ==
    ASSUME DtqAssumption, NEW c \in DTQCB, NEW m \in Memory, RingOk(c, m),
           c.count = c.dtqcnt, c.dtqcnt > 0
    PROVE  ForceEnqueueData(c) = EnqueueData(DequeueData(c))
<1>. DEFINE n == c.dtqcnt
<1>1. n \in Nat /\ n > 0 /\ c.head \in Nat /\ c.head < n /\ c.tail = Slot(n, c.head, n)
  BY RingNumbers
<1>2. c.tail = c.head
  BY <1>1 DEF Slot
<1>3. c = [exists |-> c.exists, count |-> n, head |-> c.head, tail |-> c.head,
           dtqcnt |-> n, mballoc |-> c.mballoc]
  BY <1>2 DEF DTQCB
<1>4. n - 1 + 1 = n /\ ~(n < n)
  BY <1>1
<1>5. DequeueData(c) = [c EXCEPT !.count = n - 1, !.head = Advance(c, c.head)]
  BY DEF DequeueData
<1>6. Advance(DequeueData(c), c.tail) = Advance(c, c.tail)
  BY <1>5, <1>3 DEF Advance
<1>7. EnqueueData(DequeueData(c)) = [c EXCEPT !.head = Advance(c, c.head), !.tail = Advance(c, c.head)]
  BY <1>1, <1>2, <1>3, <1>4, <1>5, <1>6 DEF EnqueueData
<1>8. ForceEnqueueData(c) = [c EXCEPT !.head = Advance(c, c.head), !.tail = Advance(c, c.head)]
  BY <1>2, <1>3, <1>4 DEF ForceEnqueueData
<1>9. QED
  BY <1>7, <1>8
----------------------------------------------------------------------------
\* The invariant of the data queues

\* The tasks S wait to send to the data queue with the control block c, the tasks
\* R wait to receive from it, and W is what the senders want to send.
DtqQueueOk(S, R, c, W) ==
    /\ R # {} => c.exists /\ c.count = 0 /\ S = {}
    /\ S # {} => c.exists /\ c.count = c.dtqcnt
    /\ \A t \in S : W[t] \in Data

\* WaitsOnlyIfNeeded, RingConsistent and MemoryReturned are inductive together
\* with the invariant of the waits, the order of the receivers and the list of
\* the free blocks.
DtqInv ==
    /\ DtqTypeOK
    /\ WaitOk(ker)
    /\ \A q \in Dtq :
          /\ RingOk(dtqcb[q], p_dtqmb[q])
          /\ DtqQueueOk(Waiters(ker)[Snd(q)], Waiters(ker)[Rcv(q)], dtqcb[q], winfo_obj)
          /\ Rcv(q) \notin ker.tpri
    /\ MemoryReturned
    /\ IsInjective(free_dtqcb)
    /\ Range(free_dtqcb) = {q \in Dtq : ~dtqcb[q].exists}

LEMMA DtqQueues ==
    ASSUME DtqAssumption, NEW q \in Dtq
    PROVE  /\ Snd(q) \in WaitQueue /\ Rcv(q) \in WaitQueue /\ Snd(q) # Rcv(q)
           /\ \A v \in Dtq : /\ Snd(v) # Rcv(q) /\ Rcv(v) # Snd(q)
                             /\ v # q => Snd(v) # Snd(q) /\ Rcv(v) # Rcv(q)
BY DEF DtqAssumption, Snd, Rcv

LEMMA EachIsDtqQueue ==
    ASSUME DtqAssumption, NEW w \in WaitQueue
    PROVE  \E q \in Dtq : w = Snd(q) \/ w = Rcv(q)
BY DEF DtqAssumption, Snd, Rcv

LEMMA DtqFacts ==
    ASSUME DtqAssumption, DtqInv, NEW q \in Dtq
    PROVE  /\ WaitOk(ker) /\ ker \in KerType
           /\ Waiters(ker)[Snd(q)] = Range(ker.wait[Snd(q)])
           /\ Waiters(ker)[Rcv(q)] = Range(ker.wait[Rcv(q)])
           /\ ker.wait[Snd(q)] \in Seq(Tsk) /\ ker.wait[Rcv(q)] \in Seq(Tsk)
           /\ ker.wait[Snd(q)] = << >> <=> Waiters(ker)[Snd(q)] = {}
           /\ ker.wait[Rcv(q)] = << >> <=> Waiters(ker)[Rcv(q)] = {}
           /\ dtqcb \in [Dtq -> DTQCB] /\ dtqcb[q] \in DTQCB
           /\ p_dtqmb \in [Dtq -> Memory] /\ p_dtqmb[q] \in Memory
           /\ winfo_obj \in [Tsk -> Data \cup {NULL}]
           /\ free_dtqcb \in Seq(DynamicDtq) /\ IsInjective(free_dtqcb)
           /\ q \in Range(free_dtqcb) <=> ~dtqcb[q].exists
           /\ q \in mpk <=> dtqcb[q].exists /\ dtqcb[q].mballoc
           /\ RingOk(dtqcb[q], p_dtqmb[q])
           /\ DtqQueueOk(Waiters(ker)[Snd(q)], Waiters(ker)[Rcv(q)], dtqcb[q], winfo_obj)
           /\ Rcv(q) \notin ker.tpri
<1>1. WaitOk(ker) /\ ker \in KerType /\ Snd(q) \in WaitQueue /\ Rcv(q) \in WaitQueue
  BY DtqQueues DEF DtqInv, WaitOk
<1>2. /\ Waiters(ker)[Snd(q)] = Range(ker.wait[Snd(q)]) /\ ker.wait[Snd(q)] \in Seq(Tsk)
      /\ Waiters(ker)[Rcv(q)] = Range(ker.wait[Rcv(q)]) /\ ker.wait[Rcv(q)] \in Seq(Tsk)
  BY <1>1, KerFields DEF Waiters
<1>3. /\ ker.wait[Snd(q)] = << >> <=> Waiters(ker)[Snd(q)] = {}
      /\ ker.wait[Rcv(q)] = << >> <=> Waiters(ker)[Rcv(q)] = {}
  BY <1>1, WaitersEmpty
<1>4. /\ dtqcb \in [Dtq -> DTQCB] /\ p_dtqmb \in [Dtq -> Memory]
      /\ winfo_obj \in [Tsk -> Data \cup {NULL}] /\ free_dtqcb \in Seq(DynamicDtq)
  BY DEF DtqInv, DtqTypeOK, Memory
<1>5. QED
  BY <1>1, <1>2, <1>3, <1>4 DEF DtqInv, MemoryReturned

\* The invariant gives the properties.
LEMMA DtqProperties ==
    ASSUME DtqAssumption, DtqInv
    PROVE  WaitsOnlyIfNeeded /\ RingConsistent
<1>1. WaitsOnlyIfNeeded
  <2>1. ASSUME NEW q \in Dtq
        PROVE  /\ ker.wait[Rcv(q)] # << >> =>
                     dtqcb[q].exists /\ dtqcb[q].count = 0 /\ ker.wait[Snd(q)] = << >>
               /\ ker.wait[Snd(q)] # << >> =>
                     dtqcb[q].exists /\ dtqcb[q].count = dtqcb[q].dtqcnt
    BY DtqFacts DEF DtqQueueOk
  <2>2. QED
    BY <2>1 DEF WaitsOnlyIfNeeded
<1>2. RingConsistent
  <2>1. ASSUME NEW q \in Dtq
        PROVE  LET cb == dtqcb[q] IN
                 /\ cb.count <= cb.dtqcnt
                 /\ cb.dtqcnt > 0 =>
                       /\ cb.head < cb.dtqcnt
                       /\ cb.tail = (cb.head + cb.count) % cb.dtqcnt
                       /\ \A i \in 0 .. cb.count - 1 :
                             p_dtqmb[q][(cb.head + i) % cb.dtqcnt] \in Data
    <3>1. dtqcb[q] \in DTQCB /\ p_dtqmb[q] \in Memory /\ RingOk(dtqcb[q], p_dtqmb[q])
      BY DtqFacts
    <3>2. QED
      BY <3>1, RingIs, RingNumbers
  <2>2. QED
    BY <2>1 DEF RingConsistent
<1>3. QED
  BY <1>1, <1>2

\* What the tasks of the queue s want to send.
Given(s, W) == [i \in DOMAIN s |-> W[s[i]]]

\* Contents, of one control block, its memory and its waiting senders s.
Line(c, m, s, W) == IF ~c.exists THEN << >> ELSE Ring(c, m) \o Given(s, W)

Lines == [q \in Dtq |-> Line(dtqcb[q], p_dtqmb[q], ker.wait[Snd(q)], winfo_obj)]

Rooms == [q \in Dtq |-> dtqcb[q].dtqcnt]

LEMMA ContentsAre ==
    ASSUME DtqAssumption, DtqInv
    PROVE  [q \in Dtq |-> Contents(q)] = Lines
<1>1. ASSUME NEW q \in Dtq
      PROVE  Contents(q) = Line(dtqcb[q], p_dtqmb[q], ker.wait[Snd(q)], winfo_obj)
  <2>1. dtqcb[q] \in DTQCB /\ p_dtqmb[q] \in Memory /\ RingOk(dtqcb[q], p_dtqmb[q])
    BY DtqFacts
  <2>2. Ring(dtqcb[q], p_dtqmb[q]) =
          [i \in 1 .. dtqcb[q].count |-> p_dtqmb[q][(dtqcb[q].head + i - 1) % dtqcb[q].dtqcnt]]
    BY <2>1, RingIs
  <2>3. QED
    BY <2>2 DEF Contents, Line, Given
<1>2. QED
  BY <1>1 DEF Lines

\* The same in the next state.
LEMMA ContentsWillBe ==
    ASSUME DtqAssumption, \A q \in Dtq : /\ dtqcb'[q] \in DTQCB /\ p_dtqmb'[q] \in Memory
                                         /\ RingOk(dtqcb'[q], p_dtqmb'[q])
    PROVE  [q \in Dtq |-> Contents(q)]' = Lines'
<1>1. ASSUME NEW q \in Dtq
      PROVE  Contents(q)' = Line(dtqcb'[q], p_dtqmb'[q], ker'.wait[Snd(q)], winfo_obj')
  <2>1. Ring(dtqcb'[q], p_dtqmb'[q]) =
          [i \in 1 .. dtqcb'[q].count |-> p_dtqmb'[q][(dtqcb'[q].head + i - 1) % dtqcb'[q].dtqcnt]]
    BY RingIs
  <2>2. QED
    BY <2>1 DEF Contents, Line, Given
<1>2. QED
  BY <1>1 DEF Lines

\* A task that waits is in one of the queues, and one that executes in none.
LEMMA DtqWaiter ==
    ASSUME WaitAssumption, DtqAssumption, NEW k, WaitOk(k), NEW t \in Tsk,
           NEW w \in WaitQueue, t \in Waiters(k)[w]
    PROVE  "WAITING" \in k.tcb[t].tstat /\ k.tcb[t].p_wobjcb = w
<1>1. Waiters(k)[w] = Range(k.wait[w]) /\ QueueOk(k, w) /\ TcbOk(k.tcb[t])
  BY DEF Waiters, WaitOk
<1>2. QED
  BY <1>1 DEF QueueOk, TcbOk, WaitAssumption

\* What the waiting senders of a data queue hold.
LEMMA SentIsData ==
    ASSUME DtqAssumption, DtqInv, NEW q \in Dtq, NEW s, s = ker.wait[Snd(q)]
    PROVE  Given(s, winfo_obj) \in Seq(Data) /\ Len(Given(s, winfo_obj)) = Len(s)
<1>1. s \in Seq(Tsk) /\ DOMAIN s = 1 .. Len(s) /\ Len(s) \in Nat
  BY DtqFacts
<1>2. ASSUME NEW i \in DOMAIN s
      PROVE  winfo_obj[s[i]] \in Data
  <2>1. s[i] \in Range(s)
    BY <1>1 DEF Range
  <2>2. QED
    BY <2>1, DtqFacts DEF DtqQueueOk
<1>3. QED
  BY <1>1, <1>2 DEF Given
----------------------------------------------------------------------------
\* Steps

\* Nothing changes for the other data queues.
OthersAsBefore(q) ==
    \A v \in Dtq : v # q =>
        /\ ker'.wait[Snd(v)] = ker.wait[Snd(v)] /\ ker'.wait[Rcv(v)] = ker.wait[Rcv(v)]
        /\ \A u \in Range(ker.wait[Snd(v)]) : winfo_obj'[u] = winfo_obj[u]

\* The memory allocated and the free list when the control block is c.
Allotted(q, c) ==
    /\ mpk' = IF c.exists /\ c.mballoc THEN mpk \cup {q} ELSE mpk \ {q}
    /\ free_dtqcb' \in Seq(DynamicDtq) /\ IsInjective(free_dtqcb')
    /\ Range(free_dtqcb') = IF c.exists THEN Range(free_dtqcb) \ {q}
                                        ELSE Range(free_dtqcb) \cup {q}

\* A step that changes one data queue.
LEMMA DtqSet ==
    ASSUME WaitAssumption, DtqAssumption, DtqInv, WaitOk(ker'), NEW q \in Dtq,
           NEW c \in DTQCB, dtqcb' = [dtqcb EXCEPT ![q] = c],
           NEW m \in Memory, p_dtqmb' = [p_dtqmb EXCEPT ![q] = m], RingOk(c, m),
           winfo_obj' \in [Tsk -> Data \cup {NULL}], OthersAsBefore(q),
           DtqQueueOk(Waiters(ker')[Snd(q)], Waiters(ker')[Rcv(q)], c, winfo_obj'),
           \A v \in Dtq : Rcv(v) \notin ker'.tpri, Allotted(q, c)
    PROVE  /\ DtqInv'
           /\ Rooms' = [Rooms EXCEPT ![q] = c.dtqcnt]
           /\ Lines' = [Lines EXCEPT ![q] = Line(c, m, ker'.wait[Snd(q)], winfo_obj')]
<1>1. /\ dtqcb \in [Dtq -> DTQCB] /\ p_dtqmb \in [Dtq -> Memory]
      /\ mpk = {v \in Dtq : dtqcb[v].exists /\ dtqcb[v].mballoc}
      /\ Range(free_dtqcb) = {v \in Dtq : ~dtqcb[v].exists}
      /\ mpk \subseteq Dtq
  BY DEF DtqInv, DtqTypeOK, Memory, MemoryReturned
<1>2. /\ dtqcb' \in [Dtq -> DTQCB] /\ p_dtqmb' \in [Dtq -> Memory]
      /\ \A v \in Dtq : dtqcb'[v] = IF v = q THEN c ELSE dtqcb[v]
      /\ \A v \in Dtq : p_dtqmb'[v] = IF v = q THEN m ELSE p_dtqmb[v]
  BY <1>1
<1>3. ASSUME NEW v \in Dtq
      PROVE  /\ RingOk(dtqcb'[v], p_dtqmb'[v])
             /\ DtqQueueOk(Waiters(ker')[Snd(v)], Waiters(ker')[Rcv(v)], dtqcb'[v], winfo_obj')
  <2>1. CASE v = q
    BY <2>1, <1>2
  <2>2. CASE v # q
    <3>1. /\ RingOk(dtqcb[v], p_dtqmb[v])
          /\ DtqQueueOk(Waiters(ker)[Snd(v)], Waiters(ker)[Rcv(v)], dtqcb[v], winfo_obj)
          /\ Snd(v) \in WaitQueue /\ Rcv(v) \in WaitQueue
          /\ Waiters(ker)[Snd(v)] = Range(ker.wait[Snd(v)])
      BY DtqFacts, DtqQueues
    <3>2. /\ Waiters(ker')[Snd(v)] = Waiters(ker)[Snd(v)]
          /\ Waiters(ker')[Rcv(v)] = Waiters(ker)[Rcv(v)]
          /\ \A u \in Waiters(ker)[Snd(v)] : winfo_obj'[u] = winfo_obj[u]
      BY <2>2, <3>1 DEF OthersAsBefore, Waiters
    <3>3. dtqcb'[v] = dtqcb[v] /\ p_dtqmb'[v] = p_dtqmb[v]
      BY <2>2, <1>2
    <3>4. QED
      BY <3>1, <3>2, <3>3 DEF DtqQueueOk
  <2>3. QED
    BY <2>1, <2>2
<1>4. MemoryReturned'
  <2>1. mpk' = {v \in Dtq : dtqcb'[v].exists /\ dtqcb'[v].mballoc}
    BY <1>1, <1>2 DEF Allotted
  <2>2. QED
    BY <2>1 DEF MemoryReturned
<1>5. Range(free_dtqcb') = {v \in Dtq : ~dtqcb'[v].exists}
  BY <1>1, <1>2 DEF Allotted
<1>6. DtqTypeOK'
  <2>1. ASSUME NEW v \in Dtq, NEW t \in Range(ker'.wait[Snd(v)])
        PROVE  winfo_obj'[t] \in Data
    <3>1. Snd(v) \in WaitQueue
      BY DtqQueues
    <3>2. t \in Waiters(ker')[Snd(v)]
      BY <3>1 DEF Waiters
    <3>3. QED
      BY <3>2, <1>3 DEF DtqQueueOk
  <2>2. mpk' \subseteq Dtq
    BY <1>1 DEF Allotted
  <2>3. QED
    BY <2>1, <2>2, <1>2 DEF DtqTypeOK, Memory, WaitOk, Allotted
<1>7. DtqInv'
  BY <1>3, <1>4, <1>5, <1>6 DEF DtqInv, Allotted
<1>8. Rooms' = [Rooms EXCEPT ![q] = c.dtqcnt]
  <2>1. \A v \in Dtq : dtqcb'[v].dtqcnt = IF v = q THEN c.dtqcnt ELSE dtqcb[v].dtqcnt
    BY <1>2
  <2>2. QED
    BY <2>1 DEF Rooms
<1>9. Lines' = [Lines EXCEPT ![q] = Line(c, m, ker'.wait[Snd(q)], winfo_obj')]
  <2>1. ASSUME NEW v \in Dtq, v # q
        PROVE  Line(dtqcb'[v], p_dtqmb'[v], ker'.wait[Snd(v)], winfo_obj')
                 = Line(dtqcb[v], p_dtqmb[v], ker.wait[Snd(v)], winfo_obj)
    <3>. DEFINE s == ker.wait[Snd(v)]
    <3>1. dtqcb'[v] = dtqcb[v] /\ p_dtqmb'[v] = p_dtqmb[v] /\ ker'.wait[Snd(v)] = s
      BY <2>1, <1>2 DEF OthersAsBefore
    <3>2. \A i \in DOMAIN s : s[i] \in Range(s)
      BY DEF Range
    <3>3. \A i \in DOMAIN s : winfo_obj'[s[i]] = winfo_obj[s[i]]
      BY <2>1, <3>2 DEF OthersAsBefore
    <3>4. Given(s, winfo_obj') = Given(s, winfo_obj)
      BY <3>3 DEF Given
    <3>5. QED
      BY <3>1, <3>4 DEF Line
  <2>2. \A v \in Dtq : Line(dtqcb'[v], p_dtqmb'[v], ker'.wait[Snd(v)], winfo_obj')
           = IF v = q THEN Line(c, m, ker'.wait[Snd(q)], winfo_obj')
             ELSE Line(dtqcb[v], p_dtqmb[v], ker.wait[Snd(v)], winfo_obj)
    BY <2>1, <1>2
  <2>3. QED
    BY <2>2 DEF Lines
<1>10. QED
  BY <1>7, <1>8, <1>9

\* A step that changes no data queue, and after which nobody waits who did not
\* wait before.
LEMMA DtqSame ==
    ASSUME WaitAssumption, DtqAssumption, DtqInv, WaitOk(ker'), ker'.tpri = ker.tpri,
           UNCHANGED <<dtqcb, p_dtqmb, free_dtqcb, mpk, winfo_obj>>,
           \A w \in WaitQueue : Waiters(ker')[w] \subseteq Waiters(ker)[w]
    PROVE  DtqInv'
<1>1. /\ dtqcb' = dtqcb /\ p_dtqmb' = p_dtqmb /\ free_dtqcb' = free_dtqcb
      /\ mpk' = mpk /\ winfo_obj' = winfo_obj
  OBVIOUS
<1>2. ASSUME NEW q \in Dtq
      PROVE  /\ RingOk(dtqcb'[q], p_dtqmb'[q])
             /\ DtqQueueOk(Waiters(ker')[Snd(q)], Waiters(ker')[Rcv(q)], dtqcb'[q], winfo_obj')
             /\ Rcv(q) \notin ker'.tpri
             /\ \A t \in Range(ker'.wait[Snd(q)]) : winfo_obj'[t] \in Data
  <2>1. /\ RingOk(dtqcb[q], p_dtqmb[q]) /\ Rcv(q) \notin ker.tpri
        /\ DtqQueueOk(Waiters(ker)[Snd(q)], Waiters(ker)[Rcv(q)], dtqcb[q], winfo_obj)
        /\ Snd(q) \in WaitQueue /\ Rcv(q) \in WaitQueue
    BY DtqFacts, DtqQueues
  <2>2. /\ Waiters(ker')[Snd(q)] \subseteq Waiters(ker)[Snd(q)]
        /\ Waiters(ker')[Rcv(q)] \subseteq Waiters(ker)[Rcv(q)]
        /\ Waiters(ker')[Snd(q)] = Range(ker'.wait[Snd(q)])
    BY <2>1 DEF Waiters
  <2>3. DtqQueueOk(Waiters(ker')[Snd(q)], Waiters(ker')[Rcv(q)], dtqcb[q], winfo_obj)
    BY <2>1, <2>2 DEF DtqQueueOk
  <2>4. QED
    BY <1>1, <2>1, <2>2, <2>3 DEF DtqQueueOk
<1>3. DtqTypeOK'
  BY <1>1, <1>2 DEF DtqInv, DtqTypeOK, WaitOk
<1>4. MemoryReturned'
  BY <1>1 DEF DtqInv, MemoryReturned
<1>5. QED
  BY <1>1, <1>2, <1>3, <1>4 DEF DtqInv

\* The memory and the free list while a data queue stays what it is.
LEMMA DtqAllottedKept ==
    ASSUME DtqAssumption, DtqInv, NEW q \in Dtq, NEW c, c.exists = dtqcb[q].exists,
           c.mballoc = dtqcb[q].mballoc, free_dtqcb' = free_dtqcb, mpk' = mpk
    PROVE  Allotted(q, c)
<1>1. /\ free_dtqcb \in Seq(DynamicDtq) /\ IsInjective(free_dtqcb)
      /\ q \in Range(free_dtqcb) <=> ~dtqcb[q].exists
      /\ q \in mpk <=> dtqcb[q].exists /\ dtqcb[q].mballoc
  BY DtqFacts
<1>2. QED
  BY <1>1 DEF Allotted

----------------------------------------------------------------------------
\* The steps of the channels

AsLines ==
    /\ [q \in Dtq |-> Contents(q)] = Lines
    /\ [q \in Dtq |-> Contents(q)]' = Lines'

LEMMA SeenAsLines ==
    ASSUME DtqAssumption, DtqInv, DtqInv'
    PROVE  AsLines
<1>1. \A q \in Dtq : /\ dtqcb'[q] \in DTQCB /\ p_dtqmb'[q] \in Memory
                     /\ RingOk(dtqcb'[q], p_dtqmb'[q])
  BY DEF DtqInv, DtqTypeOK, Memory
<1>2. QED
  BY <1>1, ContentsAre, ContentsWillBe DEF AsLines

LEMMA ChannelPut ==
    ASSUME AsLines, NEW q \in Dtq, NEW d \in Data, Rooms' = Rooms, winfo_obj' = winfo_obj,
           Lines' = [Lines EXCEPT ![q] = Append(@, d)]
    PROVE  FifoStep
<1>1. Channel!Put(q, d)
  BY DEF Channel!Put, Rooms, AsLines
<1>2. QED
  BY <1>1 DEF FifoStep, Channel!FifoNext

LEMMA ChannelPutWaiting ==
    ASSUME AsLines, NEW q \in Dtq, NEW t \in Tsk, NEW d \in Data, Rooms' = Rooms,
           winfo_obj' = [winfo_obj EXCEPT ![t] = d],
           Lines' = [Lines EXCEPT ![q] = Append(@, d)]
    PROVE  FifoStep
<1>1. Channel!PutWaiting(q, t, d)
  BY DEF Channel!PutWaiting, Rooms, AsLines
<1>2. QED
  BY <1>1 DEF FifoStep, Channel!FifoNext

LEMMA ChannelForce ==
    ASSUME AsLines, NEW q \in Dtq, NEW d \in Data, Rooms' = Rooms, winfo_obj' = winfo_obj,
           Rooms[q] > 0, Len(Lines[q]) >= Rooms[q],
           Lines' = [Lines EXCEPT ![q] = Tail(InsertAt(@, Rooms[q] + 1, d))]
    PROVE  FifoStep
<1>1. Channel!Force(q, d)
  BY DEF Channel!Force, Channel!InsertAt, InsertAt, Rooms, AsLines
<1>2. QED
  BY <1>1 DEF FifoStep, Channel!FifoNext

LEMMA ChannelGet ==
    ASSUME AsLines, NEW q \in Dtq, NEW t \in Tsk, Rooms' = Rooms, Lines[q] # << >>,
           winfo_obj' = [winfo_obj EXCEPT ![t] = Head(Lines[q])],
           Lines' = [Lines EXCEPT ![q] = Tail(@)]
    PROVE  FifoStep
<1>1. Channel!Get(q, t)
  BY DEF Channel!Get, Rooms, AsLines
<1>2. QED
  BY <1>1 DEF FifoStep, Channel!FifoNext

LEMMA ChannelPass ==
    ASSUME AsLines, NEW q \in Dtq, NEW t \in Tsk, NEW d \in Data, Rooms' = Rooms,
           Lines[q] = << >>, winfo_obj' = [winfo_obj EXCEPT ![t] = d], Lines' = Lines
    PROVE  FifoStep
<1>1. Channel!Pass(q, t, d)
  BY DEF Channel!Pass, Rooms, AsLines
<1>2. QED
  BY <1>1 DEF FifoStep, Channel!FifoNext

LEMMA ChannelWithdraw ==
    ASSUME AsLines, NEW q \in Dtq, NEW i \in DOMAIN Lines[q], i > Rooms[q], Rooms' = Rooms,
           winfo_obj' = winfo_obj, Lines' = [Lines EXCEPT ![q] = RemoveAt(@, i)]
    PROVE  FifoStep
<1>1. Channel!Withdraw(q, i) /\ i \in DOMAIN [v \in Dtq |-> Contents(v)][q]
  BY DEF Channel!Withdraw, Channel!RemoveAt, RemoveAt, Rooms, AsLines
<1>2. QED
  BY <1>1 DEF FifoStep, Channel!FifoNext

LEMMA ChannelReset ==
    ASSUME AsLines, NEW q \in Dtq, NEW n, Rooms' = [Rooms EXCEPT ![q] = n],
           winfo_obj' = winfo_obj, Lines' = [Lines EXCEPT ![q] = << >>]
    PROVE  FifoStep
<1>1. Rooms'[q] = n
  BY DEF Rooms
<1>2. Rooms' = [Rooms EXCEPT ![q] = Rooms'[q]]
  BY <1>1
<1>3. Channel!Reset(q)
  BY <1>2 DEF Channel!Reset, Rooms, AsLines
<1>4. QED
  BY <1>3 DEF FifoStep, Channel!FifoNext

LEMMA ChannelStutters ==
    ASSUME AsLines, Rooms' = Rooms, winfo_obj' = winfo_obj, Lines' = Lines
    PROVE  FifoStep
<1>1. UNCHANGED Channel!fifoVars
  BY DEF Channel!fifoVars, Rooms, AsLines
<1>2. QED
  BY <1>1 DEF FifoStep

\* What a data queue holds, in pieces.
LEMMA LineFacts ==
    ASSUME DtqAssumption, DtqInv, NEW q \in Dtq, dtqcb[q].exists,
           NEW r, r = Ring(dtqcb[q], p_dtqmb[q]), NEW g, g = Given(ker.wait[Snd(q)], winfo_obj)
    PROVE  /\ r \in Seq(Data) /\ Len(r) = dtqcb[q].count
           /\ g \in Seq(Data) /\ Len(g) = Len(ker.wait[Snd(q)])
           /\ Lines[q] = r \o g
           /\ ker.wait[Snd(q)] = << >> => g = << >> /\ Lines[q] = r
<1>1. r \in Seq(Data) /\ Len(r) = dtqcb[q].count
  BY DtqFacts, RingIs
<1>2. g \in Seq(Data) /\ Len(g) = Len(ker.wait[Snd(q)])
  BY SentIsData
<1>3. Lines[q] = r \o g
  BY DEF Lines, Line
<1>4. ASSUME ker.wait[Snd(q)] = << >>
      PROVE  g = << >> /\ r \o g = r
  <2>1. Len(g) = 0
    BY <1>2, <1>4
  <2>2. g = << >>
    BY <1>2, <2>1
  <2>3. QED
    BY <2>2, <1>1
<1>5. QED
  BY <1>1, <1>2, <1>3, <1>4

LEMMA GivenTail ==
    ASSUME NEW s \in Seq(Tsk), s # << >>, NEW W, NEW W2,
           \A u \in Range(Tail(s)) : W2[u] = W[u]
    PROVE  Head(Given(s, W)) = W[Head(s)] /\ Given(Tail(s), W2) = Tail(Given(s, W))
<1>1. /\ Len(s) \in Nat \ {0} /\ DOMAIN s = 1 .. Len(s) /\ Head(s) = s[1]
      /\ Tail(s) \in Seq(Tsk) /\ Len(Tail(s)) = Len(s) - 1
      /\ \A i \in 1 .. Len(s) - 1 : Tail(s)[i] = s[i + 1]
  OBVIOUS
<1>2. DOMAIN Tail(s) = 1 .. Len(s) - 1
  BY <1>1
<1>3. Given(Tail(s), W2) = [i \in 1 .. Len(s) - 1 |-> W[s[i + 1]]]
  <2>1. ASSUME NEW i \in 1 .. Len(s) - 1
        PROVE  W2[Tail(s)[i]] = W[s[i + 1]]
    <3>1. Tail(s)[i] \in Range(Tail(s)) /\ Tail(s)[i] = s[i + 1]
      BY <1>1, <1>2 DEF Range
    <3>2. QED
      BY <3>1
  <2>2. QED
    BY <2>1, <1>2 DEF Given
<1>. DEFINE g == Given(s, W)
<1>4. g = [i \in 1 .. Len(s) |-> W[s[i]]]
  BY <1>1 DEF Given
<1>5. Len(g) = Len(s) /\ Head(g) = W[Head(s)]
  BY <1>1, <1>4
<1>6. Tail(g) = [i \in 1 .. Len(s) - 1 |-> W[s[i + 1]]]
  <2>1. Tail(g) = [i \in 1 .. Len(g) - 1 |-> g[i + 1]]
    BY <1>1, <1>4, <1>5
  <2>2. \A i \in 1 .. Len(s) - 1 : i + 1 \in 1 .. Len(s)
    BY <1>1
  <2>3. QED
    BY <2>1, <2>2, <1>4, <1>5
<1>7. QED
  BY <1>3, <1>5, <1>6

LEMMA GivenAppend ==
    ASSUME NEW s \in Seq(Tsk), NEW t \in Tsk, NEW W, Given(s, W) \in Seq(Data),
           NEW d \in Data, NEW W2, W2[t] = d, \A u \in Range(s) : W2[u] = W[u]
    PROVE  Given(Append(s, t), W2) = Append(Given(s, W), d)
<1>. DEFINE n == Len(s)
            a == Given(Append(s, t), W2)
            b == Append(Given(s, W), d)
<1>1. /\ n \in Nat /\ DOMAIN s = 1 .. n /\ Len(Append(s, t)) = n + 1
      /\ DOMAIN Append(s, t) = 1 .. n + 1 /\ Append(s, t)[n + 1] = t
      /\ \A i \in 1 .. n : Append(s, t)[i] = s[i]
  OBVIOUS
<1>2. a = [i \in 1 .. n + 1 |-> IF i = n + 1 THEN d ELSE W[s[i]]]
  <2>1. ASSUME NEW i \in 1 .. n + 1
        PROVE  W2[Append(s, t)[i]] = IF i = n + 1 THEN d ELSE W[s[i]]
    <3>1. CASE i = n + 1
      BY <3>1, <1>1
    <3>2. CASE i # n + 1
      <4>1. i \in 1 .. n /\ Append(s, t)[i] = s[i] /\ s[i] \in Range(s)
        BY <3>2, <1>1 DEF Range
      <4>2. QED
        BY <4>1, <3>2
    <3>3. QED
      BY <3>1, <3>2
  <2>2. QED
    BY <2>1, <1>1 DEF Given
<1>3. Given(s, W) = [i \in 1 .. n |-> W[s[i]]] /\ Len(Given(s, W)) = n
  BY <1>1 DEF Given
<1>4. \A i \in 1 .. n : W[s[i]] \in Data
  BY <1>3
<1>5. a \in Seq(Data) /\ Len(a) = n + 1
  BY <1>1, <1>2, <1>4
<1>6. b \in Seq(Data) /\ Len(b) = n + 1
  BY <1>1, <1>3
<1>7. ASSUME NEW i \in 1 .. n + 1
      PROVE  a[i] = b[i]
  BY <1>1, <1>2, <1>3
<1>8. QED
  BY <1>5, <1>6, <1>7, SameSeq

LEMMA GivenRemoved ==
    ASSUME NEW s \in Seq(Tsk), NEW i \in 1 .. Len(s), NEW s2 \in Seq(Tsk), Removed(s, i, s2),
           NEW W, Given(s, W) \in Seq(Data)
    PROVE  /\ Given(s2, W) \in Seq(Data) /\ Removed(Given(s, W), i, Given(s2, W))
           /\ Len(Given(s, W)) = Len(s)
<1>. DEFINE n == Len(s)
<1>1. n \in Nat /\ DOMAIN s = 1 .. n /\ DOMAIN s2 = 1 .. n - 1 /\ n - 1 \in Nat
  BY DEF Removed
<1>2. Given(s, W) = [j \in 1 .. n |-> W[s[j]]] /\ Len(Given(s, W)) = n
  BY <1>1 DEF Given
<1>3. \A j \in 1 .. n : W[s[j]] \in Data
  BY <1>2
<1>4. ASSUME NEW j \in 1 .. n - 1
      PROVE  W[s2[j]] = IF j < i THEN W[s[j]] ELSE W[s[j + 1]]
  BY DEF Removed
<1>5. ASSUME NEW j \in 1 .. n - 1
      PROVE  W[s2[j]] \in Data
  <2>1. j \in 1 .. n /\ j + 1 \in 1 .. n
    BY <1>1
  <2>2. QED
    BY <2>1, <1>3, <1>4
<1>6. Given(s2, W) = [j \in 1 .. n - 1 |-> W[s2[j]]]
  BY <1>1 DEF Given
<1>7. Given(s2, W) \in Seq(Data) /\ Len(Given(s2, W)) = n - 1
  BY <1>1, <1>5, <1>6
<1>8. ASSUME NEW j \in 1 .. n - 1
      PROVE  Given(s2, W)[j] = IF j < i THEN Given(s, W)[j] ELSE Given(s, W)[j + 1]
  <2>1. j \in 1 .. n /\ j + 1 \in 1 .. n
    BY <1>1
  <2>2. QED
    BY <2>1, <1>2, <1>4, <1>6
<1>9. QED
  BY <1>2, <1>7, <1>8 DEF Removed

\* The end of a concatenation, its beginning, and what is inserted between.
LEMMA AppendRight ==
    ASSUME NEW S, NEW r \in Seq(S), NEW g \in Seq(S), NEW d \in S
    PROVE  r \o Append(g, d) = Append(r \o g, d)
<1>1. /\ r \o Append(g, d) \in Seq(S) /\ Append(r \o g, d) \in Seq(S)
      /\ Len(r \o Append(g, d)) = Len(r) + Len(g) + 1
      /\ Len(Append(r \o g, d)) = Len(r) + Len(g) + 1
  OBVIOUS
<1>2. ASSUME NEW i \in 1 .. Len(r) + Len(g) + 1
      PROVE  (r \o Append(g, d))[i] = Append(r \o g, d)[i]
  OBVIOUS
<1>3. QED
  BY <1>1, <1>2, SameSeq

LEMMA TailLeft ==
    ASSUME NEW S, NEW r \in Seq(S), NEW g \in Seq(S), r # << >>
    PROVE  Head(r \o g) = Head(r) /\ Tail(r \o g) = Tail(r) \o g /\ r \o g # << >>
<1>1. /\ Tail(r) \o g \in Seq(S) /\ r \o g \in Seq(S) /\ Len(r) \in Nat \ {0}
      /\ Len(Tail(r) \o g) = Len(r) - 1 + Len(g) /\ Len(r \o g) = Len(r) + Len(g)
  OBVIOUS
<1>2. r \o g # << >> /\ Tail(r \o g) \in Seq(S) /\ Len(Tail(r \o g)) = Len(r) - 1 + Len(g)
  BY <1>1
<1>3. ASSUME NEW i \in 1 .. Len(r) - 1 + Len(g)
      PROVE  Tail(r \o g)[i] = (Tail(r) \o g)[i]
  BY <1>1, <1>2
<1>4. Head(r \o g) = Head(r)
  BY <1>1
<1>5. QED
  BY <1>1, <1>2, <1>3, <1>4, SameSeq

LEMMA MoveOver ==
    ASSUME NEW S, NEW r \in Seq(S), NEW g \in Seq(S), g # << >>
    PROVE  Append(r, Head(g)) \o Tail(g) = r \o g
<1>1. /\ Append(r, Head(g)) \o Tail(g) \in Seq(S) /\ r \o g \in Seq(S) /\ Len(g) \in Nat \ {0}
      /\ Len(Append(r, Head(g)) \o Tail(g)) = Len(r) + Len(g) /\ Len(r \o g) = Len(r) + Len(g)
  OBVIOUS
<1>2. ASSUME NEW i \in 1 .. Len(r) + Len(g)
      PROVE  (Append(r, Head(g)) \o Tail(g))[i] = (r \o g)[i]
  <2>1. CASE i <= Len(r)
    BY <2>1, <1>1
  <2>2. CASE i = Len(r) + 1
    BY <2>2, <1>1
  <2>3. CASE i > Len(r) + 1
    BY <2>3, <1>1
  <2>4. QED
    BY <2>1, <2>2, <2>3
<1>3. QED
  BY <1>1, <1>2, SameSeq

LEMMA InsertBetween ==
    ASSUME NEW S, NEW r \in Seq(S), NEW g \in Seq(S), NEW d \in S
    PROVE  InsertAt(r \o g, Len(r) + 1, d) = Append(r, d) \o g
<1>. DEFINE a == InsertAt(r \o g, Len(r) + 1, d)
            b == Append(r, d) \o g
            n == Len(r)
<1>1. n \in Nat /\ r \o g \in Seq(S) /\ Len(r \o g) = n + Len(g) /\ Len(g) \in Nat
      /\ n + 1 \in 1 .. Len(r \o g) + 1
  OBVIOUS
<1>2. a \in Seq(S) /\ Inserted(r \o g, n + 1, d, a)
  BY <1>1, InsertPositions
<1>3. b \in Seq(S) /\ Len(b) = n + 1 + Len(g)
  OBVIOUS
<1>4. /\ Len(a) = n + Len(g) + 1
      /\ \A j \in 1 .. n + Len(g) + 1 :
            a[j] = IF j < n + 1 THEN (r \o g)[j] ELSE IF j = n + 1 THEN d ELSE (r \o g)[j - 1]
  BY <1>1, <1>2 DEF Inserted
<1>. HIDE DEF a
<1>5. ASSUME NEW j \in 1 .. n + Len(g) + 1
      PROVE  a[j] = b[j]
  <2>1. CASE j < n + 1
    BY <2>1, <1>1, <1>4
  <2>2. CASE j = n + 1
    BY <2>2, <1>1, <1>4
  <2>3. CASE j > n + 1
    BY <2>3, <1>1, <1>4
  <2>4. QED
    BY <2>1, <2>2, <2>3
<1>6. a = b
  <2>1. Len(a) = n + Len(g) + 1 /\ Len(b) = n + Len(g) + 1
    BY <1>1, <1>3, <1>4
  <2>. HIDE DEF b, n
  <2>2. QED
    BY <2>1, <1>2, <1>3, <1>5, SameSeq
<1>7. QED
  BY <1>6 DEF a

LEMMA RemoveRight ==
    ASSUME NEW S, NEW r \in Seq(S), NEW g \in Seq(S), NEW i \in 1 .. Len(g),
           NEW h \in Seq(S), Removed(g, i, h)
    PROVE  RemoveAt(r \o g, Len(r) + i) = r \o h /\ Len(r) + i \in DOMAIN (r \o g)
<1>. DEFINE n == Len(r)
            a == RemoveAt(r \o g, n + i)
            b == r \o h
<1>1. /\ n \in Nat /\ Len(g) \in Nat /\ Len(h) \in Nat /\ r \o g \in Seq(S)
      /\ Len(r \o g) = n + Len(g)
      /\ \A j \in 1 .. n + Len(g) : (r \o g)[j] = IF j <= n THEN r[j] ELSE g[j - n]
  BY ConcatProperties, LenProperties
<1>2. /\ b \in Seq(S) /\ Len(b) = n + Len(h)
      /\ \A j \in 1 .. n + Len(h) : b[j] = IF j <= n THEN r[j] ELSE h[j - n]
  BY ConcatProperties
<1>3. /\ Len(h) = Len(g) - 1
      /\ \A j \in 1 .. Len(g) - 1 : h[j] = IF j < i THEN g[j] ELSE g[j + 1]
  BY DEF Removed
<1>. HIDE DEF n, b
<1>4. n + i \in 1 .. Len(r \o g)
  BY <1>1
<1>5. a \in Seq(S) /\ Removed(r \o g, n + i, a)
  BY <1>1, <1>4, RemoveAtPositions
<1>6. /\ Len(a) = n + Len(g) - 1
      /\ \A j \in 1 .. n + Len(g) - 1 :
            a[j] = IF j < n + i THEN (r \o g)[j] ELSE (r \o g)[j + 1]
  BY <1>1, <1>5 DEF Removed
<1>. HIDE DEF a
<1>7. ASSUME NEW j \in 1 .. n + Len(g) - 1
      PROVE  a[j] = b[j]
  <2>1. b[j] = IF j <= n THEN r[j] ELSE h[j - n]
    BY <1>1, <1>2, <1>3
  <2>2. CASE j <= n
    <3>1. a[j] = (r \o g)[j] /\ (r \o g)[j] = r[j]
      BY <2>2, <1>1, <1>6
    <3>2. QED
      BY <2>1, <2>2, <3>1
  <2>3. CASE j > n /\ j < n + i
    <3>1. j - n \in 1 .. Len(g) - 1 /\ j - n < i /\ j \in 1 .. n + Len(g)
      BY <2>3, <1>1
    <3>2. a[j] = (r \o g)[j]
      BY <2>3, <1>6
    <3>3. (r \o g)[j] = g[j - n]
      BY <2>3, <3>1, <1>1
    <3>4. ASSUME NEW k \in 1 .. Len(g) - 1, k < i
          PROVE  h[k] = g[k]
      BY <3>4, <1>3
    <3>5. b[j] = h[j - n]
      BY <2>1, <2>3, <1>1
    <3>6. QED
      BY <3>1, <3>2, <3>3, <3>4, <3>5
  <2>4. CASE j >= n + i
    <3>1. /\ j - n \in 1 .. Len(g) - 1 /\ ~(j - n < i) /\ (j + 1) - n = (j - n) + 1
          /\ j + 1 \in 1 .. n + Len(g) /\ j + 1 > n /\ j > n
      <4>1. j \in Int /\ i \in Int /\ n \in Int /\ Len(g) \in Int /\ i >= 1 /\ i <= Len(g)
        BY <1>1
      <4>2. j - n >= i /\ j > n /\ j + 1 > n /\ j <= n + Len(g) - 1 /\ n >= 0
        BY <2>4, <4>1, <1>1
      <4>3. QED
        BY <4>1, <4>2
    <3>2. a[j] = (r \o g)[j + 1]
      <4>1. ~(j < n + i)
        BY <2>4, <1>1
      <4>2. QED
        BY <4>1, <1>6
    <3>3. (r \o g)[j + 1] = g[(j + 1) - n]
      <4>1. ~(j + 1 <= n)
        BY <3>1, <1>1
      <4>2. QED
        BY <3>1, <4>1, <1>1
    <3>4. ASSUME NEW k \in 1 .. Len(g) - 1, ~(k < i)
          PROVE  h[k] = g[k + 1]
      BY <3>4, <1>3
    <3>5. b[j] = h[j - n]
      BY <2>1, <3>1, <1>1
    <3>6. QED
      BY <3>1, <3>2, <3>3, <3>4, <3>5
  <2>5. QED
    BY <2>2, <2>3, <2>4, <1>1
<1>8. a = b
  <2>1. Len(a) = n + Len(g) - 1 /\ Len(b) = n + Len(g) - 1
    BY <1>1, <1>2, <1>3, <1>6
  <2>2. QED
    BY <2>1, <1>2, <1>5, <1>7, SameSeq
<1>9. QED
  BY <1>1, <1>4, <1>8 DEF a, b, n
----------------------------------------------------------------------------
\* What the functions of wait.[ch] do to the queues

LEMMA CompletedQueue ==
    ASSUME NEW k \in KerType, NEW w \in WaitQueue, NEW k2, k2 = CompleteFirst(k, w)
    PROVE  /\ k2.tpri = k.tpri /\ k2.wait[w] = Tail(k.wait[w])
           /\ \A v \in WaitQueue : v # w => k2.wait[v] = k.wait[v]
<1>. DEFINE k1 == [k EXCEPT !.wait[w] = Tail(@)]
<1>1. /\ k1.tpri = k.tpri /\ k1.wait[w] = Tail(k.wait[w])
      /\ \A v \in WaitQueue : v # w => k1.wait[v] = k.wait[v]
  BY DEF KerType
<1>2. k2.tpri = k1.tpri /\ k2.wait = k1.wait
  BY DEF CompleteFirst, WaitComplete, EndWait, KerType
<1>3. QED
  BY <1>1, <1>2

LEMMA JoinedQueue ==
    ASSUME NEW k \in KerType, NEW w \in WaitQueue, NEW t \in Tsk, NEW tmout,
           NEW k2, k2 = WobjMakeWait(k, w, t, tmout)
    PROVE  /\ k2.tpri = k.tpri
           /\ \A v \in WaitQueue : v # w => k2.wait[v] = k.wait[v]
           /\ w \notin k.tpri => k2.wait[w] = Append(k.wait[w], t)
<1>. DEFINE k1 == MakeWait(k, w, t, tmout)
            d == WobjQueueInsert(k1, w, t)
<1>1. k1.tpri = k.tpri /\ k1.wait = k.wait
  BY DEF MakeWait, KerType
<1>2. k2 = [k1 EXCEPT !.wait[w] = d]
  BY DEF WobjMakeWait
<1>3. w \notin k.tpri => d = Append(k.wait[w], t)
  BY <1>1 DEF WobjQueueInsert, QueueInsertPrev
<1>. HIDE DEF d
<1>4. "wait" \in DOMAIN k1 /\ "tpri" \in DOMAIN k1
  BY DEF MakeWait, KerType
<1>. HIDE DEF k1
<1>5. k2.tpri = k.tpri /\ k2.wait = [k.wait EXCEPT ![w] = d]
  BY <1>1, <1>2, <1>4
<1>6. QED
  BY <1>3, <1>5 DEF KerType

\* The receivers of a data queue wait as in a queue in FIFO order.
LEMMA ReceiverJoins ==
    ASSUME NEW k \in KerType, NEW q \in Dtq, NEW t \in Tsk, NEW tmout, Rcv(q) \notin k.tpri
    PROVE  ReceiverWaits(k, q, t, tmout) = WobjMakeWait(k, Rcv(q), t, tmout)
<1>1. MakeWait(k, Rcv(q), t, tmout).tpri = k.tpri
  BY DEF MakeWait, KerType
<1>2. QED
  BY <1>1 DEF ReceiverWaits, WobjMakeWait, WobjQueueInsert

\* Nobody joins a queue, and one task leaves at most.
Shrinks(W, W2) ==
    \/ W2 = W
    \/ \E w \in WaitQueue : \E i \in 1 .. Len(W[w]) :
          /\ Removed(W[w], i, W2[w]) /\ W2[w] \in Seq(Tsk)
          /\ \A v \in WaitQueue : v # w => W2[v] = W[v]

LEMMA DequeueShrinks ==
    ASSUME WaitAssumption, NEW k, WaitOk(k), NEW t \in Tsk, NEW k1, k1 = WaitDequeueWobj(k, t)
    PROVE  k1.tpri = k.tpri /\ Shrinks(k.wait, k1.wait)
<1>. DEFINE w == k.tcb[t].p_wobjcb
<1>1. CASE "WAITING" \in k.tcb[t].tstat
  <2>. DEFINE d == QueueDelete(k.wait[w], t)
  <2>1. /\ w \in WaitQueue /\ k.wait[w] \in Seq(Tsk) /\ t \in Range(k.wait[w])
        /\ k1 = SetWait(k, w, d) /\ k \in KerType
    BY <1>1, WaiterInQueue DEF WaitOk
  <2>2. PICK i \in 1 .. Len(k.wait[w]) : d \in Seq(Tsk) /\ Removed(k.wait[w], i, d)
    BY <2>1, DeleteRemoves
  <2>. HIDE DEF d, w
  <2>3. /\ k1.tpri = k.tpri /\ k1.wait[w] = d
        /\ \A v \in WaitQueue : v # w => k1.wait[v] = k.wait[v]
    BY <2>1, <2>2, QueueSet
  <2>4. QED
    BY <2>1, <2>2, <2>3 DEF Shrinks
<1>2. CASE "WAITING" \notin k.tcb[t].tstat
  <2>1. w = NULL
    BY <1>2 DEF WaitOk, TcbOk
  <2>2. k1 = k
    BY <2>1 DEF WaitDequeueWobj
  <2>3. QED
    BY <2>2 DEF Shrinks
<1>3. QED
  BY <1>1, <1>2

\* A call on a task lets at most one task leave its queue, and moves tasks only in
\* queues in priority order.
LEMMA TaskQueues ==
    ASSUME WaitAssumption, WaitOk(ker), NEW t \in Tsk, TaskNext(t)
    PROVE  ker'.tpri = ker.tpri /\ (ker.tpri = {} => Shrinks(ker.wait, ker'.wait))
<1>. DEFINE Same == ker'.tpri = ker.tpri /\ ker'.wait = ker.wait
            k1 == WaitDequeueWobj(ker, t)
<1>1. Same => ker'.tpri = ker.tpri /\ Shrinks(ker.wait, ker'.wait)
  BY DEF Shrinks
<1>2. k1.tpri = ker.tpri /\ Shrinks(ker.wait, k1.wait)
  BY DequeueShrinks
<1>3. ASSUME ker'.tpri = k1.tpri, ker'.wait = k1.wait
      PROVE  ker'.tpri = ker.tpri /\ Shrinks(ker.wait, ker'.wait)
  BY <1>2, <1>3
<1>4. ASSUME NEW k, NEW ercd
      PROVE  EndWait(k, t, ercd).tpri = k.tpri /\ EndWait(k, t, ercd).wait = k.wait
  BY DEF EndWait
<1>5. CASE act_tsk(t)
  BY <1>1, <1>5 DEF act_tsk
<1>6. CASE task_terminate(t)
  BY <1>3, <1>6 DEF task_terminate
<1>7. CASE ras_ter(t)
  <2>. DEFINE k2 == IF Waiting(t) THEN EndWait(k1, t, "E_RASTER") ELSE ker
  <2>1. ker'.tpri = k2.tpri /\ ker'.wait = k2.wait
    BY <1>7 DEF ras_ter
  <2>2. CASE Waiting(t)
    BY <2>1, <2>2, <1>3, <1>4
  <2>3. CASE ~Waiting(t)
    BY <2>1, <2>3, <1>1
  <2>4. QED
    BY <2>2, <2>3
<1>8. CASE rel_wai(t)
  BY <1>3, <1>4, <1>8 DEF rel_wai
<1>9. CASE sus_tsk(t)
  BY <1>1, <1>9 DEF sus_tsk
<1>10. CASE Dispatch(t)
  BY <1>1, <1>10 DEF Dispatch
<1>11. CASE rsm_tsk(t)
  BY <1>1, <1>11 DEF rsm_tsk
<1>12. CASE wait_tmout(t)
  BY <1>3, <1>4, <1>12 DEF wait_tmout
<1>13. CASE \E pri \in Pri : chg_pri(t, pri)
  <2>1. PICK pri \in Pri : chg_pri(t, pri)
    BY <1>13
  <2>. DEFINE k2 == [ker EXCEPT !.tcb[t].priority = pri]
              k3 == WobjChangePriority(k2, t)
  <2>2. k2.tpri = ker.tpri /\ k2.wait = ker.wait
    OBVIOUS
  <2>3. ker' = IF Waiting(t) THEN k3 ELSE k2
    BY <2>1 DEF chg_pri
  <2>. HIDE DEF k2
  <2>4. k3.tpri = k2.tpri
    BY DEF WobjChangePriority
  <2>5. k2.tpri = {} => k3 = k2
    BY DEF WobjChangePriority
  <2>6. QED
    BY <1>1, <2>2, <2>3, <2>4, <2>5
<1>14. QED
  BY <1>5, <1>6, <1>7, <1>8, <1>9, <1>10, <1>11, <1>12, <1>13 DEF TaskNext
----------------------------------------------------------------------------
\* The calls on data queues: each keeps the invariant and, where the senders wait
\* in FIFO order, is a step of the channels.

LEMMA OthersUntouched ==
    ASSUME DtqAssumption, NEW q \in Dtq,
           \A w \in WaitQueue : w # Snd(q) /\ w # Rcv(q) => ker'.wait[w] = ker.wait[w],
           \A v \in Dtq : v # q =>
               \A u \in Range(ker.wait[Snd(v)]) : winfo_obj'[u] = winfo_obj[u]
    PROVE  OthersAsBefore(q)
<1>1. ASSUME NEW v \in Dtq, v # q
      PROVE  /\ ker'.wait[Snd(v)] = ker.wait[Snd(v)]
             /\ ker'.wait[Rcv(v)] = ker.wait[Rcv(v)]
  BY <1>1, DtqQueues
<1>2. QED
  BY <1>1 DEF OthersAsBefore

WinfoIs(t, d) == winfo_obj' = [winfo_obj EXCEPT ![t] = d]

\* The wait information of a task that executes or waits in a queue of q.
LEMMA WinfoSet ==
    ASSUME WaitAssumption, DtqAssumption, DtqInv, NEW q \in Dtq, NEW t \in Tsk, NEW d \in Data,
           WinfoIs(t, d),
           \/ "WAITING" \notin ker.tcb[t].tstat
           \/ t \in Waiters(ker)[Snd(q)] \/ t \in Waiters(ker)[Rcv(q)],
           \A w \in WaitQueue : w # Snd(q) /\ w # Rcv(q) => ker'.wait[w] = ker.wait[w]
    PROVE  /\ OthersAsBefore(q) /\ winfo_obj' \in [Tsk -> Data \cup {NULL}]
           /\ winfo_obj'[t] = d /\ \A u \in Tsk : u # t => winfo_obj'[u] = winfo_obj[u]
           /\ t \notin Waiters(ker)[Snd(q)] =>
                 \A u \in Range(ker.wait[Snd(q)]) : winfo_obj'[u] = winfo_obj[u]
<1>1. winfo_obj \in [Tsk -> Data \cup {NULL}] /\ WaitOk(ker)
  BY DtqFacts
<1>2. /\ winfo_obj' \in [Tsk -> Data \cup {NULL}] /\ winfo_obj'[t] = d
      /\ \A u \in Tsk : u # t => winfo_obj'[u] = winfo_obj[u]
  BY <1>1 DEF WinfoIs
<1>3. ASSUME NEW v \in Dtq
      PROVE  /\ Waiters(ker)[Snd(v)] = Range(ker.wait[Snd(v)])
             /\ Range(ker.wait[Snd(v)]) \subseteq Tsk
             /\ Snd(v) \in WaitQueue /\ Rcv(v) \in WaitQueue
             /\ v # q => Snd(v) # Snd(q) /\ Snd(v) # Rcv(q)
  BY DtqFacts, DtqQueues DEF Range
<1>4. ASSUME NEW v \in Dtq, v # q
      PROVE  t \notin Range(ker.wait[Snd(v)])
  BY <1>1, <1>3, <1>4, DtqWaiter
<1>5. \A v \in Dtq : v # q => \A u \in Range(ker.wait[Snd(v)]) : winfo_obj'[u] = winfo_obj[u]
  BY <1>2, <1>3, <1>4
<1>6. OthersAsBefore(q)
  BY <1>5, OthersUntouched
<1>7. t \notin Waiters(ker)[Snd(q)] =>
         \A u \in Range(ker.wait[Snd(q)]) : winfo_obj'[u] = winfo_obj[u]
  BY <1>2, <1>3
<1>8. QED
  BY <1>2, <1>6, <1>7

LEMMA LineNoSender ==
    ASSUME NEW c, c.exists, NEW m, Ring(c, m) \in Seq(Data), NEW W
    PROVE  Line(c, m, << >>, W) = Ring(c, m)
<1>1. Given(<< >>, W) = << >>
  BY DEF Given
<1>2. QED
  BY <1>1 DEF Line

LEMMA RoomsSame ==
    ASSUME NEW q \in Dtq, NEW n, n = dtqcb[q].dtqcnt, Rooms' = [Rooms EXCEPT ![q] = n]
    PROVE  Rooms' = Rooms
BY DEF Rooms

\* What is the same when q is unchanged.
LEMMA DtqKept ==
    ASSUME DtqAssumption, DtqInv, NEW q \in Dtq
    PROVE  /\ [dtqcb EXCEPT ![q] = dtqcb[q]] = dtqcb
           /\ [p_dtqmb EXCEPT ![q] = p_dtqmb[q]] = p_dtqmb
BY DtqFacts

\* The data go to the first of the tasks that wait for them.
LEMMA PassesOn ==
    ASSUME WaitAssumption, DtqAssumption, DtqInv, NEW q \in Dtq, NEW d \in Data,
           PassOn(q, d), Others
    PROVE  DtqInv' /\ FifoStep
<1>. DEFINE c == dtqcb[q]
            m == p_dtqmb[q]
            t == Head(ker.wait[Rcv(q)])
<1>1. /\ ker.wait[Rcv(q)] # << >> /\ ker' = CompleteFirst(ker, Rcv(q))
      /\ winfo_obj' = [winfo_obj EXCEPT ![t] = d] /\ dtqcb' = dtqcb /\ p_dtqmb' = p_dtqmb
      /\ free_dtqcb' = free_dtqcb /\ mpk' = mpk
  BY DEF PassOn, Others
<1>2. /\ WaitOk(ker) /\ ker \in KerType /\ c \in DTQCB /\ m \in Memory /\ RingOk(c, m)
      /\ Snd(q) \in WaitQueue /\ Rcv(q) \in WaitQueue /\ Snd(q) # Rcv(q)
  BY DtqFacts, DtqQueues
<1>3. c.exists /\ c.count = 0 /\ Waiters(ker)[Snd(q)] = {} /\ ker.wait[Snd(q)] = << >>
  BY <1>1, DtqFacts DEF DtqQueueOk
<1>4. WaitOk(ker') /\ t \in Tsk /\ t \in Waiters(ker)[Rcv(q)]
  BY <1>1, <1>2, CompletesFirst
<1>5. /\ ker'.tpri = ker.tpri
      /\ \A v \in WaitQueue : v # Rcv(q) => ker'.wait[v] = ker.wait[v]
  BY <1>1, <1>2, CompletedQueue
<1>. HIDE DEF c, m, t
<1>6. OthersAsBefore(q) /\ winfo_obj' \in [Tsk -> Data \cup {NULL}]
  <2>1. WinfoIs(t, d)
    BY <1>1 DEF WinfoIs
  <2>2. QED
    BY <2>1, <1>4, <1>5, WinfoSet
<1>7. Waiters(ker')[Snd(q)] = {}
  BY <1>2, <1>3, <1>5 DEF Waiters
<1>8. DtqQueueOk(Waiters(ker')[Snd(q)], Waiters(ker')[Rcv(q)], c, winfo_obj')
  BY <1>3, <1>7 DEF DtqQueueOk
<1>9. dtqcb' = [dtqcb EXCEPT ![q] = c] /\ p_dtqmb' = [p_dtqmb EXCEPT ![q] = m]
  BY <1>1, DtqKept DEF c, m
<1>10. Allotted(q, c)
  BY <1>1, DtqAllottedKept DEF c
<1>11. \A v \in Dtq : Rcv(v) \notin ker'.tpri
  BY <1>5, DtqFacts
<1>12. /\ DtqInv' /\ Rooms' = [Rooms EXCEPT ![q] = c.dtqcnt]
       /\ Lines' = [Lines EXCEPT ![q] = Line(c, m, ker'.wait[Snd(q)], winfo_obj')]
  BY <1>2, <1>4, <1>6, <1>8, <1>9, <1>10, <1>11, DtqSet
<1>13. Rooms' = Rooms
  BY <1>12, RoomsSame DEF c
<1>14. Lines[q] = << >> /\ Ring(c, m) = << >>
  <2>1. Lines[q] = Ring(c, m) /\ Ring(c, m) \in Seq(Data) /\ Len(Ring(c, m)) = 0
    BY <1>3, LineFacts DEF c, m
  <2>2. QED
    BY <2>1
<1>15. Line(c, m, ker'.wait[Snd(q)], winfo_obj') = << >>
  <2>1. ker'.wait[Snd(q)] = << >>
    BY <1>2, <1>3, <1>5
  <2>2. << >> \in Seq(Data)
    OBVIOUS
  <2>3. QED
    BY <2>1, <2>2, <1>3, <1>14, LineNoSender
<1>16. Lines' = Lines
  BY <1>12, <1>14, <1>15 DEF Lines
<1>17. AsLines
  BY <1>12, SeenAsLines
<1>18. QED
  BY <1>1, <1>4, <1>12, <1>13, <1>14, <1>16, <1>17, ChannelPass

\* The data queue q has the control block c and the memory m, and holds l.
BecomesRing(q, c, m) ==
    /\ dtqcb' = [dtqcb EXCEPT ![q] = c] /\ p_dtqmb' = [p_dtqmb EXCEPT ![q] = m]
    /\ c.exists = dtqcb[q].exists /\ c.dtqcnt = dtqcb[q].dtqcnt
    /\ c.mballoc = dtqcb[q].mballoc

LineIs(q, l) ==
    DtqInv' /\ AsLines /\ Rooms' = Rooms /\ Lines' = [Lines EXCEPT ![q] = l]

\* A step that changes what a data queue holds, and not the data queue itself.
LEMMA DtqGoesOn ==
    ASSUME WaitAssumption, DtqAssumption, DtqInv, WaitOk(ker'), ker'.tpri = ker.tpri, Others,
           NEW q \in Dtq, dtqcb[q].exists,
           NEW c \in DTQCB, NEW m \in Memory, BecomesRing(q, c, m), RingOk(c, m),
           winfo_obj' \in [Tsk -> Data \cup {NULL}], OthersAsBefore(q),
           DtqQueueOk(Waiters(ker')[Snd(q)], Waiters(ker')[Rcv(q)], c, winfo_obj')
    PROVE  LineIs(q, Ring(c, m) \o Given(ker'.wait[Snd(q)], winfo_obj'))
<1>1. free_dtqcb' = free_dtqcb /\ mpk' = mpk
  BY DEF Others
<1>2. Allotted(q, c)
  BY <1>1, DtqAllottedKept DEF BecomesRing
<1>3. \A v \in Dtq : Rcv(v) \notin ker'.tpri
  BY DtqFacts
<1>4. /\ DtqInv' /\ Rooms' = [Rooms EXCEPT ![q] = c.dtqcnt]
      /\ Lines' = [Lines EXCEPT ![q] = Line(c, m, ker'.wait[Snd(q)], winfo_obj')]
  BY <1>2, <1>3, DtqSet DEF BecomesRing
<1>5. Rooms' = Rooms
  BY <1>4, RoomsSame DEF BecomesRing
<1>6. Line(c, m, ker'.wait[Snd(q)], winfo_obj') = Ring(c, m) \o Given(ker'.wait[Snd(q)], winfo_obj')
  BY DEF Line, BecomesRing
<1>7. AsLines
  BY <1>4, SeenAsLines
<1>8. QED
  BY <1>4, <1>5, <1>6, <1>7 DEF LineIs

LEMMA GivenNone ==
    ASSUME NEW S, NEW r \in Seq(S), NEW W
    PROVE  Given(<< >>, W) = << >> /\ r \o Given(<< >>, W) = r
<1>1. Given(<< >>, W) = << >>
  BY DEF Given
<1>2. QED
  BY <1>1

\* The data go into the ring.
LEMMA StoresData ==
    ASSUME WaitAssumption, DtqAssumption, DtqInv, NEW q \in Dtq, NEW d \in Data,
           dtqcb[q].exists, ker.wait[Rcv(q)] = << >>, dtqcb[q].count < dtqcb[q].dtqcnt,
           Store(q, dtqcb[q], d), dtqcb' = [dtqcb EXCEPT ![q] = EnqueueData(dtqcb[q])],
           ker' = ker, winfo_obj' = winfo_obj, Others
    PROVE  DtqInv' /\ FifoStep
<1>. DEFINE c == dtqcb[q]
            m == p_dtqmb[q]
            c2 == EnqueueData(c)
            m2 == [m EXCEPT ![c.tail] = d]
<1>1. /\ WaitOk(ker) /\ ker \in KerType /\ c \in DTQCB /\ m \in Memory /\ RingOk(c, m)
      /\ winfo_obj \in [Tsk -> Data \cup {NULL}] /\ p_dtqmb \in [Dtq -> Memory]
      /\ DtqQueueOk(Waiters(ker)[Snd(q)], Waiters(ker)[Rcv(q)], c, winfo_obj)
      /\ Waiters(ker)[Rcv(q)] = {}
  BY DtqFacts
<1>2. c.count \in Nat /\ c.dtqcnt \in Nat /\ c.count < c.dtqcnt
  BY <1>1, RingNumbers
<1>3. Waiters(ker)[Snd(q)] = {} /\ ker.wait[Snd(q)] = << >>
  BY <1>1, <1>2, DtqFacts DEF DtqQueueOk
<1>4. p_dtqmb' = [p_dtqmb EXCEPT ![q] = m2] /\ dtqcb' = [dtqcb EXCEPT ![q] = c2] /\ c.exists
  BY <1>1 DEF Store
<1>5. Enqueued(c, m, d, c2, m2)
  BY DEF Enqueued
<1>. HIDE DEF c2, m2
<1>6. c = dtqcb[q] /\ m = p_dtqmb[q]
  OBVIOUS
<1>. HIDE DEF c, m
<1>7. /\ c2 \in DTQCB /\ m2 \in Memory /\ RingOk(c2, m2)
      /\ c2.exists = c.exists /\ c2.dtqcnt = c.dtqcnt /\ c2.mballoc = c.mballoc
      /\ Ring(c2, m2) = Append(Ring(c, m), d)
  BY <1>1, <1>2, <1>5, Enqueues
<1>8. BecomesRing(q, c2, m2)
  BY <1>4, <1>6, <1>7 DEF BecomesRing
<1>9. OthersAsBefore(q)
  BY DEF OthersAsBefore
<1>10. DtqQueueOk(Waiters(ker')[Snd(q)], Waiters(ker')[Rcv(q)], c2, winfo_obj')
  BY <1>1, <1>3 DEF DtqQueueOk
<1>11. WaitOk(ker') /\ ker'.tpri = ker.tpri /\ winfo_obj' \in [Tsk -> Data \cup {NULL}]
  BY <1>1
<1>12. LineIs(q, Ring(c2, m2) \o Given(ker'.wait[Snd(q)], winfo_obj'))
  BY <1>4, <1>6, <1>7, <1>8, <1>9, <1>10, <1>11, DtqGoesOn
<1>13. Ring(c, m) \in Seq(Data) /\ Lines[q] = Ring(c, m)
  BY <1>3, <1>4, <1>6, LineFacts
<1>14. Ring(c2, m2) \o Given(ker'.wait[Snd(q)], winfo_obj') = Append(Lines[q], d)
  <2>1. Append(Ring(c, m), d) \in Seq(Data) /\ ker'.wait[Snd(q)] = << >>
    BY <1>3, <1>13
  <2>2. Append(Ring(c, m), d) \o Given(<< >>, winfo_obj') = Append(Ring(c, m), d)
    BY <2>1, GivenNone
  <2>3. QED
    BY <2>1, <2>2, <1>7, <1>13
<1>15. Lines' = [Lines EXCEPT ![q] = Append(@, d)]
  BY <1>12, <1>14 DEF LineIs, Lines
<1>16. QED
  BY <1>12, <1>15, ChannelPut DEF LineIs

\* The data take the place of the oldest in a full ring.
LEMMA ForcesData ==
    ASSUME WaitAssumption, DtqAssumption, DtqInv, NEW q \in Dtq, NEW d \in Data,
           dtqcb[q].exists, ker.wait[Rcv(q)] = << >>, dtqcb[q].count = dtqcb[q].dtqcnt,
           dtqcb[q].dtqcnt > 0,
           Store(q, dtqcb[q], d), dtqcb' = [dtqcb EXCEPT ![q] = ForceEnqueueData(dtqcb[q])],
           ker' = ker, winfo_obj' = winfo_obj, Others
    PROVE  DtqInv' /\ FifoStep
<1>. DEFINE c == dtqcb[q]
            m == p_dtqmb[q]
            c1 == DequeueData(c)
            c2 == EnqueueData(c1)
            m2 == [m EXCEPT ![c.tail] = d]
            g == Given(ker.wait[Snd(q)], winfo_obj)
<1>1. /\ WaitOk(ker) /\ ker \in KerType /\ c \in DTQCB /\ m \in Memory /\ RingOk(c, m)
      /\ winfo_obj \in [Tsk -> Data \cup {NULL}] /\ p_dtqmb \in [Dtq -> Memory]
      /\ DtqQueueOk(Waiters(ker)[Snd(q)], Waiters(ker)[Rcv(q)], c, winfo_obj)
      /\ Waiters(ker)[Rcv(q)] = {}
  BY DtqFacts
<1>2. c.count \in Nat /\ c.dtqcnt \in Nat /\ c.count = c.dtqcnt /\ c.count > 0
  BY <1>1, RingNumbers
<1>3. ForceEnqueueData(c) = c2
  BY <1>1, <1>2, Forces
<1>4. p_dtqmb' = [p_dtqmb EXCEPT ![q] = m2] /\ dtqcb' = [dtqcb EXCEPT ![q] = c2] /\ c.exists
  BY <1>1, <1>3 DEF Store
<1>5. Dequeued(c, c1) /\ (c1.tail = c.tail => Enqueued(c1, m, d, c2, m2))
  BY DEF Dequeued, Enqueued
<1>. HIDE DEF c1, c2, m2
<1>6. c = dtqcb[q] /\ m = p_dtqmb[q]
  OBVIOUS
<1>. HIDE DEF c, m
<1>7. /\ c1 \in DTQCB /\ RingOk(c1, m) /\ c1.count = c.count - 1
      /\ c1.exists = c.exists /\ c1.dtqcnt = c.dtqcnt /\ c1.mballoc = c.mballoc
      /\ c1.tail = c.tail /\ Ring(c, m) # << >> /\ Ring(c1, m) = Tail(Ring(c, m))
  BY <1>1, <1>2, <1>5, Dequeues
<1>8. /\ c2 \in DTQCB /\ m2 \in Memory /\ RingOk(c2, m2) /\ c2.count = c1.count + 1
      /\ c2.exists = c1.exists /\ c2.dtqcnt = c1.dtqcnt /\ c2.mballoc = c1.mballoc
      /\ Ring(c2, m2) = Append(Ring(c1, m), d)
  <2>1. c1.count < c1.dtqcnt /\ Enqueued(c1, m, d, c2, m2)
    BY <1>2, <1>5, <1>7
  <2>2. QED
    BY <2>1, <1>1, <1>7, Enqueues
<1>9. OthersAsBefore(q)
  BY DEF OthersAsBefore
<1>10. c2.count = c.count /\ c2.exists = c.exists /\ c2.dtqcnt = c.dtqcnt /\ c2.mballoc = c.mballoc
  BY <1>2, <1>7, <1>8
<1>11. BecomesRing(q, c2, m2)
  BY <1>4, <1>6, <1>10 DEF BecomesRing
<1>12. DtqQueueOk(Waiters(ker')[Snd(q)], Waiters(ker')[Rcv(q)], c2, winfo_obj')
  BY <1>1, <1>10 DEF DtqQueueOk
<1>13. WaitOk(ker') /\ ker'.tpri = ker.tpri /\ winfo_obj' \in [Tsk -> Data \cup {NULL}]
  BY <1>1
<1>14. LineIs(q, Ring(c2, m2) \o Given(ker'.wait[Snd(q)], winfo_obj'))
  BY <1>4, <1>6, <1>8, <1>9, <1>11, <1>12, <1>13, DtqGoesOn
<1>15. /\ Ring(c, m) \in Seq(Data) /\ Len(Ring(c, m)) = c.count /\ g \in Seq(Data)
       /\ Lines[q] = Ring(c, m) \o g
  BY <1>4, <1>6, LineFacts
<1>16. Given(ker'.wait[Snd(q)], winfo_obj') = g
  OBVIOUS
<1>. HIDE DEF g
<1>17. Ring(c2, m2) \o g = Tail(InsertAt(Lines[q], Rooms[q] + 1, d))
  <2>. DEFINE r == Ring(c, m)
  <2>1. Rooms[q] = Len(r)
    BY <1>2, <1>6, <1>15 DEF Rooms
  <2>2. InsertAt(r \o g, Len(r) + 1, d) = Append(r, d) \o g
    BY <1>15, InsertBetween
  <2>3. Tail(Append(r, d) \o g) = Tail(Append(r, d)) \o g
    <3>. DEFINE x == Append(r, d)
    <3>1. x \in Seq(Data) /\ x # << >>
      BY <1>15
    <3>. HIDE DEF x
    <3>2. Tail(x \o g) = Tail(x) \o g
      BY <3>1, <1>15, TailLeft
    <3>3. QED
      BY <3>2 DEF x
  <2>4. Tail(Append(r, d)) = Append(Tail(r), d)
    BY <1>7, <1>15
  <2>5. QED
    BY <2>1, <2>2, <2>3, <2>4, <1>7, <1>8, <1>15
<1>18. Lines' = [Lines EXCEPT ![q] = Tail(InsertAt(@, Rooms[q] + 1, d))]
  BY <1>14, <1>16, <1>17 DEF LineIs, Lines
<1>19. Rooms[q] > 0 /\ Len(Lines[q]) >= Rooms[q]
  BY <1>2, <1>6, <1>15 DEF Rooms
<1>20. QED
  BY <1>13, <1>14, <1>18, <1>19, ChannelForce DEF LineIs

\* A task that executes receives data.
Receiver(t) == t \in Tsk /\ "WAITING" \notin ker.tcb[t].tstat

LEMMA ExecutesReceives ==
    ASSUME WaitAssumption, DtqAssumption, DtqInv, NEW t \in Tsk, Executes(t), NEW q \in Dtq
    PROVE  Receiver(t) /\ t \notin Waiters(ker)[Snd(q)] /\ t \notin Waiters(ker)[Rcv(q)]
<1>1. TcbOk(ker.tcb[t]) /\ WaitOk(ker)
  BY DtqFacts DEF WaitOk
<1>2. "WAITING" \notin ker.tcb[t].tstat
  BY <1>1 DEF Executes, Runnable, tcb, TcbOk, WaitAssumption
<1>3. QED
  BY <1>1, <1>2, DtqQueues, DtqWaiter DEF Receiver

\* The facts that the three cases of receive_data share.
LEMMA ReceiveFacts ==
    ASSUME WaitAssumption, DtqAssumption, DtqInv, NEW q \in Dtq, NEW c, NEW m,
           c = dtqcb[q], m = p_dtqmb[q]
    PROVE  /\ WaitOk(ker) /\ ker \in KerType /\ c \in DTQCB /\ m \in Memory /\ RingOk(c, m)
           /\ winfo_obj \in [Tsk -> Data \cup {NULL}] /\ p_dtqmb \in [Dtq -> Memory]
           /\ DtqQueueOk(Waiters(ker)[Snd(q)], Waiters(ker)[Rcv(q)], c, winfo_obj)
           /\ c.count \in Nat /\ c.dtqcnt \in Nat /\ c.count <= c.dtqcnt
           /\ ker.wait[Rcv(q)] = << >> <=> Waiters(ker)[Rcv(q)] = {}
           /\ ker.wait[Snd(q)] = << >> <=> Waiters(ker)[Snd(q)] = {}
           /\ Waiters(ker)[Snd(q)] = Range(ker.wait[Snd(q)])
           /\ ker.wait[Snd(q)] \in Seq(Tsk)
           /\ Snd(q) \in WaitQueue /\ Rcv(q) \in WaitQueue /\ Snd(q) # Rcv(q)
           /\ BecomesRing(q, c, m) <=> dtqcb' = dtqcb /\ p_dtqmb' = p_dtqmb
<1>1. /\ WaitOk(ker) /\ ker \in KerType /\ c \in DTQCB /\ m \in Memory /\ RingOk(c, m)
      /\ winfo_obj \in [Tsk -> Data \cup {NULL}] /\ p_dtqmb \in [Dtq -> Memory]
      /\ DtqQueueOk(Waiters(ker)[Snd(q)], Waiters(ker)[Rcv(q)], c, winfo_obj)
      /\ ker.wait[Rcv(q)] = << >> <=> Waiters(ker)[Rcv(q)] = {}
      /\ ker.wait[Snd(q)] = << >> <=> Waiters(ker)[Snd(q)] = {}
      /\ Waiters(ker)[Snd(q)] = Range(ker.wait[Snd(q)])
      /\ ker.wait[Snd(q)] \in Seq(Tsk)
  BY DtqFacts
<1>2. c.count \in Nat /\ c.dtqcnt \in Nat /\ c.count <= c.dtqcnt
  BY <1>1, RingNumbers
<1>3. BecomesRing(q, c, m) <=> dtqcb' = dtqcb /\ p_dtqmb' = p_dtqmb
  BY DtqKept DEF BecomesRing
<1>4. QED
  BY <1>1, <1>2, <1>3, DtqQueues

\* The oldest data leave the ring, and nobody waits to send.
LEMMA TakesData ==
    ASSUME WaitAssumption, DtqAssumption, DtqInv, NEW q \in Dtq, NEW t \in Tsk, Executes(t),
           dtqcb[q].exists, ker.wait[Snd(q)] = << >>, dtqcb[q].count > 0,
           winfo_obj' = [winfo_obj EXCEPT ![t] = p_dtqmb[q][dtqcb[q].head]],
           dtqcb' = [dtqcb EXCEPT ![q] = DequeueData(dtqcb[q])],
           ker' = ker, p_dtqmb' = p_dtqmb, Others
    PROVE  DtqInv' /\ FifoStep
<1>. DEFINE c == dtqcb[q]
            m == p_dtqmb[q]
            c1 == DequeueData(c)
            x == m[c.head]
<1>1. dtqcb' = [dtqcb EXCEPT ![q] = c1] /\ winfo_obj' = [winfo_obj EXCEPT ![t] = x]
  OBVIOUS
<1>2. Dequeued(c, c1) /\ c.exists /\ c.count > 0
  BY DEF Dequeued
<1>3. p_dtqmb' = [p_dtqmb EXCEPT ![q] = m] /\ x = m[c.head]
  BY DtqKept
<1>. HIDE DEF c1, x
<1>4. c = dtqcb[q] /\ m = p_dtqmb[q]
  OBVIOUS
<1>. HIDE DEF c, m
<1>5. /\ WaitOk(ker) /\ c \in DTQCB /\ m \in Memory /\ RingOk(c, m) /\ c.count \in Nat
      /\ DtqQueueOk(Waiters(ker)[Snd(q)], Waiters(ker)[Rcv(q)], c, winfo_obj)
      /\ Waiters(ker)[Snd(q)] = {}
  BY <1>4, ReceiveFacts
<1>6. Waiters(ker)[Rcv(q)] = {}
  BY <1>2, <1>5 DEF DtqQueueOk
<1>7. x = m[c.head]
  BY <1>3
<1>8. /\ c1 \in DTQCB /\ RingOk(c1, m)
      /\ c1.exists = c.exists /\ c1.dtqcnt = c.dtqcnt /\ c1.mballoc = c.mballoc
      /\ x \in Data /\ Ring(c, m) # << >> /\ Head(Ring(c, m)) = x
      /\ Ring(c1, m) = Tail(Ring(c, m))
  BY <1>2, <1>7, <1>5, Dequeues
<1>9. "WAITING" \notin ker.tcb[t].tstat /\ ker'.wait = ker.wait
  BY ExecutesReceives DEF Receiver
<1>10. OthersAsBefore(q) /\ winfo_obj' \in [Tsk -> Data \cup {NULL}]
  <2>1. PICK d \in Data : WinfoIs(t, d)
    BY <1>1, <1>8 DEF WinfoIs
  <2>2. \A w \in WaitQueue : w # Snd(q) /\ w # Rcv(q) => ker'.wait[w] = ker.wait[w]
    BY <1>9
  <2>3. QED
    BY <2>1, <2>2, <1>9, WinfoSet
<1>11. DtqQueueOk(Waiters(ker')[Snd(q)], Waiters(ker')[Rcv(q)], c1, winfo_obj')
  BY <1>5, <1>6 DEF DtqQueueOk
<1>12. BecomesRing(q, c1, m)
  BY <1>1, <1>3, <1>4, <1>8 DEF BecomesRing
<1>13. WaitOk(ker') /\ ker'.tpri = ker.tpri
  BY <1>5
<1>14. LineIs(q, Ring(c1, m) \o Given(ker'.wait[Snd(q)], winfo_obj'))
  BY <1>2, <1>4, <1>5, <1>8, <1>10, <1>11, <1>12, <1>13, DtqGoesOn
<1>15. Ring(c, m) \in Seq(Data) /\ Lines[q] = Ring(c, m)
  BY <1>2, <1>4, LineFacts
<1>16. Ring(c1, m) \o Given(ker'.wait[Snd(q)], winfo_obj') = Tail(Lines[q])
  <2>. DEFINE r == Ring(c1, m)
  <2>1. r \in Seq(Data) /\ r = Tail(Lines[q])
    BY <1>8, <1>15
  <2>. HIDE DEF r
  <2>2. r \o Given(<< >>, winfo_obj') = r
    BY <2>1, GivenNone
  <2>3. QED
    BY <2>1, <2>2, <1>9 DEF r
<1>17. Lines' = [Lines EXCEPT ![q] = Tail(@)]
  BY <1>14, <1>16 DEF LineIs, Lines
<1>18. Lines[q] # << >> /\ winfo_obj' = [winfo_obj EXCEPT ![t] = Head(Lines[q])]
  BY <1>1, <1>8, <1>15
<1>19. QED
  BY <1>14, <1>17, <1>18, ChannelGet DEF LineIs

\* What the completion of the first sender's wait leaves.
LEMMA FirstSender ==
    ASSUME WaitAssumption, DtqAssumption, DtqInv, NEW q \in Dtq, NEW t \in Tsk, Executes(t),
           ker.wait[Snd(q)] # << >>, ker' = CompleteFirst(ker, Snd(q)), NEW d \in Data,
           WinfoIs(t, d), NEW s, s = ker.wait[Snd(q)]
    PROVE  /\ WaitOk(ker') /\ ker'.tpri = ker.tpri
           /\ OthersAsBefore(q) /\ winfo_obj' \in [Tsk -> Data \cup {NULL}]
           /\ s \in Seq(Tsk) /\ s # << >> /\ ker'.wait[Snd(q)] = Tail(s)
           /\ Waiters(ker')[Rcv(q)] = {}
           /\ \A u \in Waiters(ker')[Snd(q)] : winfo_obj'[u] \in Data
           /\ winfo_obj[Head(s)] \in Data
           /\ Given(s, winfo_obj) \in Seq(Data) /\ Given(s, winfo_obj) # << >>
           /\ Head(Given(s, winfo_obj)) = winfo_obj[Head(s)]
           /\ Given(Tail(s), winfo_obj') = Tail(Given(s, winfo_obj))
<1>1. /\ WaitOk(ker) /\ ker \in KerType /\ s \in Seq(Tsk) /\ s # << >>
      /\ Waiters(ker)[Snd(q)] = Range(s) /\ Waiters(ker)[Snd(q)] # {}
      /\ DtqQueueOk(Waiters(ker)[Snd(q)], Waiters(ker)[Rcv(q)], dtqcb[q], winfo_obj)
      /\ Snd(q) \in WaitQueue /\ Rcv(q) \in WaitQueue /\ Snd(q) # Rcv(q)
  BY ReceiveFacts
<1>2. Waiters(ker)[Rcv(q)] = {} /\ \A u \in Range(s) : winfo_obj[u] \in Data
  BY <1>1 DEF DtqQueueOk
<1>3. WaitOk(ker')
  BY <1>1, CompletesFirst
<1>4. /\ ker'.tpri = ker.tpri /\ ker'.wait[Snd(q)] = Tail(s)
      /\ \A v \in WaitQueue : v # Snd(q) => ker'.wait[v] = ker.wait[v]
  BY <1>1, CompletedQueue
<1>5. Receiver(t) /\ t \notin Waiters(ker)[Snd(q)]
  BY ExecutesReceives
<1>6. /\ OthersAsBefore(q) /\ winfo_obj' \in [Tsk -> Data \cup {NULL}]
      /\ \A u \in Range(s) : winfo_obj'[u] = winfo_obj[u]
  BY <1>4, <1>5, WinfoSet DEF Receiver
<1>7. Waiters(ker')[Rcv(q)] = {}
  BY <1>1, <1>2, <1>4 DEF Waiters
<1>8. Head(s) \in Range(s) /\ \A u \in Range(Tail(s)) : u \in Range(s)
  <2>1. IsInjective(s)
    BY <1>1 DEF WaitOk, QueueOk
  <2>2. QED
    BY <2>1, <1>1, TailFacts
<1>9. \A u \in Waiters(ker')[Snd(q)] : winfo_obj'[u] \in Data
  <2>1. Waiters(ker')[Snd(q)] = Range(Tail(s))
    BY <1>1, <1>4 DEF Waiters
  <2>2. QED
    BY <2>1, <1>2, <1>6, <1>8
<1>10. /\ Head(Given(s, winfo_obj)) = winfo_obj[Head(s)]
       /\ Given(Tail(s), winfo_obj') = Tail(Given(s, winfo_obj))
  <2>1. s \in Seq(Tsk) /\ s # << >> /\ \A u \in Range(Tail(s)) : winfo_obj'[u] = winfo_obj[u]
    BY <1>1, <1>6, <1>8
  <2>2. QED
    BY <2>1, GivenTail
<1>11. Given(s, winfo_obj) \in Seq(Data) /\ Len(Given(s, winfo_obj)) = Len(s)
  BY SentIsData
<1>12. Given(s, winfo_obj) # << >>
  BY <1>1, <1>11
<1>13. QED
  BY <1>1, <1>2, <1>3, <1>4, <1>6, <1>7, <1>8, <1>9, <1>10, <1>11, <1>12

\* The oldest data leave the ring, and the first sender's data take the free place.
LEMMA TakesAndMoves ==
    ASSUME WaitAssumption, DtqAssumption, DtqInv, NEW q \in Dtq, NEW t \in Tsk, Executes(t),
           dtqcb[q].exists, ker.wait[Snd(q)] # << >>, dtqcb[q].count > 0,
           winfo_obj' = [winfo_obj EXCEPT ![t] = p_dtqmb[q][dtqcb[q].head]],
           Store(q, DequeueData(dtqcb[q]), winfo_obj[Head(ker.wait[Snd(q)])]),
           dtqcb' = [dtqcb EXCEPT ![q] = EnqueueData(DequeueData(dtqcb[q]))],
           ker' = CompleteFirst(ker, Snd(q)), Others
    PROVE  DtqInv' /\ FifoStep
<1>. DEFINE c == dtqcb[q]
            m == p_dtqmb[q]
            c1 == DequeueData(c)
            s == ker.wait[Snd(q)]
            g == Given(s, winfo_obj)
            ds == winfo_obj[Head(s)]
            m2 == [m EXCEPT ![c1.tail] = ds]
            c2 == EnqueueData(c1)
            x == m[c.head]
<1>1. /\ Dequeued(c, c1) /\ Enqueued(c1, m, ds, c2, m2)
      /\ c.exists /\ c.count > 0 /\ s # << >>
  BY DEF Dequeued, Enqueued
<1>2. /\ dtqcb' = [dtqcb EXCEPT ![q] = c2] /\ p_dtqmb' = [p_dtqmb EXCEPT ![q] = m2]
      /\ winfo_obj' = [winfo_obj EXCEPT ![t] = x]
  BY DEF Store
<1>3. x = m[c.head] /\ ds = winfo_obj[Head(s)]
  OBVIOUS
<1>. HIDE DEF c1, c2, m2, x, ds
<1>4. c = dtqcb[q] /\ m = p_dtqmb[q] /\ s = ker.wait[Snd(q)]
  OBVIOUS
<1>. HIDE DEF c, m
<1>5. /\ c \in DTQCB /\ m \in Memory /\ RingOk(c, m) /\ c.count \in Nat /\ c.dtqcnt \in Nat
      /\ DtqQueueOk(Waiters(ker)[Snd(q)], Waiters(ker)[Rcv(q)], c, winfo_obj)
      /\ Waiters(ker)[Snd(q)] # {}
  BY <1>1, <1>4, ReceiveFacts
<1>6. c.count = c.dtqcnt
  BY <1>5 DEF DtqQueueOk
<1>7. /\ c1 \in DTQCB /\ RingOk(c1, m) /\ c1.count = c.count - 1
      /\ c1.exists = c.exists /\ c1.dtqcnt = c.dtqcnt /\ c1.mballoc = c.mballoc
      /\ x \in Data /\ Ring(c, m) # << >> /\ Head(Ring(c, m)) = x
      /\ Ring(c1, m) = Tail(Ring(c, m))
  BY <1>1, <1>3, <1>5, Dequeues
<1>. DEFINE w2 == winfo_obj'
            s2 == ker'.wait[Snd(q)]
            r == Ring(c, m)
            r1 == Ring(c1, m)
<1>8. /\ WaitOk(ker') /\ ker'.tpri = ker.tpri
      /\ OthersAsBefore(q) /\ w2 \in [Tsk -> Data \cup {NULL}]
      /\ Waiters(ker')[Rcv(q)] = {} /\ \A u \in Waiters(ker')[Snd(q)] : w2[u] \in Data
      /\ ds \in Data /\ g \in Seq(Data) /\ g # << >> /\ Head(g) = ds
      /\ Given(s2, w2) = Tail(g)
  <2>1. PICK d \in Data : WinfoIs(t, d)
    BY <1>2, <1>7 DEF WinfoIs
  <2>2. s # << >> /\ s = ker.wait[Snd(q)] /\ ds = winfo_obj[Head(s)]
    BY <1>1, <1>3
  <2>3. QED
    BY <2>1, <2>2, FirstSender
<1>9. /\ c2 \in DTQCB /\ m2 \in Memory /\ RingOk(c2, m2) /\ c2.count = c1.count + 1
      /\ c2.exists = c1.exists /\ c2.dtqcnt = c1.dtqcnt /\ c2.mballoc = c1.mballoc
      /\ Ring(c2, m2) = Append(r1, ds)
  <2>1. c1.count < c1.dtqcnt
    BY <1>5, <1>6, <1>7
  <2>2. /\ c1 \in DTQCB /\ m \in Memory /\ RingOk(c1, m) /\ ds \in Data
        /\ Enqueued(c1, m, ds, c2, m2)
    BY <1>1, <1>5, <1>7, <1>8
  <2>3. QED
    BY <2>1, <2>2, Enqueues
<1>10. /\ c2.count = c2.dtqcnt /\ c2.exists = c.exists /\ c2.dtqcnt = c.dtqcnt
       /\ c2.mballoc = c.mballoc
  BY <1>5, <1>6, <1>7, <1>9
<1>11. BecomesRing(q, c2, m2)
  BY <1>2, <1>4, <1>10 DEF BecomesRing
<1>12. DtqQueueOk(Waiters(ker')[Snd(q)], Waiters(ker')[Rcv(q)], c2, w2)
  BY <1>1, <1>8, <1>10 DEF DtqQueueOk
<1>13. LineIs(q, Ring(c2, m2) \o Given(s2, w2))
  BY <1>1, <1>4, <1>8, <1>9, <1>11, <1>12, DtqGoesOn
<1>14. r \in Seq(Data) /\ Lines[q] = r \o g
  BY <1>1, <1>4, LineFacts
<1>. HIDE DEF s2, w2, g, r, r1
<1>15. Ring(c2, m2) \o Given(s2, w2) = Tail(Lines[q])
  <2>1. r # << >> /\ r1 = Tail(r) /\ r1 \in Seq(Data)
    BY <1>7, <1>14 DEF r, r1
  <2>2. Append(r1, Head(g)) \o Tail(g) = r1 \o g
    BY <2>1, <1>8, MoveOver
  <2>3. Tail(r \o g) = Tail(r) \o g
    BY <2>1, <1>8, <1>14, TailLeft
  <2>4. QED
    BY <2>1, <2>2, <2>3, <1>8, <1>9, <1>14
<1>16. Lines' = [Lines EXCEPT ![q] = Tail(@)]
  BY <1>13, <1>15 DEF LineIs, Lines
<1>17. Lines[q] # << >> /\ x = Head(Lines[q])
  <2>1. r # << >> /\ Head(r) = x
    BY <1>7 DEF r
  <2>2. QED
    BY <2>1, <1>8, <1>14, TailLeft
<1>18. winfo_obj' = [winfo_obj EXCEPT ![t] = Head(Lines[q])]
  BY <1>2, <1>17
<1>19. QED
  BY <1>13, <1>16, <1>17, <1>18, ChannelGet DEF LineIs

\* Without a ring: the data of the first sender.
LEMMA TakesFromSender ==
    ASSUME WaitAssumption, DtqAssumption, DtqInv, NEW q \in Dtq, NEW t \in Tsk, Executes(t),
           ker.wait[Snd(q)] # << >>, dtqcb[q].count = 0,
           winfo_obj' = [winfo_obj EXCEPT ![t] = winfo_obj[Head(ker.wait[Snd(q)])]],
           ker' = CompleteFirst(ker, Snd(q)), dtqcb' = dtqcb, p_dtqmb' = p_dtqmb, Others
    PROVE  DtqInv' /\ FifoStep
<1>. DEFINE c == dtqcb[q]
            m == p_dtqmb[q]
            s == ker.wait[Snd(q)]
            g == Given(s, winfo_obj)
            w2 == winfo_obj'
            s2 == ker'.wait[Snd(q)]
<1>1. c.count = 0 /\ s # << >>
  OBVIOUS
<1>2. c = dtqcb[q] /\ m = p_dtqmb[q]
  OBVIOUS
<1>. HIDE DEF c, m
<1>3. /\ c \in DTQCB /\ m \in Memory /\ RingOk(c, m) /\ c.count \in Nat /\ c.dtqcnt \in Nat
      /\ DtqQueueOk(Waiters(ker)[Snd(q)], Waiters(ker)[Rcv(q)], c, winfo_obj)
      /\ Waiters(ker)[Snd(q)] # {} /\ BecomesRing(q, c, m)
      /\ Waiters(ker)[Snd(q)] = Range(s) /\ s \in Seq(Tsk)
  BY <1>1, <1>2, ReceiveFacts
<1>4. c.exists /\ c.count = c.dtqcnt
  BY <1>3 DEF DtqQueueOk
<1>5. PICK d \in Data : winfo_obj[Head(s)] = d
  <2>1. Head(s) \in Range(s)
    BY <1>1, <1>3 DEF Range
  <2>2. QED
    BY <2>1, <1>3 DEF DtqQueueOk
<1>6. winfo_obj' = [winfo_obj EXCEPT ![t] = d] /\ WinfoIs(t, d)
  BY <1>5 DEF WinfoIs
<1>7. /\ WaitOk(ker') /\ ker'.tpri = ker.tpri
      /\ OthersAsBefore(q) /\ w2 \in [Tsk -> Data \cup {NULL}]
      /\ Waiters(ker')[Rcv(q)] = {} /\ \A u \in Waiters(ker')[Snd(q)] : w2[u] \in Data
      /\ g \in Seq(Data) /\ g # << >> /\ Head(g) = d
      /\ Given(s2, w2) = Tail(g)
  <2>1. WinfoIs(t, d) /\ s # << >> /\ s = ker.wait[Snd(q)]
    BY <1>1, <1>6
  <2>2. QED
    BY <2>1, <1>5, FirstSender
<1>8. DtqQueueOk(Waiters(ker')[Snd(q)], Waiters(ker')[Rcv(q)], c, w2)
  BY <1>4, <1>7 DEF DtqQueueOk
<1>9. LineIs(q, Ring(c, m) \o Given(s2, w2))
  BY <1>2, <1>3, <1>4, <1>7, <1>8, DtqGoesOn
<1>10. Ring(c, m) \in Seq(Data) /\ Len(Ring(c, m)) = 0 /\ Lines[q] = Ring(c, m) \o g
  BY <1>1, <1>2, <1>4, LineFacts
<1>. HIDE DEF s2, w2, g
<1>11. Lines[q] = g /\ Ring(c, m) \o Given(s2, w2) = Tail(g)
  <2>1. Ring(c, m) = << >> /\ Tail(g) \in Seq(Data)
    BY <1>7, <1>10
  <2>2. QED
    BY <2>1, <1>7, <1>10
<1>12. Lines' = [Lines EXCEPT ![q] = Tail(@)]
  BY <1>9, <1>11 DEF LineIs, Lines
<1>13. Lines[q] # << >> /\ winfo_obj' = [winfo_obj EXCEPT ![t] = Head(Lines[q])]
  BY <1>6, <1>7, <1>11
<1>14. QED
  BY <1>9, <1>12, <1>13, ChannelGet DEF LineIs

\* receive_data
LEMMA ReceivesData ==
    ASSUME WaitAssumption, DtqAssumption, DtqInv, NEW q \in Dtq, NEW t \in Tsk, Executes(t),
           dtqcb[q].exists, receive_data(q, t), Others
    PROVE  DtqInv' /\ FifoStep
<1>. DEFINE c == dtqcb[q]
            ds == winfo_obj[Head(ker.wait[Snd(q)])]
<1>1. CASE /\ c.count > 0 /\ ker.wait[Snd(q)] # << >>
           /\ winfo_obj' = [winfo_obj EXCEPT ![t] = p_dtqmb[q][c.head]]
           /\ Store(q, DequeueData(c), ds) /\ ker' = CompleteFirst(ker, Snd(q))
           /\ dtqcb' = [dtqcb EXCEPT ![q] = EnqueueData(DequeueData(c))]
  BY <1>1, TakesAndMoves
<1>2. CASE /\ c.count > 0 /\ ker.wait[Snd(q)] = << >>
           /\ winfo_obj' = [winfo_obj EXCEPT ![t] = p_dtqmb[q][c.head]]
           /\ dtqcb' = [dtqcb EXCEPT ![q] = DequeueData(c)] /\ UNCHANGED <<ker, p_dtqmb>>
  <2>1. ker' = ker /\ p_dtqmb' = p_dtqmb
    BY <1>2
  <2>2. QED
    BY <2>1, <1>2, TakesData
<1>3. CASE /\ c.count = 0 /\ ker.wait[Snd(q)] # << >>
           /\ winfo_obj' = [winfo_obj EXCEPT ![t] = ds]
           /\ ker' = CompleteFirst(ker, Snd(q)) /\ UNCHANGED <<dtqcb, p_dtqmb>>
  <2>1. dtqcb' = dtqcb /\ p_dtqmb' = p_dtqmb
    BY <1>3
  <2>2. QED
    BY <2>1, <1>3, TakesFromSender
<1>4. QED
  BY <1>1, <1>2, <1>3 DEF receive_data

\* A task begins to wait with its data.
LEMMA SenderWaits ==
    ASSUME WaitAssumption, DtqAssumption, DtqInv, NEW q \in Dtq, NEW t \in Tsk, NEW d \in Data,
           MayWait(t), dtqcb[q].exists, NEW tmout \in BOOLEAN,
           ker.wait[Rcv(q)] = << >>, dtqcb[q].count = dtqcb[q].dtqcnt,
           WinfoIs(t, d), ker' = WobjMakeWait(ker, Snd(q), t, tmout),
           dtqcb' = dtqcb, p_dtqmb' = p_dtqmb, Others
    PROVE  DtqInv' /\ (ker.tpri = {} => FifoStep)
<1>. DEFINE c == dtqcb[q]
            m == p_dtqmb[q]
            s == ker.wait[Snd(q)]
            g == Given(s, winfo_obj)
            w2 == winfo_obj'
            s2 == ker'.wait[Snd(q)]
<1>1. c = dtqcb[q] /\ m = p_dtqmb[q] /\ c.exists /\ c.count = c.dtqcnt
  OBVIOUS
<1>. HIDE DEF c, m
<1>2. /\ WaitOk(ker) /\ ker \in KerType /\ c \in DTQCB /\ m \in Memory /\ RingOk(c, m)
      /\ DtqQueueOk(Waiters(ker)[Snd(q)], Waiters(ker)[Rcv(q)], c, winfo_obj)
      /\ Waiters(ker)[Snd(q)] = Range(s) /\ s \in Seq(Tsk) /\ Waiters(ker)[Rcv(q)] = {}
      /\ Snd(q) \in WaitQueue /\ Rcv(q) \in WaitQueue /\ Snd(q) # Rcv(q)
      /\ BecomesRing(q, c, m)
  BY <1>1, ReceiveFacts
<1>3. "RUNNABLE" \in ker.tcb[t].tstat \/ ker.tcb[t].transient
  BY DEF MayWait, Executes, Runnable, tcb
<1>4. ~ker.tcb[t].raster /\ Executes(t)
  BY DEF MayWait, tcb
<1>5. WaitOk(ker') /\ Waiters(ker') = WithWaiter(Waiters(ker), Snd(q), t)
  BY <1>2, <1>3, <1>4, MakesWait
<1>6. /\ ker'.tpri = ker.tpri /\ \A v \in WaitQueue : v # Snd(q) => ker'.wait[v] = ker.wait[v]
      /\ Snd(q) \notin ker.tpri => s2 = Append(s, t)
  BY <1>2, JoinedQueue
<1>7. "WAITING" \notin ker.tcb[t].tstat /\ t \notin Range(s)
  BY <1>2, <1>4, ExecutesReceives DEF Receiver
<1>8. /\ OthersAsBefore(q) /\ w2 \in [Tsk -> Data \cup {NULL}] /\ w2[t] = d
      /\ \A u \in Range(s) : w2[u] = winfo_obj[u]
  BY <1>2, <1>6, <1>7, WinfoSet
<1>9. Waiters(ker')[Snd(q)] = Range(s) \cup {t} /\ Waiters(ker')[Rcv(q)] = {}
  BY <1>2, <1>5 DEF WithWaiter, Waiters
<1>10. DtqQueueOk(Waiters(ker')[Snd(q)], Waiters(ker')[Rcv(q)], c, w2)
  BY <1>1, <1>2, <1>8, <1>9 DEF DtqQueueOk
<1>11. LineIs(q, Ring(c, m) \o Given(s2, w2))
  BY <1>1, <1>2, <1>5, <1>6, <1>8, <1>10, DtqGoesOn
<1>12. Ring(c, m) \in Seq(Data) /\ g \in Seq(Data) /\ Lines[q] = Ring(c, m) \o g
  BY <1>1, LineFacts
<1>13. ASSUME ker.tpri = {}
       PROVE  FifoStep
  <2>1. s2 = Append(s, t)
    BY <1>6, <1>13
  <2>2. Given(Append(s, t), w2) = Append(g, d)
    BY <1>2, <1>8, <1>12, GivenAppend
  <2>. HIDE DEF g, s, s2, w2
  <2>3. Ring(c, m) \o Append(g, d) = Append(Ring(c, m) \o g, d)
    BY <1>12, AppendRight
  <2>4. Ring(c, m) \o Given(s2, w2) = Append(Lines[q], d)
    BY <2>1, <2>2, <2>3, <1>12
  <2>5. Lines' = [Lines EXCEPT ![q] = Append(@, d)]
    BY <2>4, <1>11 DEF LineIs, Lines
  <2>6. winfo_obj' = [winfo_obj EXCEPT ![t] = d]
    BY DEF WinfoIs
  <2>7. QED
    BY <2>5, <2>6, <1>11, ChannelPutWaiting DEF LineIs
<1>14. QED
  BY <1>11, <1>13 DEF LineIs

\* A task begins to wait for data.
LEMMA ReceiverWaitsFor ==
    ASSUME WaitAssumption, DtqAssumption, DtqInv, NEW q \in Dtq, NEW t \in Tsk,
           MayWait(t), dtqcb[q].exists, NEW tmout \in BOOLEAN,
           ker.wait[Snd(q)] = << >>, dtqcb[q].count = 0,
           ker' = ReceiverWaits(ker, q, t, tmout), winfo_obj' = winfo_obj,
           dtqcb' = dtqcb, p_dtqmb' = p_dtqmb, Others
    PROVE  DtqInv' /\ FifoStep
<1>. DEFINE c == dtqcb[q]
            m == p_dtqmb[q]
<1>1. c = dtqcb[q] /\ m = p_dtqmb[q] /\ c.exists /\ c.count = 0
  OBVIOUS
<1>. HIDE DEF c, m
<1>2. /\ WaitOk(ker) /\ ker \in KerType /\ c \in DTQCB /\ m \in Memory /\ RingOk(c, m)
      /\ winfo_obj \in [Tsk -> Data \cup {NULL}] /\ Waiters(ker)[Snd(q)] = {}
      /\ Snd(q) \in WaitQueue /\ Rcv(q) \in WaitQueue /\ Snd(q) # Rcv(q)
      /\ BecomesRing(q, c, m)
  BY <1>1, ReceiveFacts
<1>3. "RUNNABLE" \in ker.tcb[t].tstat \/ ker.tcb[t].transient
  BY DEF MayWait, Executes, Runnable, tcb
<1>4. ~ker.tcb[t].raster
  BY DEF MayWait, tcb
<1>5. ker' = WobjMakeWait(ker, Rcv(q), t, tmout)
  <2>1. Rcv(q) \notin ker.tpri
    BY DtqFacts
  <2>2. QED
    BY <2>1, <1>2, ReceiverJoins
<1>6. WaitOk(ker') /\ Waiters(ker') = WithWaiter(Waiters(ker), Rcv(q), t)
  BY <1>2, <1>3, <1>4, <1>5, MakesWait
<1>7. /\ ker'.tpri = ker.tpri /\ \A v \in WaitQueue : v # Rcv(q) => ker'.wait[v] = ker.wait[v]
  BY <1>2, <1>5, JoinedQueue
<1>8. Waiters(ker')[Snd(q)] = {} /\ ker'.wait[Snd(q)] = << >>
  BY <1>2, <1>7 DEF Waiters
<1>9. OthersAsBefore(q)
  <2>1. /\ \A w \in WaitQueue : w # Snd(q) /\ w # Rcv(q) => ker'.wait[w] = ker.wait[w]
        /\ \A v \in Dtq : v # q => \A u \in Range(ker.wait[Snd(v)]) : winfo_obj'[u] = winfo_obj[u]
    BY <1>7
  <2>2. QED
    BY <2>1, OthersUntouched
<1>10. DtqQueueOk(Waiters(ker')[Snd(q)], Waiters(ker')[Rcv(q)], c, winfo_obj')
  BY <1>1, <1>8 DEF DtqQueueOk
<1>11. LineIs(q, Ring(c, m) \o Given(ker'.wait[Snd(q)], winfo_obj'))
  BY <1>1, <1>2, <1>6, <1>7, <1>9, <1>10, DtqGoesOn
<1>12. Ring(c, m) \in Seq(Data) /\ Lines[q] = Ring(c, m)
  BY <1>1, LineFacts
<1>13. Ring(c, m) \o Given(ker'.wait[Snd(q)], winfo_obj') = Lines[q]
  BY <1>8, <1>12, GivenNone
<1>14. Lines' = Lines
  BY <1>11, <1>13 DEF LineIs, Lines
<1>15. QED
  BY <1>11, <1>14, ChannelStutters DEF LineIs

LEMMA EndsAllWaits ==
    ASSUME WaitAssumption, DtqAssumption, DtqInv, NEW q \in Dtq, EndAllWaits(q),
           winfo_obj' = winfo_obj, NEW c
    PROVE  /\ WaitOk(ker') /\ ker'.tpri = ker.tpri /\ OthersAsBefore(q)
           /\ winfo_obj' \in [Tsk -> Data \cup {NULL}] /\ ker'.wait[Snd(q)] = << >>
           /\ DtqQueueOk(Waiters(ker')[Snd(q)], Waiters(ker')[Rcv(q)], c, winfo_obj')
<1>. DEFINE k1 == InitWaitQueue(ker, Snd(q))
<1>1. /\ WaitOk(ker) /\ winfo_obj \in [Tsk -> Data \cup {NULL}]
      /\ Snd(q) \in WaitQueue /\ Rcv(q) \in WaitQueue /\ Snd(q) # Rcv(q)
  BY DtqFacts, DtqQueues
<1>2. /\ WaitOk(k1) /\ k1.wait[Snd(q)] = << >> /\ k1.tpri = ker.tpri
      /\ \A v \in WaitQueue : v # Snd(q) => k1.wait[v] = ker.wait[v]
  BY <1>1, InitsQueue DEF Releases
<1>3. ker' = InitWaitQueue(k1, Rcv(q))
  BY DEF EndAllWaits
<1>. HIDE DEF k1
<1>4. /\ WaitOk(ker') /\ ker'.wait[Rcv(q)] = << >> /\ ker'.tpri = k1.tpri
      /\ \A v \in WaitQueue : v # Rcv(q) => ker'.wait[v] = k1.wait[v]
  <2>1. /\ WaitOk(ker') /\ ker'.wait[Rcv(q)] = << >>
        /\ Releases(k1, ker', Rcv(q), Range(k1.wait[Rcv(q)]), "E_DLT")
    BY <1>1, <1>2, <1>3, InitsQueue
  <2>2. QED
    BY <2>1 DEF Releases
<1>5. /\ ker'.wait[Snd(q)] = << >>
      /\ \A w \in WaitQueue : w # Snd(q) /\ w # Rcv(q) => ker'.wait[w] = ker.wait[w]
  BY <1>1, <1>2, <1>4
<1>6. OthersAsBefore(q)
  BY <1>5, OthersUntouched
<1>7. Waiters(ker')[Snd(q)] = {} /\ Waiters(ker')[Rcv(q)] = {}
  BY <1>1, <1>4, <1>5 DEF Waiters, Range
<1>8. DtqQueueOk(Waiters(ker')[Snd(q)], Waiters(ker')[Rcv(q)], c, winfo_obj')
  BY <1>7 DEF DtqQueueOk
<1>9. QED
  BY <1>1, <1>2, <1>4, <1>5, <1>6, <1>8

\* The ring of a control block that is new or initialised.
LEMMA EmptyRing ==
    ASSUME DtqAssumption, NEW c \in DTQCB, c.count = 0, c.head = 0, c.tail = 0, NEW m
    PROVE  RingOk(c, m) /\ Ring(c, m) = << >> /\ \A W : Line(c, m, << >>, W) = << >>
<1>1. RingOk(c, m)
  BY DEF RingOk, Slot, DTQCB
<1>2. Ring(c, m) = << >>
  BY DEF Ring
<1>3. ASSUME NEW W
      PROVE  Line(c, m, << >>, W) = << >>
  BY <1>2 DEF Line, Given
<1>4. QED
  BY <1>1, <1>2, <1>3

LEMMA IniDtq ==
    ASSUME WaitAssumption, DtqAssumption, DtqInv, NEW q \in Dtq, ini_dtq(q)
    PROVE  DtqInv' /\ FifoStep
<1>. DEFINE c == dtqcb[q]
            m == p_dtqmb[q]
            c2 == [c EXCEPT !.count = 0, !.head = 0, !.tail = 0]
<1>1. /\ EndAllWaits(q) /\ dtqcb' = [dtqcb EXCEPT ![q] = c2] /\ p_dtqmb' = p_dtqmb
      /\ winfo_obj' = winfo_obj /\ Others /\ c.exists
  BY DEF ini_dtq
<1>2. /\ c \in DTQCB /\ m \in Memory
  BY DtqFacts
<1>3. /\ c2 \in DTQCB /\ c2.count = 0 /\ c2.head = 0 /\ c2.tail = 0
      /\ c2.exists = c.exists /\ c2.dtqcnt = c.dtqcnt /\ c2.mballoc = c.mballoc
  <2>1. 0 \in 0 .. Maxcnt /\ 0 \in 0 .. Maxcnt - 1
    BY DEF DtqAssumption
  <2>. HIDE DEF c
  <2>2. QED
    BY <2>1, <1>2 DEF DTQCB
<1>4. p_dtqmb' = [p_dtqmb EXCEPT ![q] = m]
  BY <1>1, DtqKept
<1>. HIDE DEF c2
<1>5. BecomesRing(q, c2, m)
  BY <1>1, <1>3, <1>4 DEF BecomesRing
<1>6. c.exists
  BY <1>1
<1>. HIDE DEF m
<1>7. RingOk(c2, m) /\ Ring(c2, m) = << >>
  BY <1>3, EmptyRing
<1>8. /\ WaitOk(ker') /\ ker'.tpri = ker.tpri /\ OthersAsBefore(q)
      /\ winfo_obj' \in [Tsk -> Data \cup {NULL}] /\ ker'.wait[Snd(q)] = << >>
      /\ DtqQueueOk(Waiters(ker')[Snd(q)], Waiters(ker')[Rcv(q)], c2, winfo_obj')
  BY <1>1, EndsAllWaits
<1>9. LineIs(q, Ring(c2, m) \o Given(ker'.wait[Snd(q)], winfo_obj'))
  <2>1. Others
    BY <1>1
  <2>2. QED
    BY <2>1, <1>2, <1>3, <1>5, <1>6, <1>7, <1>8, DtqGoesOn
<1>10. Ring(c2, m) \o Given(ker'.wait[Snd(q)], winfo_obj') = << >>
  BY <1>7, <1>8 DEF Given
<1>11. Lines' = [Lines EXCEPT ![q] = << >>]
  BY <1>9, <1>10 DEF LineIs
<1>12. Rooms' = [Rooms EXCEPT ![q] = Rooms[q]]
  BY <1>9 DEF LineIs, Rooms
<1>13. winfo_obj' = winfo_obj /\ AsLines /\ DtqInv'
  BY <1>1, <1>9 DEF LineIs
<1>14. QED
  BY <1>11, <1>12, <1>13, ChannelReset

LEMMA DelDtq ==
    ASSUME WaitAssumption, DtqAssumption, DtqInv, NEW q \in Dtq, del_dtq(q)
    PROVE  DtqInv' /\ FifoStep
<1>. DEFINE c == [dtqcb[q] EXCEPT !.exists = FALSE]
            m == p_dtqmb[q]
<1>1. /\ q \in DynamicDtq /\ dtqcb[q].exists /\ EndAllWaits(q) /\ winfo_obj' = winfo_obj
      /\ dtqcb' = [dtqcb EXCEPT ![q] = c] /\ p_dtqmb' = p_dtqmb
      /\ mpk' = IF dtqcb[q].mballoc THEN mpk \ {q} ELSE mpk
      /\ free_dtqcb' = Append(free_dtqcb, q)
  BY DEF del_dtq, QueueInsertPrev
<1>2. /\ dtqcb[q] \in DTQCB /\ m \in Memory /\ free_dtqcb \in Seq(DynamicDtq)
      /\ IsInjective(free_dtqcb) /\ q \notin Range(free_dtqcb) /\ RingOk(dtqcb[q], m)
      /\ q \in mpk <=> dtqcb[q].mballoc
  BY <1>1, DtqFacts
<1>3. c \in DTQCB /\ ~c.exists /\ RingOk(c, m)
  BY <1>2 DEF DTQCB, RingOk
<1>4. p_dtqmb' = [p_dtqmb EXCEPT ![q] = m]
  BY <1>1, DtqKept
<1>. HIDE DEF c, m
<1>5. /\ WaitOk(ker') /\ ker'.tpri = ker.tpri /\ OthersAsBefore(q)
      /\ winfo_obj' \in [Tsk -> Data \cup {NULL}] /\ ker'.wait[Snd(q)] = << >>
      /\ DtqQueueOk(Waiters(ker')[Snd(q)], Waiters(ker')[Rcv(q)], c, winfo_obj')
  BY <1>1, EndsAllWaits
<1>6. Allotted(q, c)
  <2>1. mpk' = mpk \ {q}
    BY <1>1, <1>2
  <2>2. QED
    BY <2>1, <1>1, <1>2, <1>3, LastFacts DEF Allotted
<1>7. \A v \in Dtq : Rcv(v) \notin ker'.tpri
  BY <1>5, DtqFacts
<1>8. dtqcb' = [dtqcb EXCEPT ![q] = c]
  BY <1>1
<1>9. /\ DtqInv' /\ Rooms' = [Rooms EXCEPT ![q] = c.dtqcnt]
      /\ Lines' = [Lines EXCEPT ![q] = Line(c, m, ker'.wait[Snd(q)], winfo_obj')]
  BY <1>2, <1>3, <1>4, <1>5, <1>6, <1>7, <1>8, DtqSet
<1>10. Lines' = [Lines EXCEPT ![q] = << >>]
  BY <1>3, <1>9 DEF Line
<1>11. AsLines /\ winfo_obj' = winfo_obj
  BY <1>1, <1>9, SeenAsLines
<1>12. QED
  BY <1>9, <1>10, <1>11, ChannelReset

NewQueues(k, w, v, T) == [k EXCEPT !.wait[w] = << >>, !.wait[v] = << >>, !.tpri = T]

\* A queue without waiting tasks is created, and another one stays empty.
LEMMA CreateTwoQueues ==
    ASSUME NEW k, WaitOk(k), NEW w \in WaitQueue, NEW v \in WaitQueue, v # w,
           k.wait[w] = << >>, k.wait[v] = << >>,
           NEW T \in SUBSET WaitQueue, \A u \in WaitQueue : u # w => (u \in T <=> u \in k.tpri),
           NEW k2, k2 = NewQueues(k, w, v, T)
    PROVE  WaitOk(k2) /\ k2.wait = k.wait /\ k2.tpri = T
<1>1. k \in KerType /\ k.wait \in [WaitQueue -> Seq(Tsk)]
  BY KerFields DEF WaitOk
<1>2. k.wait = [k.wait EXCEPT ![w] = << >>] /\ k.wait = [k.wait EXCEPT ![v] = << >>]
  BY <1>1
<1>3. k2 = [k EXCEPT !.tpri = T]
  BY <1>1, <1>2 DEF KerType, NewQueues
<1>4. k2 = NewQueue(k, w, T)
  BY <1>1, <1>2, <1>3 DEF KerType, NewQueue
<1>5. k2.tpri = T
  BY <1>1, <1>3 DEF KerType
<1>6. QED
  BY <1>4, <1>5, CreateQueue

LEMMA AcreDtq ==
    ASSUME WaitAssumption, DtqAssumption, DtqInv, NEW ini \in DTQINIB, acre_dtq(ini)
    PROVE  DtqInv' /\ FifoStep
<1>. DEFINE q == Head(free_dtqcb)
            c == Empty(ini)
            m == p_dtqmb[q]
            T == IF ini.tpri THEN ker.tpri \cup {Snd(q)} ELSE ker.tpri \ {Snd(q)}
<1>1. /\ free_dtqcb # << >> /\ dtqcb' = [dtqcb EXCEPT ![q] = c] /\ p_dtqmb' = p_dtqmb
      /\ mpk' = IF ini.mballoc THEN mpk \cup {q} ELSE mpk
      /\ ker' = NewQueues(ker, Snd(q), Rcv(q), T)
      /\ free_dtqcb' = Tail(free_dtqcb) /\ winfo_obj' = winfo_obj
  BY DEF acre_dtq, NewQueues
<1>2. free_dtqcb \in Seq(DynamicDtq) /\ IsInjective(free_dtqcb)
  BY DEF DtqInv, DtqTypeOK
<1>3. /\ q \in Range(free_dtqcb) /\ q \in DynamicDtq
      /\ Tail(free_dtqcb) \in Seq(DynamicDtq) /\ IsInjective(Tail(free_dtqcb))
      /\ Range(Tail(free_dtqcb)) = Range(free_dtqcb) \ {q}
  BY <1>1, <1>2, TailFacts
<1>4. q \in Dtq
  BY <1>3 DEF Dtq
<1>. HIDE DEF q
<1>5. /\ WaitOk(ker) /\ ker \in KerType /\ ~dtqcb[q].exists /\ m \in Memory /\ q \notin mpk
      /\ winfo_obj \in [Tsk -> Data \cup {NULL}] /\ ker.tpri \in SUBSET WaitQueue
      /\ Snd(q) \in WaitQueue /\ Rcv(q) \in WaitQueue /\ Snd(q) # Rcv(q)
      /\ DtqQueueOk(Waiters(ker)[Snd(q)], Waiters(ker)[Rcv(q)], dtqcb[q], winfo_obj)
  BY <1>3, <1>4, DtqFacts, DtqQueues, KerFields
<1>6. /\ Waiters(ker)[Snd(q)] = {} /\ Waiters(ker)[Rcv(q)] = {}
      /\ ker.wait[Snd(q)] = << >> /\ ker.wait[Rcv(q)] = << >>
  BY <1>4, <1>5, DtqFacts DEF DtqQueueOk
<1>7. /\ c \in DTQCB /\ c.exists /\ c.count = 0 /\ c.head = 0 /\ c.tail = 0
      /\ c.mballoc = ini.mballoc
  BY DEF Empty, DTQCB, DTQINIB, DtqAssumption
<1>8. T \in SUBSET WaitQueue /\ \A u \in WaitQueue : u # Snd(q) => (u \in T <=> u \in ker.tpri)
  BY <1>5
<1>9. p_dtqmb' = [p_dtqmb EXCEPT ![q] = m]
  BY <1>1, <1>4, DtqKept
<1>. HIDE DEF T, c, m
<1>10. WaitOk(ker') /\ ker'.wait = ker.wait /\ ker'.tpri = T
  BY <1>1, <1>5, <1>6, <1>8, CreateTwoQueues
<1>11. Waiters(ker') = Waiters(ker)
  BY <1>10 DEF Waiters
<1>12. DtqQueueOk(Waiters(ker')[Snd(q)], Waiters(ker')[Rcv(q)], c, winfo_obj')
  BY <1>6, <1>11 DEF DtqQueueOk
<1>13. \A v \in Dtq : Rcv(v) \notin ker'.tpri
  BY <1>4, <1>8, <1>10, DtqFacts, DtqQueues
<1>14. OthersAsBefore(q)
  BY <1>1, <1>10 DEF OthersAsBefore
<1>15. Allotted(q, c)
  BY <1>1, <1>3, <1>5, <1>7 DEF Allotted
<1>16. RingOk(c, m) /\ Line(c, m, << >>, winfo_obj') = << >>
  BY <1>7, EmptyRing
<1>17. dtqcb' = [dtqcb EXCEPT ![q] = c] /\ winfo_obj' \in [Tsk -> Data \cup {NULL}]
  BY <1>1, <1>5
<1>18. /\ DtqInv' /\ Rooms' = [Rooms EXCEPT ![q] = c.dtqcnt]
       /\ Lines' = [Lines EXCEPT ![q] = Line(c, m, ker'.wait[Snd(q)], winfo_obj')]
  BY <1>4, <1>5, <1>7, <1>9, <1>10, <1>12, <1>13, <1>14, <1>15, <1>16, <1>17, DtqSet
<1>19. Lines' = [Lines EXCEPT ![q] = << >>]
  BY <1>6, <1>10, <1>16, <1>18
<1>20. AsLines /\ winfo_obj' = winfo_obj
  BY <1>1, <1>18, SeenAsLines
<1>21. QED
  BY <1>4, <1>18, <1>19, <1>20, ChannelReset

\* A step in which a sender may leave the queue of q, and nothing else changes.
LEMMA SendersChange ==
    ASSUME DtqAssumption, NEW q \in Dtq,
           UNCHANGED <<dtqcb, p_dtqmb, winfo_obj>>,
           \A v \in Dtq : v # q => ker'.wait[Snd(v)] = ker.wait[Snd(v)]
    PROVE  /\ Rooms' = Rooms
           /\ Lines' = [Lines EXCEPT ![q] = Line(dtqcb[q], p_dtqmb[q], ker'.wait[Snd(q)], winfo_obj)]
<1>1. dtqcb' = dtqcb /\ p_dtqmb' = p_dtqmb /\ winfo_obj' = winfo_obj
  OBVIOUS
<1>2. Rooms' = Rooms
  BY <1>1 DEF Rooms
<1>3. \A v \in Dtq : Line(dtqcb'[v], p_dtqmb'[v], ker'.wait[Snd(v)], winfo_obj')
         = IF v = q THEN Line(dtqcb[q], p_dtqmb[q], ker'.wait[Snd(q)], winfo_obj)
           ELSE Line(dtqcb[v], p_dtqmb[v], ker.wait[Snd(v)], winfo_obj)
  BY <1>1
<1>4. QED
  BY <1>2, <1>3 DEF Lines

\* The calls of task management and the timeouts: a sender may leave its queue.
LEMMA TaskDtq ==
    ASSUME WaitAssumption, DtqAssumption, DtqInv, NEW t \in Tsk, TaskNext(t),
           UNCHANGED <<dtqcb, p_dtqmb, free_dtqcb, mpk, winfo_obj>>
    PROVE  DtqInv' /\ (ker.tpri = {} => FifoStep)
<1>1. WaitOk(ker)
  BY DEF DtqInv
<1>2. TaskEffect(ker, ker', t)
  BY <1>1, TaskStep
<1>3. ker'.tpri = ker.tpri /\ (ker.tpri = {} => Shrinks(ker.wait, ker'.wait))
  BY <1>1, TaskQueues
<1>4. \A v \in WaitQueue : Waiters(ker')[v] \subseteq Waiters(ker)[v]
  <2>1. \A w \in WaitQueue, v \in WaitQueue : WithoutWaiter(Waiters(ker), w, t)[v] \subseteq Waiters(ker)[v]
    BY DEF WithoutWaiter, Waiters
  <2>2. QED
    BY <1>1, <1>2, <2>1 DEF TaskEffect
<1>5. DtqInv'
  BY <1>2, <1>3, <1>4, DtqSame DEF TaskEffect
<1>6. AsLines /\ winfo_obj' = winfo_obj
  BY <1>5, SeenAsLines
<1>7. ASSUME \A v \in Dtq : ker'.wait[Snd(v)] = ker.wait[Snd(v)]
      PROVE  FifoStep
  <2>1. dtqcb' = dtqcb /\ p_dtqmb' = p_dtqmb
    OBVIOUS
  <2>2. Rooms' = Rooms /\ Lines' = Lines
    BY <2>1, <1>6, <1>7 DEF Rooms, Lines
  <2>3. QED
    BY <2>2, <1>6, ChannelStutters
<1>8. ASSUME NEW q \in Dtq, NEW i \in 1 .. Len(ker.wait[Snd(q)]),
             Removed(ker.wait[Snd(q)], i, ker'.wait[Snd(q)]), ker'.wait[Snd(q)] \in Seq(Tsk),
             \A v \in WaitQueue : v # Snd(q) => ker'.wait[v] = ker.wait[v]
      PROVE  FifoStep
  <2>. DEFINE s == ker.wait[Snd(q)]
              s2 == ker'.wait[Snd(q)]
              r == Ring(dtqcb[q], p_dtqmb[q])
              g == Given(s, winfo_obj)
              g2 == Given(s2, winfo_obj)
  <2>1. /\ s \in Seq(Tsk) /\ dtqcb[q] \in DTQCB /\ s # << >>
        /\ DtqQueueOk(Waiters(ker)[Snd(q)], Waiters(ker)[Rcv(q)], dtqcb[q], winfo_obj)
        /\ Waiters(ker)[Snd(q)] # {}
    <3>1. s \in Seq(Tsk) /\ Len(s) \in Nat /\ s # << >>
      BY <1>8, DtqFacts
    <3>2. QED
      BY <3>1, DtqFacts
  <2>2. dtqcb[q].exists /\ dtqcb[q].count = dtqcb[q].dtqcnt
    BY <2>1 DEF DtqQueueOk
  <2>3. /\ r \in Seq(Data) /\ Len(r) = dtqcb[q].count /\ g \in Seq(Data)
        /\ Lines[q] = r \o g
    BY <2>2, LineFacts
  <2>4. g2 \in Seq(Data) /\ Removed(g, i, g2) /\ Len(g) = Len(s)
    BY <1>8, <2>1, <2>3, GivenRemoved
  <2>5. Rooms' = Rooms /\ Lines' = [Lines EXCEPT ![q] = r \o g2]
    <3>1. \A v \in Dtq : v # q => ker'.wait[Snd(v)] = ker.wait[Snd(v)]
      BY <1>8, DtqQueues
    <3>2. Line(dtqcb[q], p_dtqmb[q], s2, winfo_obj) = r \o g2
      BY <2>2 DEF Line
    <3>3. UNCHANGED <<dtqcb, p_dtqmb, winfo_obj>>
      OBVIOUS
    <3>4. QED
      BY <3>1, <3>2, <3>3, SendersChange
  <2>6. i \in 1 .. Len(g) /\ Rooms[q] = Len(r)
    BY <1>8, <2>2, <2>3, <2>4 DEF Rooms
  <2>. HIDE DEF r, g, g2
  <2>7. RemoveAt(r \o g, Len(r) + i) = r \o g2 /\ Len(r) + i \in DOMAIN (r \o g)
    BY <2>3, <2>4, <2>6, RemoveRight
  <2>8. PICK j \in DOMAIN Lines[q] : j = Len(r) + i
    BY <2>3, <2>7
  <2>9. j > Rooms[q]
    BY <2>3, <2>6, <2>8
  <2>10. Lines' = [Lines EXCEPT ![q] = RemoveAt(@, j)]
    BY <2>3, <2>5, <2>7, <2>8 DEF Lines
  <2>11. QED
    BY <2>5, <2>9, <2>10, <1>6, ChannelWithdraw
<1>9. ASSUME ker.tpri = {}
      PROVE  FifoStep
  <2>1. CASE ker'.wait = ker.wait
    BY <2>1, <1>7
  <2>2. ASSUME NEW w \in WaitQueue, NEW i \in 1 .. Len(ker.wait[w]),
               Removed(ker.wait[w], i, ker'.wait[w]), ker'.wait[w] \in Seq(Tsk),
               \A v \in WaitQueue : v # w => ker'.wait[v] = ker.wait[v]
        PROVE  FifoStep
    <3>1. PICK q \in Dtq : w = Snd(q) \/ w = Rcv(q)
      BY EachIsDtqQueue
    <3>2. CASE w = Snd(q)
      BY <2>2, <3>2, <1>8
    <3>3. CASE w = Rcv(q)
      <4>1. \A v \in Dtq : Snd(v) \in WaitQueue /\ Snd(v) # w
        BY <3>3, DtqQueues
      <4>2. QED
        BY <4>1, <2>2, <1>7
    <3>4. QED
      BY <3>1, <3>2, <3>3
  <2>3. QED
    BY <2>1, <2>2, <1>3, <1>9 DEF Shrinks
<1>10. QED
  BY <1>5, <1>9

\* send_data and force_send_data
LEMMA SendsData ==
    ASSUME WaitAssumption, DtqAssumption, DtqInv, NEW q \in Dtq, NEW d \in Data,
           dtqcb[q].exists, Others,
           send_data(q, d) \/ (force_send_data(q, d) /\ dtqcb[q].dtqcnt > 0)
    PROVE  DtqInv' /\ FifoStep
<1>. DEFINE c == dtqcb[q]
            Stays == ker' = ker /\ winfo_obj' = winfo_obj
<1>1. CASE PassOn(q, d)
  BY <1>1, PassesOn
<1>2. CASE /\ ker.wait[Rcv(q)] = << >> /\ c.count < c.dtqcnt /\ Store(q, c, d) /\ Stays
           /\ dtqcb' = [dtqcb EXCEPT ![q] = EnqueueData(c)]
  BY <1>2, StoresData
<1>3. CASE /\ ker.wait[Rcv(q)] = << >> /\ c.dtqcnt > 0 /\ Store(q, c, d) /\ Stays
           /\ dtqcb' = [dtqcb EXCEPT ![q] = ForceEnqueueData(c)]
  <2>1. c \in DTQCB /\ c.count \in Nat /\ c.dtqcnt \in Nat /\ c.count <= c.dtqcnt
    BY ReceiveFacts
  <2>2. CASE c.count < c.dtqcnt
    <3>1. ForceEnqueueData(c) = EnqueueData(c)
      BY <2>1, <2>2 DEF ForceEnqueueData, EnqueueData, DTQCB
    <3>2. dtqcb' = [dtqcb EXCEPT ![q] = EnqueueData(c)]
      BY <3>1, <1>3
    <3>3. QED
      BY <3>2, <2>2, <1>3, StoresData
  <2>3. CASE c.count = c.dtqcnt
    BY <2>3, <1>3, ForcesData
  <2>4. QED
    BY <2>1, <2>2, <2>3
<1>4. QED
  BY <1>1, <1>2, <1>3 DEF send_data, force_send_data

LEMMA DtqNextCases ==
    ASSUME DtqAssumption, [DtqNext]_dtq_vars
    PROVE  \/ \E ini \in DTQINIB : ini \in Packets /\ acre_dtq(ini)
           \/ \E q \in Dtq : del_dtq(q) \/ ini_dtq(q)
           \/ \E q \in Dtq : \E d \in Data :
                 /\ dtqcb[q].exists /\ Others
                 /\ send_data(q, d) \/ (force_send_data(q, d) /\ dtqcb[q].dtqcnt > 0)
           \/ \E q \in Dtq : \E d \in Data : \E t \in Tsk : \E tmout \in BOOLEAN :
                 /\ MayWait(t) /\ dtqcb[q].exists
                 /\ ker.wait[Rcv(q)] = << >> /\ dtqcb[q].count = dtqcb[q].dtqcnt
                 /\ WinfoIs(t, d) /\ ker' = WobjMakeWait(ker, Snd(q), t, tmout)
                 /\ dtqcb' = dtqcb /\ p_dtqmb' = p_dtqmb /\ Others
           \/ \E q \in Dtq : \E t \in Tsk :
                 Executes(t) /\ dtqcb[q].exists /\ receive_data(q, t) /\ Others
           \/ \E q \in Dtq : \E t \in Tsk : \E tmout \in BOOLEAN :
                 /\ MayWait(t) /\ dtqcb[q].exists
                 /\ ker.wait[Snd(q)] = << >> /\ dtqcb[q].count = 0
                 /\ ker' = ReceiverWaits(ker, q, t, tmout) /\ winfo_obj' = winfo_obj
                 /\ dtqcb' = dtqcb /\ p_dtqmb' = p_dtqmb /\ Others
           \/ \E t \in Tsk :
                 TaskNext(t) /\ UNCHANGED <<dtqcb, p_dtqmb, free_dtqcb, mpk, winfo_obj>>
           \/ UNCHANGED dtq_vars
<1>1. ASSUME NEW t \in Tsk, NEW q \in Dtq, NEW d \in Data, NEW tmout \in BOOLEAN,
             SendWait(t, q, d, tmout)
      PROVE  \/ dtqcb[q].exists /\ Others /\ send_data(q, d)
             \/ /\ MayWait(t) /\ dtqcb[q].exists
                /\ ker.wait[Rcv(q)] = << >> /\ dtqcb[q].count = dtqcb[q].dtqcnt
                /\ WinfoIs(t, d) /\ ker' = WobjMakeWait(ker, Snd(q), t, tmout)
                /\ dtqcb' = dtqcb /\ p_dtqmb' = p_dtqmb /\ Others
  BY <1>1 DEF SendWait, WinfoIs
<1>2. ASSUME NEW t \in Tsk, NEW q \in Dtq, NEW tmout \in BOOLEAN, ReceiveWait(t, q, tmout)
      PROVE  \/ Executes(t) /\ dtqcb[q].exists /\ receive_data(q, t) /\ Others
             \/ /\ MayWait(t) /\ dtqcb[q].exists
                /\ ker.wait[Snd(q)] = << >> /\ dtqcb[q].count = 0
                /\ ker' = ReceiverWaits(ker, q, t, tmout) /\ winfo_obj' = winfo_obj
                /\ dtqcb' = dtqcb /\ p_dtqmb' = p_dtqmb /\ Others
  BY <1>2 DEF ReceiveWait, MayWait
<1>3. Packets \subseteq DTQINIB
  BY DEF DtqAssumption
<1>4. CASE \E ini \in Packets : acre_dtq(ini)
  BY <1>3, <1>4
<1>5. CASE \E q \in Dtq : del_dtq(q) \/ ini_dtq(q)
  BY <1>5
<1>6. CASE \E q \in Dtq : \E d \in Data : psnd_dtq(q, d) \/ fsnd_dtq(q, d)
  BY <1>6 DEF psnd_dtq, fsnd_dtq
<1>7. CASE \E q \in Dtq : \E d \in Data : \E t \in Tsk : snd_dtq(t, q, d) \/ tsnd_dtq(t, q, d)
  <2>1. PICK q \in Dtq, d \in Data, t \in Tsk : snd_dtq(t, q, d) \/ tsnd_dtq(t, q, d)
    BY <1>7
  <2>2. PICK tmout \in BOOLEAN : SendWait(t, q, d, tmout)
    BY <2>1 DEF snd_dtq, tsnd_dtq
  <2>3. QED
    BY <2>2, <1>1
<1>8. CASE \E q \in Dtq : \E t \in Tsk : rcv_dtq(t, q) \/ trcv_dtq(t, q)
  <2>1. PICK q \in Dtq, t \in Tsk : rcv_dtq(t, q) \/ trcv_dtq(t, q)
    BY <1>8
  <2>2. PICK tmout \in BOOLEAN : ReceiveWait(t, q, tmout)
    BY <2>1 DEF rcv_dtq, trcv_dtq
  <2>3. QED
    BY <2>2, <1>2
<1>9. CASE \E q \in Dtq : \E t \in Tsk : prcv_dtq(t, q)
  BY <1>9 DEF prcv_dtq
<1>10. CASE \E t \in Tsk : TaskNext(t) /\ UNCHANGED <<dtqcb, p_dtqmb, free_dtqcb, mpk, winfo_obj>>
  BY <1>10
<1>11. CASE UNCHANGED dtq_vars
  BY <1>11
<1>12. QED
  BY <1>4, <1>5, <1>6, <1>7, <1>8, <1>9, <1>10, <1>11 DEF DtqNext

LEMMA DtqStep ==
    ASSUME WaitAssumption, DtqAssumption, DtqInv, [DtqNext]_dtq_vars
    PROVE  DtqInv' /\ (ker.tpri = {} => FifoStep)
<1>. DEFINE Goal == DtqInv' /\ (ker.tpri = {} => FifoStep)
<1>1. ASSUME NEW ini \in DTQINIB, acre_dtq(ini)
      PROVE  Goal
  BY <1>1, AcreDtq
<1>2. ASSUME NEW q \in Dtq, del_dtq(q) \/ ini_dtq(q)
      PROVE  Goal
  BY <1>2, DelDtq, IniDtq
<1>3. ASSUME NEW q \in Dtq, NEW d \in Data, dtqcb[q].exists, Others,
             send_data(q, d) \/ (force_send_data(q, d) /\ dtqcb[q].dtqcnt > 0)
      PROVE  Goal
  BY <1>3, SendsData
<1>4. ASSUME NEW q \in Dtq, NEW d \in Data, NEW t \in Tsk, NEW tmout \in BOOLEAN,
             MayWait(t), dtqcb[q].exists,
             ker.wait[Rcv(q)] = << >>, dtqcb[q].count = dtqcb[q].dtqcnt,
             WinfoIs(t, d), ker' = WobjMakeWait(ker, Snd(q), t, tmout),
             dtqcb' = dtqcb, p_dtqmb' = p_dtqmb, Others
      PROVE  Goal
  BY <1>4, SenderWaits
<1>5. ASSUME NEW q \in Dtq, NEW t \in Tsk, Executes(t), dtqcb[q].exists, receive_data(q, t), Others
      PROVE  Goal
  BY <1>5, ReceivesData
<1>6. ASSUME NEW q \in Dtq, NEW t \in Tsk, NEW tmout \in BOOLEAN,
             MayWait(t), dtqcb[q].exists, ker.wait[Snd(q)] = << >>, dtqcb[q].count = 0,
             ker' = ReceiverWaits(ker, q, t, tmout), winfo_obj' = winfo_obj,
             dtqcb' = dtqcb, p_dtqmb' = p_dtqmb, Others
      PROVE  Goal
  BY <1>6, ReceiverWaitsFor
<1>7. ASSUME NEW t \in Tsk, TaskNext(t),
             UNCHANGED <<dtqcb, p_dtqmb, free_dtqcb, mpk, winfo_obj>>
      PROVE  Goal
  BY <1>7, TaskDtq
<1>8. ASSUME UNCHANGED dtq_vars
      PROVE  Goal
  <2>1. /\ ker' = ker /\ UNCHANGED <<dtqcb, p_dtqmb, free_dtqcb, mpk, winfo_obj>>
    BY <1>8 DEF dtq_vars
  <2>2. DtqInv'
    <3>1. WaitOk(ker') /\ ker'.tpri = ker.tpri
      BY <2>1 DEF DtqInv
    <3>2. \A w \in WaitQueue : Waiters(ker')[w] \subseteq Waiters(ker)[w]
      BY <2>1
    <3>3. QED
      BY <3>1, <3>2, <2>1, DtqSame
  <2>3. AsLines
    BY <2>2, SeenAsLines
  <2>4. Rooms' = Rooms /\ Lines' = Lines /\ winfo_obj' = winfo_obj
    BY <2>1 DEF Rooms, Lines
  <2>5. QED
    BY <2>2, <2>3, <2>4, ChannelStutters
<1>. HIDE DEF Goal
<1>9. Goal
  BY <1>1, <1>2, <1>3, <1>4, <1>5, <1>6, <1>7, <1>8, DtqNextCases
<1>10. QED
  BY <1>9 DEF Goal

\* All senders wait in FIFO order (no data queue has TA_TPRI).
SendersInOrder ==
    (\A q \in StaticDtq : ~dtqinib[q].tpri) /\ (\A ini \in Packets : ~ini.tpri)

LEMMA OrderStays ==
    ASSUME WaitAssumption, DtqAssumption, SendersInOrder, DtqInv, [DtqNext]_dtq_vars, ker.tpri = {}
    PROVE  ker'.tpri = {}
<1>1. ASSUME NEW ini \in DTQINIB, ini \in Packets, acre_dtq(ini)
      PROVE  ker'.tpri = {}
  <2>. DEFINE q == Head(free_dtqcb)
              T == IF ini.tpri THEN ker.tpri \cup {Snd(q)} ELSE ker.tpri \ {Snd(q)}
  <2>1. ker' = NewQueues(ker, Snd(q), Rcv(q), T)
    BY <1>1 DEF acre_dtq, NewQueues
  <2>2. T = {}
    BY <1>1 DEF SendersInOrder
  <2>. HIDE DEF T, q
  <2>3. ker \in KerType
    BY DEF DtqInv, WaitOk
  <2>4. ker'.tpri = T
    BY <2>1, <2>3 DEF NewQueues, KerType
  <2>5. QED
    BY <2>2, <2>4
<1>2. ASSUME NEW q \in Dtq, del_dtq(q) \/ ini_dtq(q)
      PROVE  ker'.tpri = {}
  <2>1. EndAllWaits(q) /\ winfo_obj' = winfo_obj
    BY <1>2 DEF del_dtq, ini_dtq
  <2>2. QED
    BY <2>1, EndsAllWaits
<1>3. ASSUME NEW k \in KerType, NEW w \in WaitQueue
      PROVE  CompleteFirst(k, w).tpri = k.tpri
  BY CompletedQueue
<1>4. ASSUME NEW q \in Dtq
      PROVE  ker \in KerType /\ Snd(q) \in WaitQueue /\ Rcv(q) \in WaitQueue
  BY DtqFacts, DtqQueues
<1>5. ASSUME NEW q \in Dtq, NEW d \in Data, send_data(q, d) \/ force_send_data(q, d)
      PROVE  ker'.tpri = {}
  <2>1. ker' = ker \/ ker' = CompleteFirst(ker, Rcv(q))
    BY <1>5 DEF send_data, force_send_data, PassOn
  <2>2. QED
    BY <2>1, <1>3, <1>4
<1>6. ASSUME NEW q \in Dtq, NEW t \in Tsk, NEW tmout \in BOOLEAN,
             ker' = WobjMakeWait(ker, Snd(q), t, tmout)
      PROVE  ker'.tpri = {}
  BY <1>4, <1>6, JoinedQueue
<1>7. ASSUME NEW q \in Dtq, NEW t \in Tsk, receive_data(q, t)
      PROVE  ker'.tpri = {}
  <2>1. ker' = ker \/ ker' = CompleteFirst(ker, Snd(q))
    BY <1>7 DEF receive_data
  <2>2. QED
    BY <2>1, <1>3, <1>4
<1>8. ASSUME NEW q \in Dtq, NEW t \in Tsk, NEW tmout \in BOOLEAN,
             ker' = ReceiverWaits(ker, q, t, tmout)
      PROVE  ker'.tpri = {}
  <2>1. ker' = WobjMakeWait(ker, Rcv(q), t, tmout)
    BY <1>4, <1>8, ReceiverJoins
  <2>2. QED
    BY <2>1, <1>4, JoinedQueue
<1>9. ASSUME NEW t \in Tsk, TaskNext(t)
      PROVE  ker'.tpri = {}
  BY <1>9, TaskQueues DEF DtqInv
<1>10. ASSUME UNCHANGED dtq_vars
       PROVE  ker'.tpri = {}
  BY <1>10 DEF dtq_vars
<1>11. QED
  BY <1>1, <1>2, <1>5, <1>6, <1>7, <1>8, <1>9, <1>10, DtqNextCases

LEMMA InitDtqInv ==
    ASSUME WaitAssumption, DtqAssumption, DtqInit
    PROVE  /\ DtqInv /\ Channel!FifoInit
           /\ SendersInOrder => ker.tpri = {}
<1>. DEFINE T == {Snd(q) : q \in {q \in StaticDtq : dtqinib[q].tpri}}
            free == [Empty([dtqcnt |-> 0, mballoc |-> FALSE]) EXCEPT !.exists = FALSE]
            none == [i \in 0 .. Maxcnt - 1 |-> NULL]
<1>1. /\ KerInit(T) /\ free_dtqcb = SetToSeq(DynamicDtq) /\ mpk = {}
      /\ winfo_obj = [t \in Tsk |-> NULL] /\ p_dtqmb = [q \in Dtq |-> none]
      /\ dtqcb = [q \in Dtq |-> IF q \in StaticDtq
                                  THEN [Empty(dtqinib[q]) EXCEPT !.mballoc = FALSE] ELSE free]
  BY DEF DtqInit
<1>2. /\ Dtq = StaticDtq \cup DynamicDtq /\ StaticDtq \cap DynamicDtq = {}
      /\ IsFiniteSet(DynamicDtq) /\ dtqinib \in [StaticDtq -> DTQINIB] /\ Maxcnt \in Nat \ {0}
  BY DEF DtqAssumption, Dtq
<1>3. T \in SUBSET WaitQueue /\ (\A q \in Dtq : Rcv(q) \notin T) /\ (SendersInOrder => T = {})
  BY <1>2, DtqQueues DEF SendersInOrder
<1>4. ker.tpri = T
  BY <1>1 DEF KerInit
<1>. HIDE DEF T
<1>5. WaitOk(ker) /\ \A w \in WaitQueue : ker.wait[w] = << >>
  BY <1>1, <1>3, InitWaitOk
<1>6. /\ free_dtqcb \in Seq(DynamicDtq) /\ IsInjective(free_dtqcb)
      /\ Range(free_dtqcb) = DynamicDtq
  BY <1>1, <1>2, SetToSeqFacts
<1>7. none \in Memory /\ p_dtqmb \in [Dtq -> Memory] /\ winfo_obj \in [Tsk -> Data \cup {NULL}]
  BY <1>1 DEF Memory
<1>. DEFINE Cb(b, n) == [exists |-> b, count |-> 0, head |-> 0, tail |-> 0,
                         dtqcnt |-> n, mballoc |-> FALSE]
<1>8. ASSUME NEW b \in BOOLEAN, NEW n \in 0 .. Maxcnt
       PROVE  /\ Cb(b, n) \in DTQCB /\ (Cb(b, n).exists <=> b)
              /\ Cb(b, n).count = 0 /\ Cb(b, n).head = 0 /\ Cb(b, n).tail = 0
              /\ ~Cb(b, n).mballoc
  <2>1. 0 \in 0 .. Maxcnt /\ 0 \in 0 .. Maxcnt - 1
    BY <1>2
  <2>2. QED
    BY <2>1 DEF DTQCB
<1>. HIDE DEF Cb
<1>9. ASSUME NEW q \in Dtq
      PROVE  /\ dtqcb[q] \in DTQCB /\ (dtqcb[q].exists <=> q \notin DynamicDtq)
             /\ dtqcb[q].count = 0 /\ dtqcb[q].head = 0 /\ dtqcb[q].tail = 0
             /\ ~dtqcb[q].mballoc
  <2>1. CASE q \in StaticDtq
    <3>1. dtqcb[q] = [Empty(dtqinib[q]) EXCEPT !.mballoc = FALSE] /\ dtqinib[q] \in DTQINIB
      BY <2>1, <1>1, <1>2
    <3>2. PICK n \in 0 .. Maxcnt : dtqcb[q] = Cb(TRUE, n)
      BY <3>1 DEF DTQINIB, Empty, Cb
    <3>3. q \notin DynamicDtq
      BY <2>1, <1>2
    <3>4. QED
      BY <3>2, <3>3, <1>8
  <2>2. CASE q \notin StaticDtq
    <3>1. dtqcb[q] = free
      BY <2>2, <1>1
    <3>2. dtqcb[q] = Cb(FALSE, 0)
      BY <3>1 DEF Empty, Cb
    <3>3. q \in DynamicDtq /\ 0 \in 0 .. Maxcnt
      BY <2>2, <1>2
    <3>4. QED
      BY <3>2, <3>3, <1>8
  <2>3. QED
    BY <2>1, <2>2
<1>10. dtqcb \in [Dtq -> DTQCB]
  BY <1>1, <1>9
<1>11. ASSUME NEW q \in Dtq
       PROVE  /\ RingOk(dtqcb[q], p_dtqmb[q]) /\ ker.wait[Snd(q)] = << >>
              /\ Waiters(ker)[Snd(q)] = {} /\ Waiters(ker)[Rcv(q)] = {}
              /\ Line(dtqcb[q], p_dtqmb[q], ker.wait[Snd(q)], winfo_obj) = << >>
  <2>1. ker.wait[Snd(q)] = << >> /\ ker.wait[Rcv(q)] = << >>
    BY <1>5, DtqQueues
  <2>2. Waiters(ker)[Snd(q)] = {} /\ Waiters(ker)[Rcv(q)] = {}
    BY <2>1, DtqQueues DEF Waiters, Range
  <2>3. /\ RingOk(dtqcb[q], p_dtqmb[q])
        /\ \A W : Line(dtqcb[q], p_dtqmb[q], << >>, W) = << >>
    BY <1>9, EmptyRing
  <2>4. QED
    BY <2>1, <2>2, <2>3
<1>12. DtqTypeOK
  <2>1. \A q \in Dtq : \A t \in Range(ker.wait[Snd(q)]) : winfo_obj[t] \in Data
    BY <1>11 DEF Range
  <2>2. QED
    BY <2>1, <1>1, <1>5, <1>6, <1>7, <1>10 DEF DtqTypeOK, Memory, WaitOk
<1>13. MemoryReturned /\ Range(free_dtqcb) = {q \in Dtq : ~dtqcb[q].exists}
  BY <1>1, <1>2, <1>6, <1>9 DEF MemoryReturned
<1>14. DtqInv
  BY <1>3, <1>4, <1>5, <1>6, <1>11, <1>12, <1>13 DEF DtqInv, DtqQueueOk
<1>15. [q \in Dtq |-> Contents(q)] = [q \in Dtq |-> << >>]
  BY <1>11, <1>14, ContentsAre DEF Lines
<1>16. QED
  BY <1>3, <1>4, <1>14, <1>15 DEF Channel!FifoInit

----------------------------------------------------------------------------
\* The theorems about data queues

\* The invariant DtqInv of the data queues holds in every state (dataqueue.c).
THEOREM DataqueueInvariance ==
    ASSUME WaitAssumption, DtqAssumption
    PROVE  DtqSpec => []DtqInv
<1>1. DtqInit => DtqInv
  BY InitDtqInv
<1>2. DtqInv /\ [DtqNext]_dtq_vars => DtqInv'
  BY DtqStep
<1>3. QED
  BY <1>1, <1>2, PTL DEF DtqSpec

\* The two wait queues of every data queue, the states of the tasks, their time
\* events and the termination requests agree about who waits (wait.c:76-228,
\* dataqueue.c:259-328).
THEOREM DataqueueWaits ==
    ASSUME WaitAssumption, DtqAssumption
    PROVE  DtqSpec => []WaitsAgree
<1>1. DtqInv => WaitsAgree
  BY WaitsAgreeFrom DEF DtqInv
<1>2. QED
  BY <1>1, DataqueueInvariance, PTL

\* A task waits for data only while there are none, neither in the ring nor with a
\* waiting sender, and waits to send only while the ring is full (dataqueue.c:259-271,
\* :309-327).
THEOREM WaitsForDataOrRoom ==
    ASSUME WaitAssumption, DtqAssumption
    PROVE  DtqSpec => []WaitsOnlyIfNeeded
<1>1. DtqInv => WaitsOnlyIfNeeded
  BY DtqProperties
<1>2. QED
  BY <1>1, DataqueueInvariance, PTL

\* The indices of every ring and its count agree, whatever its size, and kernel
\* memory is allocated for exactly the data queues that were created without memory
\* of their own (dataqueue.c:196-245, :403-422, :490).
THEOREM RingsIntact ==
    ASSUME WaitAssumption, DtqAssumption
    PROVE  DtqSpec => [](RingConsistent /\ MemoryReturned)
<1>1. DtqInv => RingConsistent /\ MemoryReturned
  BY DtqProperties DEF DtqInv
<1>2. QED
  BY <1>1, DataqueueInvariance, PTL

\* Where no data queue has TA_TPRI, every data queue is a channel: the data are
\* received in the order in which they were sent and each once; only fsnd_dtq drops
\* data, the oldest; a sender that stops waiting takes its data with it
\* (dataqueue.c:196-328).
THEOREM ChannelImplemented ==
    ASSUME WaitAssumption, DtqAssumption, SendersInOrder
    PROVE  DtqSpec => ImplementsFifo
<1>. DEFINE Ordered == DtqInv /\ ker.tpri = {}
<1>1. DtqInit => Ordered /\ Channel!FifoInit
  BY InitDtqInv
<1>2. Ordered /\ [DtqNext]_dtq_vars => Ordered'
  BY DtqStep, OrderStays
<1>3. Ordered /\ [DtqNext]_dtq_vars => [Channel!FifoNext]_(Channel!fifoVars)
  BY DtqStep DEF FifoStep
<1>. HIDE DEF Ordered
<1>4. QED
  BY <1>1, <1>2, <1>3, PTL DEF DtqSpec, ImplementsFifo, Channel!FifoSpec
==============================================================================
