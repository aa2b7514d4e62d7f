------------------------------- MODULE DynIsr -------------------------------
(***************************************************************************)
(* Interrupt service routines that come and go while their interrupts are  *)
(* served (kernel/interrupt.c: call_isr, acre_isr, del_isr).               *)
(*                                                                         *)
(* call_isr goes through the queue of an interrupt number and calls the    *)
(* routines without the giant lock; tasks on other processors meanwhile    *)
(* register and delete routines of the same queue.  del_isr gives the      *)
(* control block back only when no processor executes the routine.         *)
(*                                                                         *)
(* A critical section under the giant lock is one step.  A task takes its  *)
(* steps on a processor that executes no interrupt handler; it may be on   *)
(* another one at its next step, because tasks migrate.                    *)
(***************************************************************************)
EXTENDS Queues

CONSTANTS
    Isr,          \* the control blocks (ISRCB), which the ISR IDs stand for
    StaticIsr,    \* those of the statically created routines in the queues
    Que,          \* the queues (ISRQCB), one for each eligible interrupt number
    Prc,          \* the processors
    Tsk,          \* the tasks that create and delete routines
    IsrPri,       \* the priorities of routines (isrpri)
    SPri, SQue,   \* priority and queue of each static routine
    Terminable,   \* the tasks that others may terminate
    NULL,
    MaxSeq        \* bound of the model: registrations with a queue

ASSUME IsrAssumption ==
    /\ IsFiniteSet(Isr) /\ StaticIsr \subseteq Isr
    /\ IsrPri \subseteq Nat /\ IsrPri # {}
    /\ SPri \in [StaticIsr -> IsrPri]
    /\ SQue \in [StaticIsr -> Que]
    /\ Que # {}
    /\ Terminable \subseteq Tsk
    /\ NULL \notin Isr
    /\ MaxSeq \in Nat /\ Cardinality(StaticIsr) <= MaxSeq

VARIABLES
    isrcb,        \* the control blocks, with their initialisation blocks
    queue,        \* isr_queue of each queue
    isrseq,       \* isrseq of each queue, the next registration number
    free,         \* free_isrcb
    scan,         \* the locals of call_isr on each processor for each queue
    nest,         \* the queues whose handlers a processor executes, latest first
    deleting,     \* the block that a task in del_isr waits for, or NULL
    hist          \* history of each execution of call_isr, for the properties

vars == <<isrcb, queue, isrseq, free, scan, nest, deleting, hist>>

\* exists: isratr is not TA_NOEXS; running: the processors whose bit is set.
ISRCB == [exists: BOOLEAN, isrpri: IsrPri, que: Que, isrseq: Nat, running: SUBSET Prc]

\* The routine that call_isr calls, or NULL, with cur_isrpri and cur_isrseq.
Scan == [isr: Isr \cup {NULL}, isrpri: IsrPri, isrseq: Nat]

\* A block and its number tell one registration with a queue from all others:
\* due are those that an execution of call_isr has to call, called those that
\* it has called.
Registration == Isr \X Nat
History == [due: SUBSET Registration, called: Seq(Registration)]

AnyPri == CHOOSE pri \in IsrPri : TRUE
AnyQue == CHOOSE q \in Que : TRUE
NoScan == [isr |-> NULL, isrpri |-> AnyPri, isrseq |-> 0]
NoHist == [due |-> {}, called |-> << >>]

\* ISR_KEY_GT
IsrKeyGt(a, b) ==
    \/ a.isrpri > b.isrpri
    \/ a.isrpri = b.isrpri /\ a.isrseq > b.isrseq

\* The routines of a queue are in the order of their keys.
InOrder(q) ==
    \A a, b \in DOMAIN queue[q] :
       a < b => IsrKeyGt(isrcb[queue[q][b]], isrcb[queue[q][a]])

\* The first of a set of positions.
FirstOf(at) == CHOOSE a \in at : \A b \in at : a <= b

----------------------------------------------------------------------------
\* initialize_isr: the static routines enter their queues in the order of
\* their IDs, whatever that is; the other blocks are free.
StaticOf(q) == {i \in StaticIsr : SQue[i] = q}

InitialBlock(i, number) ==
    IF i \in StaticIsr
      THEN [exists |-> TRUE, isrpri |-> SPri[i], que |-> SQue[i],
            isrseq |-> number, running |-> {}]
      ELSE [exists |-> FALSE, isrpri |-> AnyPri, que |-> AnyQue,
            isrseq |-> 0, running |-> {}]

Init ==
    /\ \E number \in [StaticIsr -> 0 .. Cardinality(StaticIsr)] :
          /\ \A q \in Que :
                {number[i] : i \in StaticOf(q)} = 0 .. Cardinality(StaticOf(q)) - 1
          /\ isrcb = [i \in Isr |-> InitialBlock(i, IF i \in StaticIsr THEN number[i] ELSE 0)]
    /\ isrseq = [q \in Que |-> Cardinality(StaticOf(q))]
    /\ queue \in [Que -> Arrangements(StaticIsr)]
    /\ \A q \in Que : ToSet(queue[q]) = StaticOf(q) /\ InOrder(q)
    /\ free \in Arrangements(Isr \ StaticIsr) /\ ToSet(free) = Isr \ StaticIsr
    /\ scan = [p \in Prc |-> [q \in Que |-> NoScan]]
    /\ nest = [p \in Prc |-> << >>]
    /\ deleting = [t \in Tsk |-> NULL]
    /\ hist = [p \in Prc |-> [q \in Que |-> NoHist]]

----------------------------------------------------------------------------
\* call_isr

\* The positions of the queue at which call_isr may find the next routine.
Beyond(q, cur) == {a \in DOMAIN queue[q] : IsrKeyGt(isrcb[queue[q][a]], cur)}

\* The loop of call_isr on p: calls the first routine of q found at one of the
\* positions, or ends.  cb are the control blocks, h the history so far.
CallNext(p, q, at, cb, h) ==
    IF at = {}
      THEN /\ isrcb' = cb
           /\ scan' = [scan EXCEPT ![p][q] = NoScan]
           /\ hist' = [hist EXCEPT ![p][q] = NoHist]
      ELSE LET i == queue[q][FirstOf(at)]
           IN  /\ isrcb' = [cb EXCEPT ![i].running = @ \cup {p}]
               /\ scan' = [scan EXCEPT ![p][q] =
                     [isr |-> i, isrpri |-> cb[i].isrpri, isrseq |-> cb[i].isrseq]]
               /\ hist' = [hist EXCEPT ![p][q] =
                     [h EXCEPT !.called = Append(@, <<i, cb[i].isrseq>>)]]

\* call_isr up to the call of the first routine.  An interrupt does not
\* interrupt its own handler on the same processor, but those of others.
Interrupt(p, q) ==
    /\ q \notin ToSet(nest[p])
    /\ CallNext(p, q, DOMAIN queue[q], isrcb,
                [NoHist EXCEPT !.due = {<<i, isrcb[i].isrseq>> : i \in ToSet(queue[q])}])
    /\ nest' = [nest EXCEPT ![p] = IF queue[q] = << >> THEN @ ELSE <<q>> \o @]
    /\ UNCHANGED <<queue, isrseq, free, deleting>>

\* The routine returns to call_isr, which takes the lock again, clears its bit
\* and looks for the next routine after the one called, by their keys.
IsrReturn(p, q) ==
    /\ nest[p] # << >> /\ Head(nest[p]) = q
    /\ CallNext(p, q, Beyond(q, scan[p][q]),
                [isrcb EXCEPT ![scan[p][q].isr].running = @ \ {p}], hist[p][q])
    /\ nest' = [nest EXCEPT ![p] = IF Beyond(q, scan[p][q]) = {} THEN Tail(@) ELSE @]
    /\ UNCHANGED <<queue, isrseq, free, deleting>>

----------------------------------------------------------------------------
\* acre_isr and del_isr

\* A task that is not waiting in del_isr, and may execute.
TaskRuns == \E p \in Prc : nest[p] = << >>
TaskCalls(t) == TaskRuns /\ deleting[t] = NULL

\* Where enqueue_isr puts a routine: after those of its priority.
IsrPosition(q, pri) ==
    FirstOrEnd(queue[q], {a \in DOMAIN queue[q] : pri < isrcb[queue[q][a]].isrpri})

\* A fault of the next operator: an empty queue starts with number 0 again.
IsrNumberReset(q) == IF queue[q] = << >> THEN 0 ELSE isrseq[q]

\* The number that enqueue_isr gives to the next routine of a queue.
IsrNumber(q) == isrseq[q]

\* acre_isr; without a free block (E_NOID) nothing changes.  A routine that
\* enters a queue at the place of a scan or behind it becomes due in it.
acre_isr(t, q, pri) ==
    /\ TaskCalls(t)
    /\ isrseq[q] < MaxSeq
    /\ free # << >>
    /\ LET i == Head(free) IN
         /\ free' = QueueDelete(free, i)
         /\ isrcb' = [isrcb EXCEPT ![i] =
               [exists |-> TRUE, isrpri |-> pri, que |-> q,
                isrseq |-> IsrNumber(q), running |-> {}]]
         /\ isrseq' = [isrseq EXCEPT ![q] = IsrNumber(q) + 1]
         /\ queue' = [queue EXCEPT ![q] = InsertAt(@, IsrPosition(q, pri), i)]
         /\ hist' = [p \in Prc |-> [hist[p] EXCEPT ![q].due =
               IF q \in ToSet(nest[p]) /\ pri >= scan[p][q].isrpri
                 THEN @ \cup {<<i, IsrNumber(q)>>} ELSE @]]
    /\ UNCHANGED <<scan, nest, deleting>>

\* The history without a deleted routine: no scan has to call it any more.
NotDue(i) ==
    [p \in Prc |-> [hist[p] EXCEPT ![isrcb[i].que].due = @ \ {<<i, isrcb[i].isrseq>>}]]

\* A fault of the next action: the block is given back while routines run.
del_isr_at_once(t, i) ==
    /\ TaskCalls(t)
    /\ isrcb[i].exists /\ i \notin StaticIsr
    /\ queue' = [queue EXCEPT ![isrcb[i].que] = QueueDelete(@, i)]
    /\ isrcb' = [isrcb EXCEPT ![i].exists = FALSE]
    /\ hist' = NotDue(i)
    /\ free' = QueueInsertPrev(free, i)
    /\ UNCHANGED <<isrseq, scan, nest, deleting>>

\* A fault of the next action: TA_NOEXS is left for later if it has to wait.
del_isr_noexs_late(t, i) ==
    /\ TaskCalls(t)
    /\ isrcb[i].exists /\ i \notin StaticIsr
    /\ queue' = [queue EXCEPT ![isrcb[i].que] = QueueDelete(@, i)]
    /\ isrcb' = [isrcb EXCEPT ![i].exists = isrcb[i].running # {}]
    /\ hist' = NotDue(i)
    /\ IF isrcb[i].running = {}
         THEN free' = QueueInsertPrev(free, i) /\ UNCHANGED deleting
         ELSE deleting' = [deleting EXCEPT ![t] = i] /\ UNCHANGED free
    /\ UNCHANGED <<isrseq, scan, nest>>

\* A fault of the next action: the routine stays in its queue if it has to wait.
del_isr_dequeue_late(t, i) ==
    /\ TaskCalls(t)
    /\ isrcb[i].exists /\ i \notin StaticIsr
    /\ IF isrcb[i].running = {}
         THEN /\ queue' = [queue EXCEPT ![isrcb[i].que] = QueueDelete(@, i)]
              /\ free' = QueueInsertPrev(free, i)
              /\ UNCHANGED deleting
         ELSE deleting' = [deleting EXCEPT ![t] = i] /\ UNCHANGED <<queue, free>>
    /\ isrcb' = [isrcb EXCEPT ![i].exists = FALSE]
    /\ hist' = NotDue(i)
    /\ UNCHANGED <<isrseq, scan, nest>>

\* del_isr up to its first look at the bits; E_NOEXS and E_OBJ change nothing.
del_isr(t, i) ==
    /\ TaskCalls(t)
    /\ isrcb[i].exists /\ i \notin StaticIsr
    /\ queue' = [queue EXCEPT ![isrcb[i].que] = QueueDelete(@, i)]
    /\ isrcb' = [isrcb EXCEPT ![i].exists = FALSE]
    /\ hist' = NotDue(i)
    /\ IF isrcb[i].running = {}
         THEN free' = QueueInsertPrev(free, i) /\ UNCHANGED deleting
         ELSE deleting' = [deleting EXCEPT ![t] = i] /\ UNCHANGED free
    /\ UNCHANGED <<isrseq, scan, nest>>

\* del_isr finds no bit set and gives the block back.  A look that finds one
\* changes nothing.
Quiesce(t) ==
    /\ TaskRuns
    /\ deleting[t] # NULL
    /\ isrcb[deleting[t]].running = {}
    /\ free' = QueueInsertPrev(free, deleting[t])
    /\ deleting' = [deleting EXCEPT ![t] = NULL]
    /\ UNCHANGED <<isrcb, queue, isrseq, scan, nest, hist>>

\* The task is terminated (ter_tsk, ras_ter) while del_isr has released the lock.
Terminate(t) ==
    /\ TaskRuns
    /\ t \in Terminable
    /\ deleting[t] # NULL
    /\ deleting' = [deleting EXCEPT ![t] = NULL]
    /\ UNCHANGED <<isrcb, queue, isrseq, free, scan, nest, hist>>

----------------------------------------------------------------------------
TaskStep(t) ==
    \/ \E q \in Que, pri \in IsrPri : acre_isr(t, q, pri)
    \/ \E i \in Isr : del_isr(t, i)
    \/ Quiesce(t)
    \/ Terminate(t)

Next ==
    \/ \E p \in Prc, q \in Que : Interrupt(p, q) \/ IsrReturn(p, q)
    \/ \E t \in Tsk : TaskStep(t)

Spec == Init /\ [][Next]_vars

\* Routines return, also when others interrupt them again and again, and a
\* processor is not always in a handler when a waiting task may look.
FairSpec ==
    /\ Spec
    /\ \A p \in Prc, q \in Que : SF_vars(IsrReturn(p, q))
    /\ \A t \in Tsk : SF_vars(Quiesce(t))

----------------------------------------------------------------------------
\* Types of the variables.
TypeOK ==
    /\ isrcb \in [Isr -> ISRCB]
    /\ queue \in [Que -> Seq(Isr)]
    /\ isrseq \in [Que -> 0 .. MaxSeq]
    /\ free \in Seq(Isr)
    /\ scan \in [Prc -> [Que -> Scan]]
    /\ nest \in [Prc -> Seq(Que)]
    /\ deleting \in [Tsk -> Isr \cup {NULL}]
    /\ hist \in [Prc -> [Que -> History]]

\* The place of a block: a queue that a scan may find it in, the list of free
\* blocks, or a task that waits in del_isr.
QueuesWith(i) == {q \in Que : i \in ToSet(queue[q])}
WaitersFor(i) == {t \in Tsk : deleting[t] = i}

\* Every block has at most one place, whoever is terminated: none is handed out
\* twice or found by a scan when it is free, and del_isr is right that it deletes
\* what it has found (del_isr writes TA_NOEXS before it waits).
BlockOnce ==
    /\ \A q \in Que : IsInjective(queue[q])
    /\ IsInjective(free)
    /\ \A i \in Isr :
          /\ QueuesWith(i) = IF isrcb[i].exists THEN {isrcb[i].que} ELSE {}
          /\ isrcb[i].exists => i \notin ToSet(free)
          /\ isrcb[i].exists \/ i \in ToSet(free) => WaitersFor(i) = {}
          /\ \A t \in WaitersFor(i) : WaitersFor(i) = {t}

\* And it has a place: no block is lost.
BlockPlaces ==
    /\ BlockOnce
    /\ \A i \in Isr : isrcb[i].exists \/ i \in ToSet(free) \/ WaitersFor(i) # {}

\* While a processor executes a routine its block is not free and still stands
\* for the registration that call_isr has found, so that call_isr may touch it
\* after the routine returns, and whoever deletes the routine learns from
\* running that it must wait.
BlockHeld ==
    \A p \in Prc, q \in Que :
       LET i == scan[p][q].isr
       IN  i # NULL => /\ i \notin ToSet(free)
                       /\ isrcb[i].que = q
                       /\ isrcb[i].isrpri = scan[p][q].isrpri
                       /\ isrcb[i].isrseq = scan[p][q].isrseq
                       /\ p \in isrcb[i].running

\* A queue is in the order in which call_isr looks for the next routine, so the
\* first that it finds after its place is the nearest (enqueue_isr).
QueueOrder == \A q \in Que : InOrder(q)

\* No routine is called twice for one interrupt, whatever is registered and
\* deleted while call_isr goes through the queue.
CalledOnce == \A p \in Prc, q \in Que : IsInjective(hist[p][q].called)

\* call_isr returns only when it has called every routine that was registered
\* when it began, or registered at or behind its place since, and not deleted.
ScanComplete ==
    [][\A p \in Prc, q \in Que :
          q \in ToSet(nest[p]) /\ q \notin ToSet(nest'[p])
          => hist[p][q].due \subseteq ToSet(hist[p][q].called)]_vars

\* A routine whose deletion has begun is not called any more.
DeletedNotCalled ==
    [][\A i \in Isr : ~isrcb[i].exists => isrcb'[i].running \subseteq isrcb[i].running]_vars

\* del_isr returns, however often the interrupt of the routine comes.
DeletionEnds == \A t \in Tsk : deleting[t] # NULL ~> deleting[t] = NULL
=============================================================================
