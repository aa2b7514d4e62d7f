-------------------------------- MODULE Task --------------------------------
(***************************************************************************)
(* The task management module (kernel/task.c, task.h, wait.h, wait.c): the *)
(* operations on the kernel data that a processor performs while it holds  *)
(* the giant lock.  Each operator takes the kernel data k and returns it   *)
(* as the function of the same name leaves it; me is the processor that    *)
(* executes the function (p_my_pcb).                                       *)
(*                                                                         *)
(*   k.tcb[t]  the task control block of task t                            *)
(*   k.pcb[p]  the processor control block of processor p, but for         *)
(*             p_runtsk, which only the dispatcher writes (module Sched)   *)
(*   k.ipi     the processors with a pending dispatch request interrupt    *)
(*                                                                         *)
(* Wait states other than slp_tsk, tslp_tsk and dly_tsk belong to the      *)
(* synchronisation objects and are not part of this module; neither are    *)
(* the mutexes, so that boosted stays false.                               *)
(***************************************************************************)
EXTENDS Queues

CONSTANTS
    Tsk,          \* the tasks
    Prc,          \* the processors
    NULL,         \* the null pointer, TPRC_NONE
    TNUM_TPRI,    \* number of task priorities
    SUBPRI_MAX,   \* UINT_MAX, the initial sub-priority
    SubprioPri,   \* the priorities set in subprio_primap
    ipriority,    \* initial priority of each task
    iprcid,       \* initial processor of each task
    affinity,     \* the processors each task may be assigned to
    NoActque,     \* the tasks with TA_NOACTQUE
    TaAct         \* the tasks with TA_ACT

\* Priorities in the internal representation: 0 is the highest.
Pri == 0 .. TNUM_TPRI - 1
SubPri == 0 .. SUBPRI_MAX

ASSUME ConfigAssumption ==
    /\ TNUM_TPRI \in Nat \ {0}
    /\ SUBPRI_MAX \in Nat
    /\ IsFiniteSet(Tsk) /\ NULL \notin Tsk /\ NULL \notin Prc
    /\ SubprioPri \subseteq Pri
    /\ ipriority \in [Tsk -> Pri]
    /\ iprcid \in [Tsk -> Prc]
    /\ affinity \in [Tsk -> SUBSET Prc]
    /\ \A t \in Tsk : iprcid[t] \in affinity[t]
    /\ NoActque \subseteq Tsk /\ TaAct \subseteq Tsk

----------------------------------------------------------------------------
\* Task states: tstat is the set of its bits.

Bits == {"RUNNABLE", "SUSPENDED", "SLP", "DLY"}

DORMANT == {}

TstatDormant(k, t)   == k.tcb[t].tstat = DORMANT
TstatRunnable(k, t)  == "RUNNABLE" \in k.tcb[t].tstat
TstatSuspended(k, t) == "SUSPENDED" \in k.tcb[t].tstat
TstatWaiting(k, t)   == k.tcb[t].tstat \cap {"SLP", "DLY"} # {}
TstatWaitSlp(k, t)   == k.tcb[t].tstat \ {"SUSPENDED"} = {"SLP"}

\* Where a task resumes: nowhere (no context is saved in the TCB), at its
\* start address, or where dispatch or the interrupt exit left it: at the end
\* of a call or in its own code (user), in the retry loop of dis_dsp or
\* chg_ipm, in the wait of ext_tsk for the giant lock.
Locations == {"user", "dis_dsp", "chg_ipm", "ext_tsk"}
Contexts == {"none", "start_r"} \cup Locations

TCB == [tstat: SUBSET Bits, bpriority: Pri, priority: Pri, actque: BOOLEAN,
        wupque: BOOLEAN, raster: BOOLEAN, enater: BOOLEAN, boosted: BOOLEAN,
        subpri: SubPri, p_pcb: Prc, actprc: Prc \cup {NULL},
        tmevtb: Prc \cup {NULL}, tskctxb: Contexts]

PCB == [p_schedtsk: Tsk \cup {NULL}, enadsp: BOOLEAN, dspflg: BOOLEAN,
        ipm: BOOLEAN, ready_queue: [Pri -> Seq(Tsk)],
        ready_primap: SUBSET Pri]

Kernel == [tcb: [Tsk -> TCB], pcb: [Prc -> PCB], ipi: SUBSET Prc]

----------------------------------------------------------------------------
\* Queues by sub-priority

CurrentSubpri(k, t) == IF k.tcb[t].boosted THEN 0 ELSE k.tcb[t].subpri

\* A fault of the next operator: the comparison is turned around.
QueueInsertSubprioReversed(k, q, t) ==
    InsertAt(q, FirstOrEnd(q, {i \in DOMAIN q : CurrentSubpri(k, t) >
                                                CurrentSubpri(k, q[i])}), t)

QueueInsertSubprioTail(k, q, t) ==
    InsertAt(q, FirstOrEnd(q, {i \in DOMAIN q : CurrentSubpri(k, t) <
                                                CurrentSubpri(k, q[i])}), t)

QueueInsertSubprioHead(k, q, t) ==
    InsertAt(q, FirstOrEnd(q, {i \in DOMAIN q : CurrentSubpri(k, t) <=
                                                CurrentSubpri(k, q[i])}), t)

----------------------------------------------------------------------------
\* The ready queues and the task to schedule

Queue(k, p, pri) == k.pcb[p].ready_queue[pri]
Schedtsk(k, p) == k.pcb[p].p_schedtsk
PrimapEmpty(k, p) == k.pcb[p].ready_primap = {}

\* The number of the lowest bit that is set.
PrimapSearch(k, p) ==
    CHOOSE pri \in k.pcb[p].ready_primap :
        \A other \in k.pcb[p].ready_primap : pri <= other

SearchSchedtsk(k, p) == Head(Queue(k, p, PrimapSearch(k, p)))

\* A fault of the next operator: the other processor is not interrupted.
UpdateSchedtskDspNoIpi(k, me, p, t) ==
    IF k.pcb[p].dspflg THEN [k EXCEPT !.pcb[p].p_schedtsk = t] ELSE k

UpdateSchedtskDsp(k, me, p, t) ==
    IF k.pcb[p].dspflg
      THEN [k EXCEPT !.pcb[p].p_schedtsk = t,
                     !.ipi = IF p # me /\ Schedtsk(k, p) # t THEN @ \cup {p} ELSE @]
      ELSE k

\* The ready queue of p for pri becomes q, and its bit is set if b.
SetQueue(k, p, pri, q, b) ==
    [k EXCEPT !.pcb[p].ready_queue[pri] = q,
              !.pcb[p].ready_primap = IF b THEN @ \cup {pri} ELSE @ \ {pri}]

\* The queue of t becomes q, into which t has been inserted.
Enqueue(k, t, q) == SetQueue(k, k.tcb[t].p_pcb, k.tcb[t].priority, q, TRUE)

Dequeue(k, t) ==
    LET p == k.tcb[t].p_pcb
        q == QueueDelete(Queue(k, p, k.tcb[t].priority), t)
    IN  SetQueue(k, p, k.tcb[t].priority, q, q # << >>)

\* The task goes to the end of the tasks of its priority, or in front of them.
InsertLast(k, q, t) ==
    IF k.tcb[t].priority \in SubprioPri THEN QueueInsertSubprioTail(k, q, t)
                                        ELSE QueueInsertPrev(q, t)
InsertFirst(k, q, t) ==
    IF k.tcb[t].priority \in SubprioPri THEN QueueInsertSubprioHead(k, q, t)
                                        ELSE QueueInsertNext(q, t)

\* A fault of the next operator: the bitmap is not set.
MakeRunnableNoPrimap(k, me, t) ==
    LET pri == k.tcb[t].priority
        p   == k.tcb[t].p_pcb
        k1  == [k EXCEPT !.pcb[p].ready_queue[pri] = QueueInsertPrev(@, t)]
    IN  IF Schedtsk(k, p) = NULL \/ pri < k.tcb[Schedtsk(k, p)].priority
          THEN UpdateSchedtskDsp(k1, me, p, t) ELSE k1

MakeRunnable(k, me, t) ==
    LET pri == k.tcb[t].priority
        p   == k.tcb[t].p_pcb
        k1  == Enqueue(k, t, InsertLast(k, Queue(k, p, pri), t))
    IN  IF Schedtsk(k, p) = NULL \/ pri < k.tcb[Schedtsk(k, p)].priority
          THEN UpdateSchedtskDsp(k1, me, p, t)
        ELSE IF pri = k.tcb[Schedtsk(k, p)].priority
          THEN UpdateSchedtskDsp(k1, me, p, Head(Queue(k1, p, pri)))
        ELSE k1

MakeNonRunnable(k, me, t) ==
    LET p  == k.tcb[t].p_pcb
        k1 == Dequeue(k, t)
        q  == Queue(k1, p, k.tcb[t].priority)
    IN  IF Schedtsk(k, p) # t
          THEN k1
        ELSE IF q # << >>
          THEN UpdateSchedtskDsp(k1, me, p, Head(q))
        ELSE UpdateSchedtskDsp(k1, me, p,
                 IF PrimapEmpty(k1, p) THEN NULL ELSE SearchSchedtsk(k1, p))

SetDspflg(k, me) ==
    [k EXCEPT !.pcb[me].ipm = FALSE,
              !.pcb[me].dspflg = TRUE,
              !.pcb[me].p_schedtsk =
                  IF PrimapEmpty(k, me) THEN NULL ELSE SearchSchedtsk(k, me)]

ChangePriority(k, me, t, newpri, mtxmode) ==
    LET p      == k.tcb[t].p_pcb
        oldpri == k.tcb[t].priority
        k1     == [Dequeue(k, t) EXCEPT !.tcb[t].priority = newpri]
        q      == Queue(k1, p, newpri)
        k2     == Enqueue(k1, t, IF mtxmode THEN InsertFirst(k1, q, t)
                                            ELSE InsertLast(k1, q, t))
    IN  IF ~TstatRunnable(k, t)
          THEN [k EXCEPT !.tcb[t].priority = newpri]
        ELSE IF Schedtsk(k, p) = t
          THEN IF newpri >= oldpri
                 THEN UpdateSchedtskDsp(k2, me, p, SearchSchedtsk(k2, p))
                 ELSE k2
        ELSE IF newpri <= k2.tcb[Schedtsk(k, p)].priority
          THEN UpdateSchedtskDsp(k2, me, p, Head(Queue(k2, p, newpri)))
        ELSE k2

ChangeSubprio(k, me, t, subpri, p) ==
    LET pri == k.tcb[t].priority
        k1  == [k EXCEPT !.tcb[t].subpri = subpri]
        k2  == IF pri \in SubprioPri
                 THEN [k1 EXCEPT !.pcb[p].ready_queue[pri] =
                           QueueInsertSubprioTail(k1, QueueDelete(@, t), t)]
                 ELSE k1
    IN  IF ~TstatRunnable(k, t)
          THEN k1
        ELSE IF pri = k.tcb[Schedtsk(k, p)].priority
          THEN UpdateSchedtskDsp(k2, me, p, Head(Queue(k2, p, pri)))
        ELSE k2

\* A fault of the next operator: p_schedtsk is not updated.
RotateReadyQueueOnly(k, me, pri, p) ==
    LET q == Queue(k, p, pri)
    IN  IF Len(q) < 2 THEN k
        ELSE [k EXCEPT !.pcb[p].ready_queue[pri] = Append(Tail(q), Head(q))]

RotateReadyQueue(k, me, pri, p) ==
    LET q  == Queue(k, p, pri)
        q1 == Append(Tail(q), Head(q))
        k1 == [k EXCEPT !.pcb[p].ready_queue[pri] = q1]
    IN  IF Len(q) < 2
          THEN k
        ELSE IF Schedtsk(k, p) = Head(q)
          THEN UpdateSchedtskDsp(k1, me, p, Head(q1))
        ELSE k1

----------------------------------------------------------------------------
\* Task states

MakeDormant(k, t) ==
    [k EXCEPT !.tcb[t] =
        [@ EXCEPT !.tstat = DORMANT, !.bpriority = ipriority[t],
                  !.priority = ipriority[t], !.wupque = FALSE,
                  !.raster = FALSE, !.enater = TRUE,
                  !.boosted = FALSE, !.tskctxb = "none"]]

\* make_active: activate_context sets the start address in the TCB.
MakeActive(k, me, t) ==
    MakeRunnable([k EXCEPT !.tcb[t].tskctxb = "start_r",
                           !.tcb[t].tstat = {"RUNNABLE"}], me, t)

\* A fault of the next operator: in the transient state the task forgets that
\* it was suspended.
MakeWaitForgets(k, me, bit, t) ==
    LET k1 == [k EXCEPT !.tcb[t].tstat = {bit}, !.tcb[t].tmevtb = NULL]
    IN  IF TstatSuspended(k, t) THEN k1 ELSE MakeNonRunnable(k1, me, t)

MakeWait(k, me, bit, t) ==
    LET k1 == IF TstatSuspended(k, t)
                THEN [k EXCEPT !.tcb[t].tstat = @ \cup {bit}]
                ELSE MakeNonRunnable([k EXCEPT !.tcb[t].tstat = {bit}], me, t)
    IN  [k1 EXCEPT !.tcb[t].tmevtb = NULL]

\* With a timeout the time event block is registered with the processor me.
MakeWaitTmout(k, me, bit, t) ==
    [MakeWait(k, me, bit, t) EXCEPT !.tcb[t].tmevtb = me]

MakeNonWait(k, me, t) ==
    IF TstatSuspended(k, t)
      THEN [k EXCEPT !.tcb[t].tstat = {"SUSPENDED"}]
      ELSE MakeRunnable([k EXCEPT !.tcb[t].tstat = {"RUNNABLE"}], me, t)

\* The time event block leaves the heap of the processor of the task.
WaitDequeueTmevtb(k, t) == [k EXCEPT !.tcb[t].tmevtb = NULL]

WaitComplete(k, me, t) == MakeNonWait(WaitDequeueTmevtb(k, t), me, t)

----------------------------------------------------------------------------
\* task_terminate returns the kernel data and whether the running task must
\* be activated again on another processor; runtsk is me's p_runtsk.

TerminateOnly(k, me, t) ==
    LET k1 == IF TstatRunnable(k, t) THEN MakeNonRunnable(k, me, t)
              ELSE IF TstatWaiting(k, t) THEN WaitDequeueTmevtb(k, t)
              ELSE k
    IN  MakeDormant(k1, t)

\* The queued activation request moves the task to its next processor.
TakeActque(k, t) ==
    [k EXCEPT !.tcb[t].actque = FALSE,
              !.tcb[t].actprc = NULL,
              !.tcb[t].p_pcb = IF k.tcb[t].actprc # NULL THEN k.tcb[t].actprc ELSE @]

ActivateElsewhere(k, me, t, runtsk) ==
    /\ k.tcb[t].actque
    /\ k.tcb[t].actprc \notin {NULL, me}
    /\ t = runtsk

TaskTerminate(k, me, t, runtsk) ==
    LET k1 == TerminateOnly(k, me, t)
    IN  IF ~k.tcb[t].actque THEN k1
        ELSE IF ActivateElsewhere(k, me, t, runtsk) THEN TakeActque(k1, t)
        ELSE MakeActive(TakeActque(k1, t), me, t)
==============================================================================
