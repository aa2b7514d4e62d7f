--------------------------------- MODULE Wait ---------------------------------
(***************************************************************************)
(* Waiting for the synchronisation and communication objects: the          *)
(* functions of kernel/wait.[ch] on the wait queues, and the calls of the  *)
(* task management that take a task out of a wait or move it in its        *)
(* queue.  The modules of the objects extend this one.                     *)
(*                                                                         *)
(* A service call is one step: it runs under the giant lock.  Which of     *)
(* the runnable tasks a processor executes is left open here; the modules  *)
(* Task and Sched are about that.  ker is the kernel data:                 *)
(*                                                                         *)
(*   ker.tcb[t]   the task control block with the wait information         *)
(*   ker.wait[w]  the tasks that wait in the queue w                       *)
(*   ker.tpri     the wait queues that are in priority order (TA_TPRI)     *)
(***************************************************************************)
EXTENDS Queues

CONSTANTS
    Tsk,          \* the tasks
    NULL,         \* the null pointer
    TNUM_TPRI,    \* number of task priorities
    ipriority,    \* initial priority of each task
    WaitQueue,    \* the wait queues of the objects
    Calls         \* the calls of the task management in an instance

Pri == 0 .. TNUM_TPRI - 1

AllCalls == {"act_tsk", "ter_tsk", "ras_ter", "rel_wai", "sus_tsk", "chg_pri", "tmo"}

WaitAssumption ==
    /\ IsFiniteSet(Tsk) /\ NULL \notin Tsk /\ NULL \notin WaitQueue
    /\ TNUM_TPRI \in Nat \ {0}
    /\ ipriority \in [Tsk -> Pri]
    /\ Calls \subseteq AllCalls

VARIABLE ker

tcb == ker.tcb

\* The result of the last call that may wait; "none": there was none.
Ercd == {"none", "E_OK", "E_TMOUT", "E_RLWAI", "E_DLT", "E_RASTER"}

\* tstat is the set of the bits of the task state, without the kind of wait,
\* which the queue p_wobjcb tells.  tmevtb: a time event is registered.
\* transient: the processor that executed the task when it was suspended has
\* not yet taken the dispatch request.
TCB == [tstat: SUBSET {"RUNNABLE", "SUSPENDED", "WAITING"}, priority: Pri,
        p_wobjcb: WaitQueue \cup {NULL}, tmevtb: BOOLEAN, wercd: Ercd,
        raster: BOOLEAN, transient: BOOLEAN]

KerType == [tcb: [Tsk -> TCB], wait: [WaitQueue -> Seq(Tsk)], tpri: SUBSET WaitQueue]

DormantTcb(t) == [tstat |-> {}, priority |-> ipriority[t], p_wobjcb |-> NULL,
                  tmevtb |-> FALSE, wercd |-> "none", raster |-> FALSE,
                  transient |-> FALSE]

\* All tasks are activated at the start; attributes of the static objects.
KerInit(tpri) ==
    ker = [tcb  |-> [t \in Tsk |-> [DormantTcb(t) EXCEPT !.tstat = {"RUNNABLE"}]],
           wait |-> [w \in WaitQueue |-> << >>],
           tpri |-> tpri]

Dormant(t)  == tcb[t].tstat = {}
Waiting(t)  == "WAITING" \in tcb[t].tstat
Runnable(t) == "RUNNABLE" \in tcb[t].tstat
Executes(t) == Runnable(t) \/ tcb[t].transient

\* A call that only tasks may issue.
InTask == \E t \in Tsk : Executes(t)

\* A fault of the next operator: the calls that wait do not look at raster.
MayWaitAlways(t) == Executes(t)

\* A call that waits returns E_RASTER if the termination of the caller has
\* been requested.
MayWait(t) == Executes(t) /\ ~tcb[t].raster

----------------------------------------------------------------------------
\* wait.[ch]

QueueInsertTpri(k, w, t) ==
    InsertAt(k.wait[w],
             FirstOrEnd(k.wait[w], {i \in DOMAIN k.wait[w] :
                 k.tcb[t].priority < k.tcb[k.wait[w][i]].priority}), t)

WobjQueueInsert(k, w, t) ==
    IF w \in k.tpri THEN QueueInsertTpri(k, w, t) ELSE QueueInsertPrev(k.wait[w], t)

\* make_wait and make_wait_tmout: in the transient state the task stays
\* suspended.
WaitingTcb(c, w, tmout) ==
    [c EXCEPT !.tstat = IF "SUSPENDED" \in @ THEN @ \cup {"WAITING"} ELSE {"WAITING"},
              !.p_wobjcb = w,
              !.tmevtb = tmout,
              !.transient = FALSE]

MakeWait(k, w, t, tmout) == [k EXCEPT !.tcb[t] = WaitingTcb(@, w, tmout)]

\* wobj_make_wait and wobj_make_wait_tmout
WobjMakeWait(k, w, t, tmout) ==
    LET k1 == MakeWait(k, w, t, tmout)
    IN  [k1 EXCEPT !.wait[w] = WobjQueueInsert(k1, w, t)]

\* The end of a wait with the result ercd: wait_dequeue_tmevtb, wercd and
\* make_non_wait.
EndedTcb(c, ercd) ==
    [c EXCEPT !.tstat = IF "SUSPENDED" \in @ THEN {"SUSPENDED"} ELSE {"RUNNABLE"},
              !.p_wobjcb = NULL,
              !.tmevtb = FALSE,
              !.wercd = ercd]

EndWait(k, t, ercd) == [k EXCEPT !.tcb[t] = EndedTcb(@, ercd)]

\* A fault of the next operator: the time event stays registered.
WaitCompleteKeepsEvent(k, t) ==
    [EndWait(k, t, "E_OK") EXCEPT !.tcb[t].tmevtb = k.tcb[t].tmevtb]

WaitComplete(k, t) == EndWait(k, t, "E_OK")

\* The first task of the queue is taken out and its wait completed.
CompleteFirst(k, w) ==
    WaitComplete([k EXCEPT !.wait[w] = Tail(@)], Head(k.wait[w]))

\* A fault of the next operator: the task stays in its wait queue.
WaitDequeueWobjNot(k, t) == k

WaitDequeueWobj(k, t) ==
    IF k.tcb[t].p_wobjcb = NULL THEN k
    ELSE [k EXCEPT !.wait[k.tcb[t].p_wobjcb] = QueueDelete(@, t)]

\* init_wait_queue: the waits of all tasks end with E_DLT.
InitWaitQueue(k, w) ==
    [k EXCEPT !.wait[w] = << >>,
              !.tcb = [t \in Tsk |-> IF \E i \in DOMAIN k.wait[w] : k.wait[w][i] = t
                                       THEN EndedTcb(@[t], "E_DLT") ELSE @[t]]]

\* A fault of the next operator: the task keeps its place in the queue.
WobjChangePriorityNot(k, t) == k

\* wobj_change_priority, after the priority has been changed.
WobjChangePriority(k, t) ==
    LET w  == k.tcb[t].p_wobjcb
        k1 == [k EXCEPT !.wait[w] = QueueDelete(@, t)]
    IN  IF w \in k.tpri THEN [k1 EXCEPT !.wait[w] = QueueInsertTpri(k1, w, t)] ELSE k

----------------------------------------------------------------------------
\* The calls on tasks, by other tasks, handlers and the tasks themselves.

act_tsk(t) ==
    /\ "act_tsk" \in Calls /\ Dormant(t)
    /\ ker' = [ker EXCEPT !.tcb[t].tstat = {"RUNNABLE"}]

\* task_terminate, called from ter_tsk, ras_ter, ext_tsk and ena_ter.
task_terminate(t) ==
    /\ "ter_tsk" \in Calls /\ ~Dormant(t)
    /\ ker' = [WaitDequeueWobj(ker, t) EXCEPT !.tcb[t] = DormantTcb(t)]

\* ras_ter of a task that has disabled its termination (dis_ter): it stops
\* waiting, whatever it waits for, and is not suspended any more.
ras_ter(t) ==
    /\ "ras_ter" \in Calls /\ ~Dormant(t)
    /\ ker' = LET k == IF Waiting(t) THEN EndWait(WaitDequeueWobj(ker, t), t, "E_RASTER")
                                     ELSE ker
              IN  [k EXCEPT !.tcb[t] = [@ EXCEPT !.raster = TRUE,
                                                 !.tstat = {"RUNNABLE"},
                                                 !.transient = FALSE]]

rel_wai(t) ==
    /\ "rel_wai" \in Calls /\ Waiting(t)
    /\ ker' = EndWait(WaitDequeueWobj(ker, t), t, "E_RLWAI")

sus_tsk(t) ==
    /\ "sus_tsk" \in Calls
    /\ ~Dormant(t) /\ ~tcb[t].raster /\ "SUSPENDED" \notin tcb[t].tstat
    /\ \E executed \in {FALSE, Runnable(t)} :
           ker' = [ker EXCEPT !.tcb[t] =
                      [@ EXCEPT !.tstat = (tcb[t].tstat \ {"RUNNABLE"}) \cup {"SUSPENDED"},
                                !.transient = executed]]

\* The processor of a suspended task takes the dispatch request.
Dispatch(t) ==
    /\ tcb[t].transient
    /\ ker' = [ker EXCEPT !.tcb[t].transient = FALSE]

rsm_tsk(t) ==
    /\ "SUSPENDED" \in tcb[t].tstat
    /\ ker' = [ker EXCEPT !.tcb[t] =
                  [@ EXCEPT !.tstat = IF Waiting(t) THEN {"WAITING"} ELSE {"RUNNABLE"},
                            !.transient = FALSE]]

\* chg_pri with change_priority; the ready queues are not modelled here.
chg_pri(t, pri) ==
    /\ "chg_pri" \in Calls /\ ~Dormant(t)
    /\ ker' = LET k == [ker EXCEPT !.tcb[t].priority = pri]
              IN  IF Waiting(t) THEN WobjChangePriority(k, t) ELSE k

\* The time event of the task occurs (signal_time).
wait_tmout(t) ==
    /\ "tmo" \in Calls /\ tcb[t].tmevtb
    /\ ker' = EndWait(WaitDequeueWobj(ker, t), t, "E_TMOUT")

TaskNext(t) ==
    \/ act_tsk(t) \/ task_terminate(t) \/ ras_ter(t) \/ rel_wai(t)
    \/ sus_tsk(t) \/ Dispatch(t) \/ rsm_tsk(t) \/ wait_tmout(t)
    \/ \E pri \in Pri : chg_pri(t, pri)

----------------------------------------------------------------------------
\* What every object relies on, stated about the tasks and the wait queues of
\* ker, whatever they are in an instance.

\* A wait queue holds exactly the tasks that wait in it, each of them once,
\* whatever took tasks out of their waits (wait.c:76-228, task_term.c:219-224).
QueueHoldsWaiters ==
    /\ \A w \in DOMAIN ker.wait :
          /\ IsInjective(ker.wait[w])
          /\ Range(ker.wait[w]) = {t \in DOMAIN tcb : tcb[t].p_wobjcb = w}
    /\ \A t \in DOMAIN tcb : Waiting(t) <=> tcb[t].p_wobjcb # NULL

\* A queue in priority order is in priority order, also after the priorities
\* of waiting tasks have changed (wait.h:62-79, task.c:433-438).
PriorityOrder ==
    \A w \in ker.tpri : \A i, j \in DOMAIN ker.wait[w] :
        i < j => tcb[ker.wait[w][i]].priority <= tcb[ker.wait[w][j]].priority

\* A registered time event is the time-out of a task that waits: whatever ends
\* a wait removes the event, so that it cannot end a later one
\* (wait.c:90-94, :218-228, task_term.c:220).
TimeoutOfWaiter == \A t \in DOMAIN tcb : tcb[t].tmevtb => Waiting(t)

\* A task whose termination has been requested never waits, so that it gets to
\* its ena_ter (task_term.c:216-224; the E_RASTER returns of the calls).
RasterNeverWaits == \A t \in DOMAIN tcb : tcb[t].raster => Runnable(t)

\* All of this: the queues, the states of the tasks, the time events and the
\* termination requests never disagree about who waits (wait.c:76-228,
\* wait.h:62-79, task_term.c:216-224).
WaitsAgree == QueueHoldsWaiters /\ PriorityOrder /\ TimeoutOfWaiter /\ RasterNeverWaits
================================================================================
