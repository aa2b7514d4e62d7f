--------------------------------- MODULE MCLive ---------------------------------
(***************************************************************************)
(* What must eventually happen, in small instances of the dispatcher       *)
(* (Sched), the dynamic interrupt service routines (DynIsr), the time      *)
(* events (TimeEvent) and the spin locks (SpinLock).  A behaviour is one   *)
(* of one of them, with the fairness that its module states; they share    *)
(* the variables v1 to v8, in the order in which the modules declare them. *)
(***************************************************************************)
EXTENDS Naturals, TLC

CONSTANTS
    Cases,            \* the components of a run
    NULL, GLOCK, EXIT,
    A, B,             \* tasks
    P1, P2,           \* processors
    S, D1, D2,        \* interrupt service routines
    Q1, Q2,           \* their queues
    e1,               \* a time event
    n1, s1            \* a native and an emulated spin lock

VARIABLES case, v1, v2, v3, v4, v5, v6, v7, v8

vars == <<case, v1, v2, v3, v4, v5, v6, v7, v8>>

Prc == {P1, P2}

\* The calls that make processors dispatch for each other.
Sched == INSTANCE Sched WITH
    Tsk <- {A, B}, Prc <- Prc, TNUM_TPRI <- 2, SUBPRI_MAX <- 0, SubprioPri <- {},
    ipriority <- (A :> 0 @@ B :> 1), iprcid <- [t \in {A, B} |-> P1],
    affinity <- [t \in {A, B} |-> Prc], NoActque <- {}, TaAct <- {A, B},
    Calls <- {"slp_tsk", "wup_tsk", "mig_tsk", "dis_dsp", "ena_dsp",
              "chg_ipm", "int"},
    ker <- v1, run <- v2, mode <- v3, at <- v4

\* One queue: its handlers on both processors call routines that a task deletes,
\* which may be terminated meanwhile.
DynIsr == INSTANCE DynIsr WITH
    Isr <- {S, D1, D2}, StaticIsr <- {S}, Que <- {Q1}, Prc <- Prc, Tsk <- {A},
    IsrPri <- {1, 2}, SPri <- S :> 1, SQue <- S :> Q1, Terminable <- {A}, MaxSeq <- 4,
    isrcb <- v1, queue <- v2, isrseq <- v3, free <- v4, scan <- v5, nest <- v6,
    deleting <- v7, hist <- v8

\* An event is registered on either processor by either, and further ahead than a
\* timer can be set.
TimeEvent == INSTANCE TimeEvent WITH
    Ev <- {e1}, EVT <- 7, Prc <- Prc, Tepp <- Prc, TM <- P1,
    TCYC_HRTCNT <- 6, TSTEP_HRTCNT <- 1, HRTCNT_BOUND <- 1, BOUNDARY_MARGIN <- 3,
    TMAX_RELTIM <- 2, TMAX_ADJTIM <- 0, Latency <- 1, RelTimes <- {0, 2},
    Calls <- {"enqueue", "remote", "dequeue", "cyclic"},
    tim <- v1, evttim <- v2, tmevt_heap <- v3, running <- v4, hrt <- v5, request <- v6,
    late <- v7, due <- v8

\* A task and handlers on both processors.
SpinLock == INSTANCE SpinLock WITH
    Tsk <- {A}, Prc <- Prc, Spn <- {n1, s1}, Native <- {n1}, MaxNest <- 1,
    word <- v1, p_locspn <- v2, cpulock <- v3, stack <- v4, pc <- v5, call <- v6

Init ==
    /\ case \in Cases
    /\ \/ case = "Sched" /\ Sched!Init /\ v5 = NULL /\ v6 = NULL /\ v7 = NULL /\ v8 = NULL
       \/ case = "DynIsr" /\ DynIsr!Init
       \/ case = "TimeEvent" /\ TimeEvent!Init
       \/ case = "SpinLock" /\ SpinLock!Init /\ v7 = NULL /\ v8 = NULL

Next ==
    /\ UNCHANGED case
    /\ \/ case = "Sched" /\ Sched!Next /\ UNCHANGED <<v5, v6, v7, v8>>
       \/ case = "DynIsr" /\ DynIsr!Next
       \/ case = "TimeEvent" /\ TimeEvent!Next
       \/ case = "SpinLock" /\ SpinLock!Next /\ UNCHANGED <<v7, v8>>

Spec == Init /\ [][Next]_vars

----------------------------------------------------------------------------
\* The fairness conditions of the modules (Sched!Fairness and so on), each of
\* the steps of its own case.

\* Dispatchers go on and handlers return.
SchedFairness == \A p \in Prc : WF_vars(case = "Sched" /\ Sched!GoesOn(p) /\ UNCHANGED <<case, v5, v6, v7, v8>>)

\* Routines return however often others interrupt them, and a waiting task
\* gets to look.
DynIsrFairness ==
    /\ \A p \in Prc, q \in {Q1} : SF_vars(case = "DynIsr" /\ DynIsr!IsrReturn(p, q) /\ UNCHANGED case)
    /\ SF_vars(case = "DynIsr" /\ DynIsr!Quiesce(A) /\ UNCHANGED case)

\* Time passes and interrupts are taken.
TimeEventFairness ==
    /\ WF_vars(case = "TimeEvent" /\ TimeEvent!Tick /\ UNCHANGED case)
    /\ \A p \in Prc :
          /\ WF_vars(case = "TimeEvent" /\ TimeEvent!SignalTime(p) /\ UNCHANGED case)
          /\ WF_vars(case = "TimeEvent" /\ TimeEvent!SignalTimeContinues(p) /\ UNCHANGED case)
          /\ WF_vars(case = "TimeEvent" /\ TimeEvent!set_hrt_event_handler(p) /\ UNCHANGED case)

\* Calls go on, handlers return, and tasks end their critical sections.
SpinLockFairness ==
    \A p \in Prc :
        /\ WF_vars(/\ case = "SpinLock" /\ \E a \in SpinLock!Agent : SpinLock!Continue(p, a)
                   /\ UNCHANGED <<case, v7, v8>>)
        /\ \A a \in SpinLock!Handler :
              WF_vars(case = "SpinLock" /\ SpinLock!InterruptReturn(p, a) /\ UNCHANGED <<case, v7, v8>>)
        /\ WF_vars(case = "SpinLock" /\ v3[p] /\ SpinLock!ext_tsk(p, A) /\ UNCHANGED <<case, v7, v8>>)

FairSpec == Spec /\ SchedFairness /\ DynIsrFairness /\ TimeEventFairness /\ SpinLockFairness

----------------------------------------------------------------------------
\* Sched!SchedtskRuns: a processor that has a task to schedule, or none, and
\* keeps it, gets to execute it (task.c:199-241, core_support.S dispatcher).
SchedtskRuns ==
    \A p \in Prc : \A t \in {A, B, NULL} :
        (case = "Sched" /\ Sched!Schedtsk(v1, p) = t)
            ~> (case = "Sched" /\ (v2[p] = t \/ Sched!Schedtsk(v1, p) # t))

\* DynIsr!DeletionEnds: del_isr returns, however often the interrupt of the
\* routine comes (interrupt.c:384-409).
DeletionEnds ==
    (case = "DynIsr" /\ v7[A] # NULL) ~> (case = "DynIsr" /\ v7[A] = NULL)

\* TimeEvent!EventHappens: a registered event happens, unless it is removed
\* (time_event.c:720-770).
EventHappens ==
    (case = "TimeEvent" /\ TimeEvent!Queued(e1))
        ~> (case = "TimeEvent" /\ (~TimeEvent!Queued(e1) \/ \E p \in Prc : v4[p] = e1))

\* SpinLock!LockReleased: no lock is kept for ever, even by a handler or a task
\* that ends without returning it (spin_lock.c:162, task_term.c:129,
\* core_support.S:553).
LockReleased ==
    \A l \in {n1, s1, GLOCK} :
        (case = "SpinLock" /\ v1[l]) ~> (case = "SpinLock" /\ ~v1[l])

\* SpinLock!InterruptsAccepted: a processor that waits for a lock goes on
\* accepting interrupts (core_kernel_impl.h:462-466).
InterruptsAccepted ==
    \A p \in Prc : (case = "SpinLock" /\ v3[p]) ~> (case = "SpinLock" /\ ~v3[p])
================================================================================
