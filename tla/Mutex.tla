--------------------------------- MODULE Mutex ---------------------------------
(***************************************************************************)
(* Mutexes (kernel/mutex.c), with the priority ceiling protocol and their  *)
(* dynamic creation; chg_pri and task_terminate with their hooks for       *)
(* mutexes.  The wait queue of a mutex has the name of the mutex; the      *)
(* attribute TA_CEILING includes TA_TPRI, so that the queue of a ceiling   *)
(* mutex is in priority order.                                             *)
(***************************************************************************)
EXTENDS Wait

CONSTANTS
    StaticMtx,    \* the mutexes the configuration defines
    DynamicMtx,   \* the control blocks for acre_mtx
    mtxinib,      \* the static mutexes
    T_CMTX       \* the arguments that acre_mtx is called with

Mtx == StaticMtx \cup DynamicMtx

MTXINIB == [mtxatr: {"TA_NULL", "TA_TPRI", "TA_CEILING"}, ceilpri: Pri]

MtxAssumption ==
    /\ WaitQueue = Mtx
    /\ StaticMtx \cap DynamicMtx = {} /\ IsFiniteSet(DynamicMtx)
    /\ mtxinib \in [StaticMtx -> MTXINIB] /\ T_CMTX \subseteq MTXINIB

VARIABLES
    mtxcb,        \* the control blocks; the attribute tells if a mutex exists
    held,         \* the fields for mutexes of the task control blocks
    free_mtxcb    \* the list of the free control blocks

mtx_vars == <<ker, mtxcb, held, free_mtxcb>>

MTXCB == [mtxatr: {"TA_NULL", "TA_TPRI", "TA_CEILING", "TA_NOEXS"}, ceilpri: Pri,
          p_loctsk: Tsk \cup {NULL}]

\* lastmtx is the list from p_lastmtx along p_prevmtx.
HELD == [bpriority: Pri, boosted: BOOLEAN, lastmtx: Seq(Mtx)]

MtxTypeOK ==
    /\ ker \in KerType
    /\ mtxcb \in [Mtx -> MTXCB]
    /\ held \in [Tsk -> HELD]
    /\ free_mtxcb \in Seq(DynamicMtx)

NewMtxcb(ini) == [mtxatr |-> ini.mtxatr, ceilpri |-> ini.ceilpri, p_loctsk |-> NULL]

NoMutex(t) == [bpriority |-> ipriority[t], boosted |-> FALSE, lastmtx |-> << >>]

\* initialize_mutex
MtxInit ==
    /\ KerInit({m \in StaticMtx : mtxinib[m].mtxatr # "TA_NULL"})
    /\ mtxcb = [m \in Mtx |-> IF m \in StaticMtx THEN NewMtxcb(mtxinib[m])
                  ELSE [mtxatr |-> "TA_NOEXS", ceilpri |-> 0, p_loctsk |-> NULL]]
    /\ held = [t \in Tsk |-> NoMutex(t)]
    /\ free_mtxcb = SetToSeq(DynamicMtx)

Exists(m) == mtxcb[m].mtxatr # "TA_NOEXS"

MTX_CEILING(m) == mtxcb[m].mtxatr = "TA_CEILING"

----------------------------------------------------------------------------
\* The internal functions work on both: st.k is the kernel data of module Wait,
\* st.h what the tasks hold.

Ceilings(h, t) == {mtxcb[m].ceilpri : m \in {m \in Range(h[t].lastmtx) : MTX_CEILING(m)}}

\* A fault of the next operator: a task that waits for a mutex with a higher
\* ceiling may be changed.
mutex_check_ceilpri_held(t, bpriority) == \A c \in Ceilings(held, t) : bpriority >= c

mutex_check_ceilpri(t, bpriority) ==
    /\ \A c \in Ceilings(held, t) : bpriority >= c
    /\ \A m \in Mtx : tcb[t].p_wobjcb = m /\ MTX_CEILING(m) => bpriority >= mtxcb[m].ceilpri

\* mutex_calc_priority; it sets boosted, too.
CalcPriority(h, t) == Min({h[t].bpriority} \cup Ceilings(h, t))

\* change_priority of task.c; the ready queues are not modelled here.
change_priority(k, t, newpri) ==
    LET k1 == [k EXCEPT !.tcb[t].priority = newpri]
    IN  IF k.tcb[t].p_wobjcb # NULL THEN WobjChangePriority(k1, t) ELSE k1

mutex_raise_priority(st, t, newpri) ==
    IF newpri <= st.k.tcb[t].priority
      THEN [k |-> IF newpri < st.k.tcb[t].priority THEN change_priority(st.k, t, newpri)
                                                   ELSE st.k,
            h |-> [st.h EXCEPT ![t].boosted = TRUE]]
      ELSE st

mutex_drop_priority(st, t, oldpri) ==
    IF oldpri = st.k.tcb[t].priority
      THEN LET newpri == CalcPriority(st.h, t)
           IN  [k |-> IF newpri # st.k.tcb[t].priority THEN change_priority(st.k, t, newpri)
                                                       ELSE st.k,
                h |-> [st.h EXCEPT ![t].boosted = Ceilings(st.h, t) # {}]]
      ELSE st

Push(h, t, m) == [h EXCEPT ![t].lastmtx = <<m>> \o @]

\* mutex_acquire, without p_loctsk
mutex_acquire(st, t, m) ==
    LET st1 == [st EXCEPT !.h = Push(@, t, m)]
    IN  IF MTX_CEILING(m) THEN mutex_raise_priority(st1, t, mtxcb[m].ceilpri) ELSE st1

\* A fault of the next operator: p_loctsk is cleared in any case.
NextHolderNone(k, m) == NULL

\* The task that has the mutex after mutex_release.
NextHolder(k, m) == IF k.wait[m] = << >> THEN NULL ELSE Head(k.wait[m])

\* A fault of the next operator: the new holder gets the ceiling even if its
\* priority is higher.
PriorityAsHolderSet(pri, m) == IF MTX_CEILING(m) THEN mtxcb[m].ceilpri ELSE pri

PriorityAsHolder(pri, m) ==
    IF MTX_CEILING(m) /\ mtxcb[m].ceilpri < pri THEN mtxcb[m].ceilpri ELSE pri

\* What mutex_release does to a task that waits for the mutex and gets it.
TakesOver(c, m) == EndedTcb([c EXCEPT !.priority = PriorityAsHolder(@, m)], "E_OK")

Gets(hu, m) == [hu EXCEPT !.lastmtx = <<m>> \o @, !.boosted = @ \/ MTX_CEILING(m)]

\* mutex_release, without p_loctsk: the first waiting task gets the mutex.
mutex_release(st, m) ==
    IF st.k.wait[m] = << >> THEN st
    ELSE LET t == Head(st.k.wait[m])
         IN  [k |-> [st.k EXCEPT !.wait[m] = Tail(@), !.tcb[t] = TakesOver(@, m)],
              h |-> [st.h EXCEPT ![t] = Gets(@, m)]]

\* mutex_release_all: mutex_release of all mutexes of the list.  A task is in
\* one wait queue only, and in none of a mutex that it holds, so that the
\* releases concern different tasks and their order makes no difference.
mutex_release_all(st, t) ==
    LET released == {m \in Range(st.h[t].lastmtx) : st.k.wait[m] # << >>}
        gets(u)  == /\ st.k.tcb[u].p_wobjcb \in released
                    /\ Head(st.k.wait[st.k.tcb[u].p_wobjcb]) = u
    IN  [k |-> [st.k EXCEPT
                  !.wait = [m \in Mtx |-> IF m \in released THEN Tail(@[m]) ELSE @[m]],
                  !.tcb  = [u \in Tsk |-> IF gets(u) THEN TakesOver(@[u], @[u].p_wobjcb) ELSE @[u]]],
         h |-> [u \in Tsk |-> IF u = t THEN [st.h[t] EXCEPT !.lastmtx = << >>]
                              ELSE IF gets(u) THEN Gets(st.h[u], st.k.tcb[u].p_wobjcb)
                              ELSE st.h[u]]]

State == [k |-> ker, h |-> held]

Becomes(st) == ker' = st.k /\ held' = st.h

----------------------------------------------------------------------------
\* The service calls.

acre_mtx(ini) ==
    /\ InTask /\ free_mtxcb # << >>
    /\ LET m == Head(free_mtxcb)
       IN  /\ mtxcb' = [mtxcb EXCEPT ![m] = NewMtxcb(ini)]
           /\ ker' = [ker EXCEPT !.wait[m] = << >>,
                                 !.tpri = IF ini.mtxatr # "TA_NULL" THEN @ \cup {m} ELSE @ \ {m}]
    /\ free_mtxcb' = Tail(free_mtxcb)
    /\ UNCHANGED held

\* A fault of the next operator: only the last mutex of the holder is removed.
InitMutexLast(m) ==
    LET t   == mtxcb[m].p_loctsk
        st1 == [k |-> InitWaitQueue(ker, m), h |-> held]
        st2 == [st1 EXCEPT !.h[t].lastmtx = IF @[1] = m THEN Tail(@) ELSE @]
    IN  IF t = NULL THEN st1
        ELSE IF MTX_CEILING(m) THEN mutex_drop_priority(st2, t, mtxcb[m].ceilpri) ELSE st2

\* The common part of del_mtx and ini_mtx: the waiting tasks are released, the
\* mutex is taken away from its holder, which may have any state.
InitMutex(m) ==
    LET t   == mtxcb[m].p_loctsk
        st1 == [k |-> InitWaitQueue(ker, m), h |-> held]
        st2 == [st1 EXCEPT !.h[t].lastmtx = QueueDelete(@, m)]
    IN  IF t = NULL THEN st1
        ELSE IF MTX_CEILING(m) THEN mutex_drop_priority(st2, t, mtxcb[m].ceilpri) ELSE st2

del_mtx(m) ==
    /\ InTask /\ m \in DynamicMtx /\ Exists(m)
    /\ Becomes(InitMutex(m))
    /\ mtxcb' = [mtxcb EXCEPT ![m].mtxatr = "TA_NOEXS", ![m].p_loctsk = NULL]
    /\ free_mtxcb' = QueueInsertPrev(free_mtxcb, m)

\* E_NOEXS, E_ILUSE
MayLock(t, m) ==
    Exists(m) /\ (MTX_CEILING(m) => held[t].bpriority >= mtxcb[m].ceilpri)

\* loc_mtx, ploc_mtx and tloc_mtx of a mutex that is free.
LockFree(t, m) ==
    /\ MayLock(t, m) /\ mtxcb[m].p_loctsk = NULL
    /\ Becomes(mutex_acquire(State, t, m))
    /\ mtxcb' = [mtxcb EXCEPT ![m].p_loctsk = t]
    /\ UNCHANGED free_mtxcb

ploc_mtx(t, m) == Executes(t) /\ LockFree(t, m)

LockWait(t, m, tmout) ==
    /\ MayWait(t)
    /\ \/ LockFree(t, m)
       \/ /\ MayLock(t, m) /\ mtxcb[m].p_loctsk \notin {NULL, t}
          /\ ker' = WobjMakeWait(ker, m, t, tmout)
          /\ UNCHANGED <<mtxcb, held, free_mtxcb>>

loc_mtx(t, m) == LockWait(t, m, FALSE)
tloc_mtx(t, m) == LockWait(t, m, TRUE)

\* Only the mutex that was locked last (E_OBJ).
unl_mtx(t, m) ==
    /\ Executes(t) /\ Exists(m)
    /\ held[t].lastmtx # << >> /\ m = Head(held[t].lastmtx)
    /\ LET st1 == [State EXCEPT !.h[t].lastmtx = Tail(@)]
           st2 == IF MTX_CEILING(m) THEN mutex_drop_priority(st1, t, mtxcb[m].ceilpri) ELSE st1
       IN  Becomes(mutex_release(st2, m))
    /\ mtxcb' = [mtxcb EXCEPT ![m].p_loctsk = NextHolder(ker, m)]
    /\ UNCHANGED free_mtxcb

ini_mtx(m) ==
    /\ InTask /\ Exists(m)
    /\ Becomes(InitMutex(m))
    /\ mtxcb' = [mtxcb EXCEPT ![m].p_loctsk = NULL]
    /\ UNCHANGED free_mtxcb

\* chg_pri of the task management, of tasks that may hold mutexes (E_ILUSE).
chg_bpri(t, newbpri) ==
    /\ InTask /\ ~Dormant(t)
    /\ held[t].boosted \/ tcb[t].p_wobjcb # NULL => mutex_check_ceilpri(t, newbpri)
    /\ held' = [held EXCEPT ![t].bpriority = newbpri]
    /\ ker' = IF held[t].boosted THEN ker ELSE change_priority(ker, t, newbpri)
    /\ UNCHANGED <<mtxcb, free_mtxcb>>

\* task_terminate: first the mutexes are released, then the task ends.
terminate(t) ==
    /\ ~Dormant(t)
    /\ LET st == mutex_release_all(State, t)
       IN  /\ ker' = [WaitDequeueWobj(st.k, t) EXCEPT !.tcb[t] = DormantTcb(t)]
           /\ held' = [st.h EXCEPT ![t] = NoMutex(t)]
    /\ mtxcb' = [m \in Mtx |-> IF mtxcb[m].p_loctsk = t
                                 THEN [mtxcb[m] EXCEPT !.p_loctsk = NextHolder(ker, m)]
                                 ELSE mtxcb[m]]
    /\ UNCHANGED free_mtxcb

----------------------------------------------------------------------------
TaskCall(t) ==
    \/ act_tsk(t) \/ ras_ter(t) \/ rel_wai(t) \/ sus_tsk(t)
    \/ Dispatch(t) \/ rsm_tsk(t) \/ wait_tmout(t)

MtxNext ==
    \/ \E ini \in T_CMTX : acre_mtx(ini)
    \/ \E m \in Mtx :
          \/ del_mtx(m) \/ ini_mtx(m)
          \/ \E t \in Tsk : loc_mtx(t, m) \/ ploc_mtx(t, m) \/ tloc_mtx(t, m) \/ unl_mtx(t, m)
    \/ \E t \in Tsk :
          \/ terminate(t)
          \/ \E pri \in Pri : chg_bpri(t, pri)
          \/ TaskCall(t) /\ UNCHANGED <<mtxcb, held, free_mtxcb>>

MtxSpec == MtxInit /\ [][MtxNext]_mtx_vars

----------------------------------------------------------------------------
\* The properties speak of the tasks of held and the mutexes of mtxcb.

\* The two views of who holds what agree: the list of a task contains, once,
\* the mutexes that name it as their holder; a task that has ended holds
\* nothing, and a mutex that was deleted is in no list
\* (mutex.c:335-389, :458-523, :777-806, task.c:511).
HolderLists ==
    /\ \A t \in DOMAIN held : IsInjective(held[t].lastmtx)
    /\ \A t \in DOMAIN held, m \in DOMAIN mtxcb :
          m \in Range(held[t].lastmtx) <=> mtxcb[m].p_loctsk = t
    /\ \A m \in DOMAIN mtxcb : mtxcb[m].p_loctsk # NULL =>
          Exists(m) /\ ~Dormant(mtxcb[m].p_loctsk)

\* The kernel changes the current priority of a task step by step; it is always
\* the highest of the base priority and the ceilings of the mutexes the task
\* holds, and boosted says whether there are any (mutex.c:219-308, :352-359).
CurrentPriority ==
    \A t \in DOMAIN held : ~Dormant(t) =>
        /\ tcb[t].priority = CalcPriority(held, t)
        /\ held[t].boosted <=> Ceilings(held, t) # {}

\* No task holds or awaits a mutex whose ceiling is below its base priority,
\* although base priorities change (mutex.c:573, :178, task_manage.c:705).
CeilingObserved ==
    \A t \in DOMAIN held, m \in DOMAIN mtxcb :
        (mtxcb[m].p_loctsk = t \/ tcb[t].p_wobjcb = m) /\ MTX_CEILING(m)
            => held[t].bpriority >= mtxcb[m].ceilpri

\* Mutexes and tasks agree about who holds what, and with which priority
\* (mutex.c:219-308, :335-389, :458-523, :573, task_manage.c:705).
HoldersAgree == HolderLists /\ CurrentPriority /\ CeilingObserved

\* Tasks wait only for mutexes that another task holds (mutex.c:577-586).
WaitsForAnother ==
    \A m \in DOMAIN mtxcb : ker.wait[m] # << >> =>
        mtxcb[m].p_loctsk \notin {NULL} \cup Range(ker.wait[m])

\* A mutex that leaves its holder, because that unlocks it or ends, goes to the
\* first of the tasks that wait; it gets free only when nobody waits any more
\* (mutex.c:335-389).
PassedToFirst ==
    \A m \in DOMAIN mtxcb : LET from == mtxcb[m].p_loctsk
                                to   == mtxcb'[m].p_loctsk
                            IN  from # NULL /\ to # from =>
        IF to = NULL THEN ker'.wait[m] = << >>
                     ELSE /\ ker.wait[m] # << >> /\ to = Head(ker.wait[m])
                          /\ ker'.wait[m] = Tail(ker.wait[m])

HandOver == [][PassedToFirst]_mtx_vars
================================================================================
