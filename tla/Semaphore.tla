------------------------------- MODULE Semaphore -------------------------------
(***************************************************************************)
(* Semaphores (kernel/semaphore.c), with their dynamic creation.  The      *)
(* wait queue of a semaphore has the name of the semaphore.                *)
(***************************************************************************)
EXTENDS Wait

CONSTANTS
    StaticSem,    \* the semaphores the configuration defines
    DynamicSem,   \* the control blocks for acre_sem
    Maxsem,       \* the largest count that instances use
    seminib       \* attributes and counts of the static semaphores

Sem == StaticSem \cup DynamicSem

\* The initialisation blocks: seminib_table, or the arguments of acre_sem.
SEMINIB == {ini \in [tpri: BOOLEAN, isemcnt: 0 .. Maxsem, maxsem: 1 .. Maxsem] :
                ini.isemcnt <= ini.maxsem}

SemAssumption ==
    /\ WaitQueue = Sem
    /\ StaticSem \cap DynamicSem = {} /\ IsFiniteSet(DynamicSem)
    /\ Maxsem \in Nat \ {0}
    /\ seminib \in [StaticSem -> SEMINIB]

\* semcb[s] is the control block with its initialisation block; exists: its
\* attribute is not TA_NOEXS.
VARIABLES semcb, free_semcb

sem_vars == <<ker, semcb, free_semcb>>

SEMCB == [exists: BOOLEAN, semcnt: 0 .. Maxsem, isemcnt: 0 .. Maxsem, maxsem: 0 .. Maxsem]

SemTypeOK ==
    /\ ker \in KerType
    /\ semcb \in [Sem -> SEMCB]
    /\ free_semcb \in Seq(DynamicSem)

NewSemcb(ini) == [exists |-> TRUE, semcnt |-> ini.isemcnt, isemcnt |-> ini.isemcnt,
                  maxsem |-> ini.maxsem]

\* initialize_semaphore
SemInit ==
    /\ KerInit({s \in StaticSem : seminib[s].tpri})
    /\ semcb = [s \in Sem |-> IF s \in StaticSem THEN NewSemcb(seminib[s])
                              ELSE [exists |-> FALSE, semcnt |-> 0, isemcnt |-> 0, maxsem |-> 0]]
    /\ free_semcb = SetToSeq(DynamicSem)

----------------------------------------------------------------------------
\* A fault of the next action: the maximum of the block's last use is kept.
acre_sem_stale(ini) ==
    /\ InTask /\ free_semcb # << >>
    /\ LET s == Head(free_semcb)
       IN  /\ semcb' = [semcb EXCEPT ![s] = [NewSemcb(ini) EXCEPT !.maxsem = semcb[s].maxsem]]
           /\ ker' = [ker EXCEPT !.wait[s] = << >>,
                                 !.tpri = IF ini.tpri THEN @ \cup {s} ELSE @ \ {s}]
    /\ free_semcb' = Tail(free_semcb)

acre_sem(ini) ==
    /\ InTask /\ free_semcb # << >>
    /\ LET s == Head(free_semcb)
       IN  /\ semcb' = [semcb EXCEPT ![s] = NewSemcb(ini)]
           /\ ker' = [ker EXCEPT !.wait[s] = << >>,
                                 !.tpri = IF ini.tpri THEN @ \cup {s} ELSE @ \ {s}]
    /\ free_semcb' = Tail(free_semcb)

del_sem(s) ==
    /\ InTask /\ s \in DynamicSem /\ semcb[s].exists
    /\ ker' = InitWaitQueue(ker, s)
    /\ semcb' = [semcb EXCEPT ![s].exists = FALSE]
    /\ free_semcb' = QueueInsertPrev(free_semcb, s)

\* A fault of the next action: the count is raised for the waiting task, too.
sig_sem_counts(s) ==
    /\ semcb[s].exists
    /\ IF ker.wait[s] # << >>
         THEN /\ ker' = CompleteFirst(ker, s)
              /\ semcb' = [semcb EXCEPT ![s].semcnt = 1]
         ELSE /\ semcb[s].semcnt < semcb[s].maxsem
              /\ semcb' = [semcb EXCEPT ![s].semcnt = @ + 1]
              /\ UNCHANGED ker
    /\ UNCHANGED free_semcb

\* By a task or an interrupt handler.
sig_sem(s) ==
    /\ semcb[s].exists
    /\ IF ker.wait[s] # << >>
         THEN ker' = CompleteFirst(ker, s) /\ UNCHANGED semcb
         ELSE /\ semcb[s].semcnt < semcb[s].maxsem
              /\ semcb' = [semcb EXCEPT ![s].semcnt = @ + 1]
              /\ UNCHANGED ker
    /\ UNCHANGED free_semcb

\* wai_sem, pol_sem and twai_sem where the resource is available.
GetSem(t, s) ==
    /\ semcb[s].exists /\ semcb[s].semcnt >= 1
    /\ semcb' = [semcb EXCEPT ![s].semcnt = @ - 1]
    /\ ker' = [ker EXCEPT !.tcb[t].wercd = "E_OK"]
    /\ UNCHANGED free_semcb

pol_sem(t, s) == Executes(t) /\ GetSem(t, s)

\* wai_sem (tmout is FALSE) and twai_sem with a time-out
WaitSem(t, s, tmout) ==
    /\ MayWait(t)
    /\ \/ GetSem(t, s)
       \/ /\ semcb[s].exists /\ semcb[s].semcnt = 0
          /\ ker' = WobjMakeWait(ker, s, t, tmout)
          /\ UNCHANGED <<semcb, free_semcb>>

wai_sem(t, s) == WaitSem(t, s, FALSE)
twai_sem(t, s) == WaitSem(t, s, TRUE)

\* A fault of the next action: the waiting tasks are not released.
ini_sem_keeps(s) ==
    /\ InTask /\ semcb[s].exists
    /\ semcb' = [semcb EXCEPT ![s].semcnt = semcb[s].isemcnt]
    /\ UNCHANGED <<ker, free_semcb>>

ini_sem(s) ==
    /\ InTask /\ semcb[s].exists
    /\ ker' = InitWaitQueue(ker, s)
    /\ semcb' = [semcb EXCEPT ![s].semcnt = semcb[s].isemcnt]
    /\ UNCHANGED free_semcb

----------------------------------------------------------------------------
SemNext ==
    \/ \E ini \in SEMINIB : acre_sem(ini)
    \/ \E s \in Sem :
          \/ sig_sem(s) \/ ini_sem(s) \/ del_sem(s)
          \/ \E t \in Tsk : wai_sem(t, s) \/ twai_sem(t, s) \/ pol_sem(t, s)
    \/ \E t \in Tsk : TaskNext(t) /\ UNCHANGED <<semcb, free_semcb>>

SemSpec == SemInit /\ [][SemNext]_sem_vars

\* Time passes: a time-out occurs unless the wait ends before.
SemFairSpec == SemSpec /\ \A t \in Tsk : WF_sem_vars(wait_tmout(t) /\ UNCHANGED <<semcb, free_semcb>>)

----------------------------------------------------------------------------
\* Nobody waits for a semaphore that is available, and nobody waits for one
\* that does not exist (semaphore.c:258, :301, :319, :502).
NoWaitForAvailable ==
    \A s \in Sem : ker.wait[s] # << >> => semcb[s].exists /\ semcb[s].semcnt = 0

\* The count stays within the maximum with which the semaphore was created,
\* whatever the block was used for before (semaphore.c:215-222, :314).
CountInRange == \A s \in Sem : semcb[s].exists => semcb[s].semcnt <= semcb[s].maxsem

\* A block is in the list of free blocks exactly while its semaphore does not
\* exist: it is not given away twice, and not lost (semaphore.c:209, :264).
FreeBlocks ==
    /\ IsInjective(free_semcb)
    /\ Range(free_semcb) = {s \in Sem : ~semcb[s].exists}

\* The outcome of the last request of each task.
Outcome == [t \in Tsk |-> IF Waiting(t) THEN "pending"
                          ELSE IF tcb[t].wercd = "E_OK" THEN "granted" ELSE "none"]

\* A semaphore implements a shared resource: what is signalled goes to exactly
\* one waiting task or into the count, and a task that stops waiting for another
\* reason takes nothing (semaphore.c:285-517).
Units == INSTANCE Resource WITH
    Obj <- Sem,
    avail <- [s \in Sem |-> semcb[s].semcnt],
    waiting <- [s \in Sem |-> Range(ker.wait[s])],
    result <- Outcome

ResourceStep == Units!ResourceNext \/ UNCHANGED Units!resourceVars
ImplementsResource == Units!ResourceSpec

\* A wait with a time-out ends, if only by the time-out.
TimedWaitEnds == \A t \in Tsk : tcb[t].tmevtb ~> ~Waiting(t)
================================================================================
