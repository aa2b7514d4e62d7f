------------------------------- MODULE MCObjects -------------------------------
(***************************************************************************)
(* Instances of the synchronisation and communication objects for TLC: an  *)
(* object of one kind, which the configuration defines or which is created *)
(* and deleted, with the tasks that use it.  A run chooses one of its      *)
(* cases at the start; the kinds share the variables, and those that a     *)
(* kind does not have are NULL.  The properties WaitsAgree, HoldersAgree   *)
(* and HandOver are those of the modules Wait and Mutex, which this one    *)
(* extends: they speak of the variables.                                   *)
(***************************************************************************)
EXTENDS Mutex, TLC

CONSTANTS
    Cases,          \* the cases of a run
    INDEX_NULL, INDEX_ALLOC,
    H, A, B, C,     \* tasks; A, B and C are alike
    o1, o2,         \* objects
    d1, d2          \* data, or the bits of a pattern

VARIABLES
    case,
    cb, free_cb,    \* the control blocks, the list of the free ones
    mb,             \* the memory of the objects
    mpk,            \* what is allocated from the kernel's memory
    winfo           \* what tasks wait for and have got

\* The variables of Mutex are used as they are: ker in all cases, the others
\* with empty functions where there are no mutexes.
own_mtx_vars == <<mtxcb, held, free_mtxcb>>

vars == <<ker, own_mtx_vars, cb, free_cb, mb, mpk, winfo>>

Created(c) == c \in {"sem_create", "flg", "dtq_create", "pdq_create", "mpf_create", "mtx_create"}
Static(c)  == IF Created(c) THEN {} ELSE {o1}
Dynamic(c) == {o1} \ Static(c)
TwoQueues  == {o1} \X {"snd", "rcv"}

AllTsk(c) == CASE c = "sem" -> {H, A, B}
               [] c \in {"dtq", "mpf", "mtx"} -> {A, B, C}
               [] OTHER -> {A, B}

\* H has a higher priority than the others.
SemPriority(c) == [t \in AllTsk(c) |-> IF c = "sem" /\ t # H THEN 1 ELSE 0]
OnePriority(c) == [t \in AllTsk(c) |-> 0]

\* The constants of Wait and Mutex themselves have no mutexes: each case gives them
\* its own values.
NoFunction == << >>

\* TLC evaluates the constant definitions of an instantiated module in each of its
\* instances; Wait is extended, too.
AnyWait == INSTANCE Wait

\* A semaphore in priority order, or one that is created in either order.
Sem(c) == INSTANCE Semaphore WITH
    Tsk <- AllTsk(c), TNUM_TPRI <- IF c = "sem" THEN 2 ELSE 1, ipriority <- SemPriority(c),
    Calls <- IF c = "sem" THEN {"act_tsk", "ter_tsk", "rel_wai", "chg_pri", "tmo"}
             ELSE {"act_tsk", "ter_tsk", "ras_ter", "rel_wai", "sus_tsk", "tmo"},
    WaitQueue <- {o1}, StaticSem <- Static(c), DynamicSem <- Dynamic(c),
    Maxsem <- IF c = "sem" THEN 1 ELSE 2,
    seminib <- [s \in Static(c) |-> [tpri |-> TRUE, isemcnt |-> 1, maxsem |-> 1]],
    semcb <- cb, free_semcb <- free_cb

\* An event flag that is created with all attributes.
Flg(c) == INSTANCE Eventflag WITH
    Tsk <- AllTsk(c), TNUM_TPRI <- 1, ipriority <- OnePriority(c), Calls <- {"rel_wai"},
    WaitQueue <- {o1}, StaticFlg <- {}, DynamicFlg <- {o1}, Bit <- {d1, d2},
    flginib <- << >>, flgcb <- cb, free_flgcb <- free_cb

\* A data queue for one datum, or one that is created for up to two, with
\* memory of the kernel or of its own; tasks wait in FIFO order.
Rooms(c) == IF c = "dtq" THEN 1 ELSE 2

Dtq(c) == INSTANCE Dataqueue WITH
    Tsk <- AllTsk(c), TNUM_TPRI <- 1, ipriority <- OnePriority(c),
    Calls <- IF c = "dtq" THEN {"ter_tsk"} ELSE {"rel_wai"},
    WaitQueue <- TwoQueues, StaticDtq <- Static(c), DynamicDtq <- Dynamic(c),
    Data <- {d1, d2}, Maxcnt <- Rooms(c),
    dtqinib <- [q \in Static(c) |-> [tpri |-> FALSE, dtqcnt |-> 1, mballoc |-> FALSE]],
    Packets <- {[tpri |-> FALSE, dtqcnt |-> n, mballoc |-> n = 1] : n \in 0 .. Rooms(c)},
    dtqcb <- cb, p_dtqmb <- mb, free_dtqcb <- free_cb, winfo_obj <- winfo

\* A priority data queue for two data, or one that is created for up to two.
Pdq(c) == INSTANCE Pridataq WITH
    Tsk <- AllTsk(c), TNUM_TPRI <- 1, ipriority <- OnePriority(c), Calls <- {},
    WaitQueue <- TwoQueues, StaticPdq <- Static(c), DynamicPdq <- Dynamic(c),
    Data <- IF c = "pdq" THEN {d1, d2} ELSE {d1}, Maxcnt <- 2, TMAX_DPRI <- 2,
    pdqinib <- [q \in Static(c) |->
        [tpri |-> FALSE, pdqcnt |-> 2, maxdpri |-> 2, mballoc |-> FALSE]],
    Packets <- {[tpri |-> FALSE, pdqcnt |-> n, maxdpri |-> p, mballoc |-> n = 1] :
                   n \in 0 .. 2, p \in {1, 2}},
    pdqcb <- cb, pdqmb <- mb, free_pdqcb <- free_cb, winfo_obj <- winfo

\* A memory pool of two blocks, or one that is created with up to two, with its
\* areas of the kernel or of its own.
Mpf(c) == INSTANCE Mempfix WITH
    Tsk <- AllTsk(c), TNUM_TPRI <- 1, ipriority <- OnePriority(c), Calls <- {"rel_wai"},
    WaitQueue <- {o1}, StaticMpf <- Static(c), DynamicMpf <- Dynamic(c), Maxcnt <- 2,
    mpfinib <- [m \in Static(c) |-> [tpri |-> FALSE, blkcnt |-> 2, memory |-> {}]],
    Packets <- [tpri: {FALSE}, blkcnt: 1 .. 2, memory: SUBSET {"mpf", "mpfmb"}],
    mpfcb <- cb, mpfmb <- mb, free_mpfcb <- free_cb, winfo_obj <- winfo

\* o1 has the ceiling protocol with a ceiling above the initial priorities; o2
\* is one in priority order, or one of any protocol that is created.
MtxStatic(c) == IF c = "mtx" THEN {o1, o2} ELSE {o1}

MtxPri(c) == IF c = "mtx" THEN 2 ELSE 3

MtxIn(c) == INSTANCE Mutex WITH
    Tsk <- AllTsk(c), TNUM_TPRI <- MtxPri(c),
    ipriority <- [t \in AllTsk(c) |-> 1],
    Calls <- IF c = "mtx" THEN {"act_tsk"} ELSE {"act_tsk", "ras_ter", "rel_wai", "tmo"},
    WaitQueue <- {o1, o2}, StaticMtx <- MtxStatic(c), DynamicMtx <- {o1, o2} \ MtxStatic(c),
    mtxinib <- [m \in MtxStatic(c) |->
        [mtxatr |-> IF m = o1 THEN "TA_CEILING" ELSE "TA_TPRI", ceilpri |-> 0]],
    T_CMTX <- {[mtxatr |-> "TA_CEILING", ceilpri |-> 1], [mtxatr |-> "TA_NULL", ceilpri |-> MtxPri(c) - 1],
               [mtxatr |-> "TA_CEILING", ceilpri |-> 0]}

SemCases == Cases \cap {"sem", "sem_create"}
FlgCases == Cases \cap {"flg"}
DtqCases == Cases \cap {"dtq", "dtq_create"}
PdqCases == Cases \cap {"pdq", "pdq_create"}
MpfCases == Cases \cap {"mpf", "mpf_create"}
MtxCases == Cases \cap {"mtx", "mtx_create"}

ASSUME Assumptions ==
    /\ \A c \in SemCases : Sem(c)!WaitAssumption /\ Sem(c)!SemAssumption
    /\ \A c \in FlgCases : Flg(c)!WaitAssumption /\ Flg(c)!FlgAssumption
    /\ \A c \in DtqCases : Dtq(c)!WaitAssumption /\ Dtq(c)!DtqAssumption
    /\ \A c \in PdqCases : Pdq(c)!WaitAssumption /\ Pdq(c)!PdqAssumption
    /\ \A c \in MpfCases : Mpf(c)!WaitAssumption /\ Mpf(c)!MpfAssumption
    /\ \A c \in MtxCases : MtxIn(c)!WaitAssumption /\ MtxIn(c)!MtxAssumption

NoMutexes == mtxcb = << >> /\ held = << >> /\ free_mtxcb = << >>

MCInit ==
    \/ \E c \in SemCases : /\ case = c /\ Sem(c)!SemInit
                           /\ mb = NULL /\ mpk = NULL /\ winfo = NULL /\ NoMutexes
    \/ \E c \in FlgCases : case = c /\ Flg(c)!FlgInit /\ mb = NULL /\ mpk = NULL /\ NoMutexes
    \/ \E c \in DtqCases : case = c /\ Dtq(c)!DtqInit /\ NoMutexes
    \/ \E c \in PdqCases : case = c /\ Pdq(c)!Init /\ NoMutexes
    \/ \E c \in MpfCases : case = c /\ Mpf(c)!Init /\ NoMutexes
    \/ \E c \in MtxCases : /\ case = c /\ MtxIn(c)!MtxInit
                           /\ cb = NULL /\ free_cb = NULL /\ mb = NULL /\ mpk = NULL /\ winfo = NULL

MCNext ==
    /\ UNCHANGED case
    /\ \/ \E c \in SemCases : case = c /\ Sem(c)!SemNext /\ UNCHANGED <<mb, mpk, winfo, own_mtx_vars>>
       \/ \E c \in FlgCases : case = c /\ Flg(c)!FlgNext /\ UNCHANGED <<mb, mpk, own_mtx_vars>>
       \/ \E c \in DtqCases : case = c /\ Dtq(c)!DtqNext /\ UNCHANGED own_mtx_vars
       \/ \E c \in PdqCases : case = c /\ Pdq(c)!Next /\ UNCHANGED own_mtx_vars
       \/ \E c \in MpfCases : case = c /\ Mpf(c)!Next /\ UNCHANGED own_mtx_vars
       \/ \E c \in MtxCases : /\ case = c /\ MtxIn(c)!MtxNext
                              /\ UNCHANGED <<cb, free_cb, mb, mpk, winfo>>

MCSpec == MCInit /\ [][MCNext]_<<case, vars>>

----------------------------------------------------------------------------
\* No task waits for what is there: a count, a pattern, data or room for them, a
\* mutex that is free or its own.  No wake-up is lost, whatever sends,
\* receives, initialises or deletes (semaphore.c:258, :301, :502,
\* eventflag.c:343-357, dataqueue.c:259-327, pridataq.c:254-304, mutex.c:577-586).
NoVainWait ==
    /\ \A c \in SemCases : case = c => Sem(c)!NoWaitForAvailable
    /\ \A c \in FlgCases : case = c => Flg(c)!NoWaitForSatisfied /\ Flg(c)!SingleWaiter
    /\ \A c \in DtqCases : case = c => Dtq(c)!WaitsOnlyIfNeeded
    /\ \A c \in PdqCases : case = c => Pdq(c)!WaitsOnlyIfNeeded
    /\ \A c \in MtxCases : case = c => MtxIn(c)!WaitsForAnother

\* The control blocks and the memory of the objects: the counts, the ring, the
\* lists of blocks and the free lists agree, and the kernel's memory is
\* returned, also when an object is created in a block used before
\* (semaphore.c:209-222, dataqueue.c:196-245, :403-490, pridataq.c:195-239,
\* mempfix.c:176-187, :277-303, :602-627).
BlocksIntact ==
    /\ \A c \in SemCases : case = c => Sem(c)!CountInRange /\ Sem(c)!FreeBlocks
    /\ \A c \in DtqCases : case = c => Dtq(c)!RingConsistent /\ Dtq(c)!MemoryReturned
    /\ \A c \in PdqCases : case = c =>
          Pdq(c)!BlockPlaces /\ Pdq(c)!DataOrder /\ Pdq(c)!MemoryReturned
    /\ \A c \in MpfCases : case = c => Mpf(c)!BlockPlaces /\ Mpf(c)!MemoryReturned

\* A semaphore implements a shared resource, a memory pool one of distinct blocks:
\* nothing is handed out twice or lost; an event flag completes a wait only with a
\* pattern that satisfies it, and with TA_CLR only one (semaphore.c:285-517,
\* mempfix.c:172-188, :568-684, eventflag.c:179-187, :350-355).
ImplementsResources ==
    /\ \A c \in SemCases : case = c => Sem(c)!Units!ResourceInit
    /\ \A c \in MpfCases : case = c => Mpf(c)!Blocks!PoolInit
    /\ [][/\ \A c \in SemCases : case = c => Sem(c)!ResourceStep
          /\ \A c \in MpfCases : case = c => Mpf(c)!PoolStep
          /\ \A c \in FlgCases : case = c => Flg(c)!CompletedWithPattern]_<<case, vars>>

\* A data queue implements a FIFO channel, a priority data queue one for each
\* priority: what is received was sent, once, in this order
\* (dataqueue.c:196-328, pridataq.c:190-304).
ImplementsChannels ==
    /\ \A c \in DtqCases : case = c => Dtq(c)!Channel!FifoInit
    /\ \A c \in PdqCases : case = c => Pdq(c)!Channels!PriFifoInit
    /\ [][/\ \A c \in DtqCases : case = c => Dtq(c)!FifoStep
          /\ \A c \in PdqCases : case = c => Pdq(c)!PriFifoStep]_<<case, vars>>

\* The tasks are alike, and so are the data; only safety is checked.
Alike == Permutations({A, B, C}) \cup Permutations({d1, d2})
================================================================================
