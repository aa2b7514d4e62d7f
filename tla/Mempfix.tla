-------------------------------- MODULE Mempfix --------------------------------
(***************************************************************************)
(* Fixed-size memory pools (kernel/mempfix.c), with their dynamic creation.*)
(* The wait queue of a pool has the name of the pool.  A block is known by *)
(* its index; the addresses that rel_mpf rejects because they are not at   *)
(* the beginning of a block are left out.                                  *)
(***************************************************************************)
EXTENDS Wait

CONSTANTS
    StaticMpf,    \* the memory pools the configuration defines
    DynamicMpf,   \* the control blocks for acre_mpf
    Maxcnt,       \* the largest number of blocks of a pool in an instance
    INDEX_NULL,   \* the end of the list of the free blocks
    INDEX_ALLOC,  \* the mark of a block that is handed out
    mpfinib,      \* the static memory pools
    Packets       \* the arguments that acre_mpf is called with

Mpf == StaticMpf \cup DynamicMpf
Block == 0 .. Maxcnt - 1

\* memory: the two areas, the blocks and their management, that the caller
\* leaves to acre_mpf to allocate (TA_MEMALLOC, TA_MBALLOC).
MPFINIB == [tpri: BOOLEAN, blkcnt: 1 .. Maxcnt, memory: SUBSET {"mpf", "mpfmb"}]

MpfAssumption ==
    /\ WaitQueue = Mpf
    /\ StaticMpf \cap DynamicMpf = {} /\ IsFiniteSet(DynamicMpf)
    /\ Maxcnt \in Nat \ {0}
    /\ {INDEX_NULL, INDEX_ALLOC, NULL} \cap Block = {} /\ INDEX_NULL # INDEX_ALLOC
    /\ mpfinib \in [StaticMpf -> MPFINIB] /\ Packets \subseteq MPFINIB

VARIABLES
    mpfcb,        \* the control blocks with their initialisation blocks
    mpfmb,        \* the field next of the management of each block
    free_mpfcb,   \* the list of the free control blocks
    mpk,          \* the areas that are allocated from the kernel's memory
    winfo_obj     \* the block that each task has received last

vars == <<ker, mpfcb, mpfmb, free_mpfcb, mpk, winfo_obj>>

MPFCB == [exists: BOOLEAN, fblkcnt: 0 .. Maxcnt, unused: 0 .. Maxcnt,
          freelist: Block \cup {INDEX_NULL}, inib: MPFINIB]

TypeOK ==
    /\ ker \in KerType
    /\ mpfcb \in [Mpf -> MPFCB]
    /\ mpfmb \in [Mpf -> [Block -> Block \cup {INDEX_NULL, INDEX_ALLOC}]]
    /\ free_mpfcb \in Seq(DynamicMpf)
    /\ mpk \subseteq Mpf \X {"mpf", "mpfmb"}
    /\ winfo_obj \in [Tsk -> Block \cup {NULL}]

Full(ini) == [exists |-> TRUE, fblkcnt |-> ini.blkcnt, unused |-> 0,
              freelist |-> INDEX_NULL, inib |-> ini]

NoInib == [tpri |-> FALSE, blkcnt |-> 1, memory |-> {}]

\* initialize_mempfix; what the management of the blocks contains at the start
\* is never read, and is taken to be INDEX_NULL.
Init ==
    /\ KerInit({m \in StaticMpf : mpfinib[m].tpri})
    /\ mpfcb = [m \in Mpf |->
           IF m \in StaticMpf THEN Full([mpfinib[m] EXCEPT !.memory = {}])
           ELSE [Full(NoInib) EXCEPT !.exists = FALSE]]
    /\ mpfmb = [m \in Mpf |-> [b \in Block |-> INDEX_NULL]]
    /\ free_mpfcb = SetToSeq(DynamicMpf)
    /\ mpk = {}
    /\ winfo_obj = [t \in Tsk |-> NULL]

----------------------------------------------------------------------------
\* get_mpf_block

BlockToGet(m) == IF mpfcb[m].freelist # INDEX_NULL THEN mpfcb[m].freelist
                                                   ELSE mpfcb[m].unused

\* A fault of the next action: the block is left on the free list.
get_mpf_block_keeps(t, m) ==
    LET b == BlockToGet(m) IN
    /\ mpfcb' = [mpfcb EXCEPT ![m].fblkcnt = @ - 1,
                              ![m].unused = IF mpfcb[m].freelist = INDEX_NULL THEN @ + 1 ELSE @]
    /\ mpfmb' = [mpfmb EXCEPT ![m][b] = INDEX_ALLOC]
    /\ winfo_obj' = [winfo_obj EXCEPT ![t] = b]

get_mpf_block(t, m) ==
    LET b == BlockToGet(m) IN
    /\ IF mpfcb[m].freelist # INDEX_NULL
         THEN mpfcb' = [mpfcb EXCEPT ![m].freelist = mpfmb[m][b], ![m].fblkcnt = @ - 1]
         ELSE mpfcb' = [mpfcb EXCEPT ![m].unused = @ + 1, ![m].fblkcnt = @ - 1]
    /\ mpfmb' = [mpfmb EXCEPT ![m][b] = INDEX_ALLOC]
    /\ winfo_obj' = [winfo_obj EXCEPT ![t] = b]

----------------------------------------------------------------------------
\* The service calls.

\* A fault of the next operator: the first area is not given back.
NoMemoryKeeps(m, areas) == mpk \cup {<<m, "mpf">> : a \in areas \cap {"mpf"}}

\* What is allocated after malloc_mpk has failed for the second area.
NoMemory(m, areas) == mpk

acre_mpf(ini) ==
    /\ InTask /\ free_mpfcb # << >>
    /\ LET m == Head(free_mpfcb)
       IN  /\ mpfcb' = [mpfcb EXCEPT ![m] = Full(ini)]
           /\ mpk' = mpk \cup {<<m, a>> : a \in ini.memory}
           /\ ker' = [ker EXCEPT !.wait[m] = << >>,
                                 !.tpri = IF ini.tpri THEN @ \cup {m} ELSE @ \ {m}]
    /\ free_mpfcb' = Tail(free_mpfcb)
    /\ UNCHANGED <<mpfmb, winfo_obj>>

\* acre_mpf returns E_NOMEM; it takes no control block.
acre_mpf_nomem(ini) ==
    /\ InTask /\ free_mpfcb # << >> /\ ini.memory # {}
    /\ mpk' = NoMemory(Head(free_mpfcb), ini.memory)
    /\ UNCHANGED <<ker, mpfcb, mpfmb, free_mpfcb, winfo_obj>>

del_mpf(m) ==
    /\ InTask /\ m \in DynamicMpf /\ mpfcb[m].exists
    /\ ker' = InitWaitQueue(ker, m)
    /\ mpk' = mpk \ {<<m, a>> : a \in mpfcb[m].inib.memory}
    /\ mpfcb' = [mpfcb EXCEPT ![m].exists = FALSE]
    /\ free_mpfcb' = QueueInsertPrev(free_mpfcb, m)
    /\ UNCHANGED <<mpfmb, winfo_obj>>

Others == UNCHANGED <<free_mpfcb, mpk>>

\* get_mpf, pget_mpf and tget_mpf where a block is free.
GetNow(t, m) ==
    /\ mpfcb[m].exists /\ mpfcb[m].fblkcnt > 0
    /\ get_mpf_block(t, m)
    /\ UNCHANGED ker

pget_mpf(t, m) == Executes(t) /\ GetNow(t, m) /\ Others

GetWait(t, m, tmout) ==
    /\ MayWait(t)
    /\ \/ GetNow(t, m)
       \/ /\ mpfcb[m].exists /\ mpfcb[m].fblkcnt = 0
          /\ ker' = WobjMakeWait(ker, m, t, tmout)
          /\ UNCHANGED <<mpfcb, mpfmb, winfo_obj>>
    /\ Others

get_mpf(t, m) == GetWait(t, m, FALSE)
tget_mpf(t, m) == GetWait(t, m, TRUE)

\* The blocks that rel_mpf accepts (E_PAR); any task may return any block.
Returnable(m, b) ==
    mpfcb[m].exists /\ b < mpfcb[m].unused /\ mpfmb[m][b] = INDEX_ALLOC

rel_mpf(m, b) ==
    /\ InTask /\ Returnable(m, b)
    /\ IF ker.wait[m] # << >>
         THEN /\ winfo_obj' = [winfo_obj EXCEPT ![Head(ker.wait[m])] = b]
              /\ ker' = CompleteFirst(ker, m)
              /\ UNCHANGED <<mpfcb, mpfmb>>
         ELSE /\ mpfmb' = [mpfmb EXCEPT ![m][b] = mpfcb[m].freelist]
              /\ mpfcb' = [mpfcb EXCEPT ![m].fblkcnt = @ + 1, ![m].freelist = b]
              /\ UNCHANGED <<ker, winfo_obj>>
    /\ Others

ini_mpf(m) ==
    /\ InTask /\ mpfcb[m].exists
    /\ ker' = InitWaitQueue(ker, m)
    /\ mpfcb' = [mpfcb EXCEPT ![m] = Full(@.inib)]
    /\ UNCHANGED <<mpfmb, winfo_obj>> /\ Others

----------------------------------------------------------------------------
Next ==
    \/ \E ini \in Packets : acre_mpf(ini) \/ acre_mpf_nomem(ini)
    \/ \E m \in Mpf :
          \/ del_mpf(m) \/ ini_mpf(m)
          \/ \E t \in Tsk : get_mpf(t, m) \/ tget_mpf(t, m) \/ pget_mpf(t, m)
          \/ \E b \in Block : rel_mpf(m, b)
    \/ \E t \in Tsk : TaskNext(t) /\ UNCHANGED <<mpfcb, mpfmb, free_mpfcb, mpk, winfo_obj>>

Spec == Init /\ [][Next]_vars

----------------------------------------------------------------------------
Allocated(m) == IF mpfcb[m].exists THEN {b \in Block : Returnable(m, b)} ELSE {}

\* The blocks that have been handed out at some time and are not now are in
\* the free list, once, whatever was returned by whom, and the count of the
\* free blocks is right (mempfix.c:176-187, :602-627, :666-668).
BlockPlaces ==
    \A m \in Mpf : LET cb   == mpfcb[m]
                       free == (0 .. cb.unused - 1) \ Allocated(m)
                   IN
        cb.exists =>
            /\ cb.unused <= cb.inib.blkcnt
            /\ cb.fblkcnt = cb.inib.blkcnt - Cardinality(Allocated(m))
            /\ \E list \in [1 .. Cardinality(free) -> free] :
                  /\ IsInjective(list)
                  /\ \A i \in DOMAIN list : mpfmb[m][list[i]] =
                        IF i = Len(list) THEN INDEX_NULL ELSE list[i + 1]
                  /\ cb.freelist = IF list = << >> THEN INDEX_NULL ELSE list[1]

\* Kernel memory is allocated exactly for the areas of the pools that were
\* created without memory of their own and still exist, also when only one of
\* two allocations succeeded (mempfix.c:277-303, :388-393).
MemoryReturned ==
    mpk = UNION {{<<m, a>> : a \in mpfcb[m].inib.memory} : m \in {m \in Mpf : mpfcb[m].exists}}

\* A memory pool hands out a block that nobody has, waiting tasks get blocks
\* before anybody else, and what rel_mpf accepts is a block that is handed out,
\* although the marks of the blocks survive ini_mpf (mempfix.c:172-188, :568-684).
Blocks == INSTANCE Pool WITH
    Obj <- Mpf,
    size <- [m \in Mpf |-> mpfcb[m].inib.blkcnt],
    held <- [m \in Mpf |-> Allocated(m)],
    waiting <- [m \in Mpf |-> Range(ker.wait[m])],
    got <- winfo_obj

PoolStep == Blocks!PoolNext \/ UNCHANGED Blocks!poolVars
ImplementsPool == Blocks!PoolSpec
================================================================================
