-------------------------------- MODULE Pridataq --------------------------------
(***************************************************************************)
(* Priority data queues (kernel/pridataq.c), with their dynamic creation.  *)
(* A priority data queue q has the wait queues <<q, "snd">> and            *)
(* <<q, "rcv">>.  Its data blocks have the numbers 0 to pdqcnt - 1; a      *)
(* linked list of blocks is the sequence of their numbers.                 *)
(***************************************************************************)
EXTENDS Wait

CONSTANTS
    StaticPdq,    \* the priority data queues the configuration defines
    DynamicPdq,   \* the control blocks for acre_pdq
    Data,         \* the data
    Maxcnt,       \* the largest room of a queue in an instance
    TMAX_DPRI,    \* the largest data priority
    pdqinib,      \* the static priority data queues
    Packets       \* the arguments that acre_pdq is called with

Pdq == StaticPdq \cup DynamicPdq
DPri == 1 .. TMAX_DPRI
Block == 0 .. Maxcnt - 1

Snd(q) == <<q, "snd">>
Rcv(q) == <<q, "rcv">>

\* mballoc: the caller gives no memory, acre_pdq allocates it.
PDQINIB == [tpri: BOOLEAN, pdqcnt: 0 .. Maxcnt, maxdpri: DPri, mballoc: BOOLEAN]

PdqAssumption ==
    /\ WaitQueue = Pdq \X {"snd", "rcv"}
    /\ StaticPdq \cap DynamicPdq = {} /\ IsFiniteSet(DynamicPdq)
    /\ Maxcnt \in Nat \ {0} /\ TMAX_DPRI \in Nat \ {0} /\ NULL \notin Data
    /\ pdqinib \in [StaticPdq -> PDQINIB] /\ Packets \subseteq PDQINIB

\* Data with their priority: a block without its link, the winfo_obj of a
\* waiting task, or what a receive call returns.
Item == [data: Data, datapri: DPri]
NoItem == [data |-> NULL, datapri |-> 1]

VARIABLES
    pdqcb,        \* the control blocks with their initialisation blocks
    pdqmb,        \* the data blocks
    free_pdqcb,   \* the list of the free control blocks
    mpk,          \* the queues for which kernel memory is allocated
    winfo_obj     \* what a task waits to send or has received (a union)

vars == <<ker, pdqcb, pdqmb, free_pdqcb, mpk, winfo_obj>>

PDQCB == [exists: BOOLEAN, count: Nat, p_head: Seq(Block), unused: Nat,
          p_freelist: Seq(Block), inib: PDQINIB]

TypeOK ==
    /\ ker \in KerType
    /\ pdqcb \in [Pdq -> PDQCB]
    /\ pdqmb \in [Pdq -> [Block -> Item \cup {NoItem}]]
    /\ free_pdqcb \in Seq(DynamicPdq)
    /\ mpk \subseteq Pdq
    /\ winfo_obj \in [Tsk -> Item \cup {NoItem}]

Empty(ini) == [exists |-> TRUE, count |-> 0, p_head |-> << >>, unused |-> 0,
               p_freelist |-> << >>, inib |-> ini]

NoInib == [tpri |-> FALSE, pdqcnt |-> 0, maxdpri |-> 1, mballoc |-> FALSE]

\* initialize_pridataq
Init ==
    /\ KerInit({Snd(q) : q \in {q \in StaticPdq : pdqinib[q].tpri}})
    /\ pdqcb = [q \in Pdq |->
           IF q \in StaticPdq THEN Empty([pdqinib[q] EXCEPT !.mballoc = FALSE])
           ELSE [Empty(NoInib) EXCEPT !.exists = FALSE]]
    /\ pdqmb = [q \in Pdq |-> [b \in Block |-> NoItem]]
    /\ free_pdqcb = SetToSeq(DynamicPdq)
    /\ mpk = {}
    /\ winfo_obj = [t \in Tsk |-> NoItem]

----------------------------------------------------------------------------
\* The data blocks.

\* The block that enqueue_pridata takes, and the control block without it.
NextBlock(cb) == IF cb.p_freelist # << >> THEN Head(cb.p_freelist) ELSE cb.unused

TakeBlock(cb) ==
    IF cb.p_freelist # << >> THEN [cb EXCEPT !.p_freelist = Tail(@)]
                             ELSE [cb EXCEPT !.unused = @ + 1]

\* A fault of the next operator: >= instead of >.
PlaceBefore(mb, cb, pri) ==
    FirstOrEnd(cb.p_head, {i \in DOMAIN cb.p_head : mb[cb.p_head[i]].datapri >= pri})

\* The place of data in the list: behind those of the same priority.
Place(mb, cb, pri) ==
    FirstOrEnd(cb.p_head, {i \in DOMAIN cb.p_head : mb[cb.p_head[i]].datapri > pri})

\* enqueue_pridata(cb), with the blocks mb of the queue.
EnqueueMb(mb, cb, item) == [mb EXCEPT ![NextBlock(cb)] = item]

EnqueuePridata(mb, cb, item) ==
    [TakeBlock(cb) EXCEPT
        !.p_head = InsertAt(@, Place(mb, cb, item.datapri), NextBlock(cb)),
        !.count = @ + 1]

\* A fault of the next operator: the block is not put on the free list.
DequeuePridataLost(cb) == [cb EXCEPT !.p_head = Tail(@), !.count = @ - 1]

DequeuePridata(cb) ==
    [cb EXCEPT !.p_head = Tail(@), !.count = @ - 1,
               !.p_freelist = <<Head(cb.p_head)>> \o @]

\* The data go to the first task that waits for them.
HandOver(q, item) ==
    /\ ker.wait[Rcv(q)] # << >>
    /\ winfo_obj' = [winfo_obj EXCEPT ![Head(ker.wait[Rcv(q)])] = item]
    /\ ker' = CompleteFirst(ker, Rcv(q))
    /\ UNCHANGED <<pdqcb, pdqmb>>

send_pridata(q, item) ==
    \/ HandOver(q, item)
    \/ /\ ker.wait[Rcv(q)] = << >> /\ pdqcb[q].count < pdqcb[q].inib.pdqcnt
       /\ pdqmb' = [pdqmb EXCEPT ![q] = EnqueueMb(@, pdqcb[q], item)]
       /\ pdqcb' = [pdqcb EXCEPT ![q] = EnqueuePridata(pdqmb[q], @, item)]
       /\ UNCHANGED <<ker, winfo_obj>>

\* A fault of the next action: the room is not given to a sender.
receive_pridata_only(q, t) ==
    /\ pdqcb[q].count > 0
    /\ winfo_obj' = [winfo_obj EXCEPT ![t] = pdqmb[q][Head(pdqcb[q].p_head)]]
    /\ pdqcb' = [pdqcb EXCEPT ![q] = DequeuePridata(@)]
    /\ UNCHANGED <<ker, pdqmb>>

\* The first data, and then the first sender's data into the list; without any
\* data the first sender's.
receive_pridata(q, t) ==
    LET cb   == pdqcb[q]
        snd  == ker.wait[Snd(q)]
        rest == DequeuePridata(cb)
    IN
    \/ /\ cb.count > 0
       /\ winfo_obj' = [winfo_obj EXCEPT ![t] = pdqmb[q][Head(cb.p_head)]]
       /\ IF snd # << >>
            THEN /\ pdqmb' = [pdqmb EXCEPT ![q] = EnqueueMb(@, rest, winfo_obj[Head(snd)])]
                 /\ pdqcb' = [pdqcb EXCEPT ![q] =
                        EnqueuePridata(pdqmb[q], rest, winfo_obj[Head(snd)])]
                 /\ ker' = CompleteFirst(ker, Snd(q))
            ELSE /\ pdqcb' = [pdqcb EXCEPT ![q] = rest]
                 /\ UNCHANGED <<ker, pdqmb>>
    \/ /\ cb.count = 0 /\ snd # << >>
       /\ winfo_obj' = [winfo_obj EXCEPT ![t] = winfo_obj[Head(snd)]]
       /\ ker' = CompleteFirst(ker, Snd(q))
       /\ UNCHANGED <<pdqcb, pdqmb>>

----------------------------------------------------------------------------
\* The service calls.

\* malloc_mpk may fail (E_NOMEM): then nothing changes.
acre_pdq(ini) ==
    /\ InTask /\ free_pdqcb # << >>
    /\ ini.mballoc => ini.pdqcnt > 0
    /\ LET q == Head(free_pdqcb)
       IN  /\ pdqcb' = [pdqcb EXCEPT ![q] = Empty(ini)]
           /\ mpk' = IF ini.mballoc THEN mpk \cup {q} ELSE mpk
           /\ ker' = [ker EXCEPT !.wait[Snd(q)] = << >>, !.wait[Rcv(q)] = << >>,
                                 !.tpri = IF ini.tpri THEN @ \cup {Snd(q)} ELSE @ \ {Snd(q)}]
    /\ free_pdqcb' = Tail(free_pdqcb)
    /\ UNCHANGED <<pdqmb, winfo_obj>>

EndAllWaits(q) == ker' = InitWaitQueue(InitWaitQueue(ker, Snd(q)), Rcv(q))

del_pdq(q) ==
    /\ InTask /\ q \in DynamicPdq /\ pdqcb[q].exists
    /\ EndAllWaits(q)
    /\ mpk' = IF pdqcb[q].inib.mballoc THEN mpk \ {q} ELSE mpk
    /\ pdqcb' = [pdqcb EXCEPT ![q].exists = FALSE]
    /\ free_pdqcb' = QueueInsertPrev(free_pdqcb, q)
    /\ UNCHANGED <<pdqmb, winfo_obj>>

Others == UNCHANGED <<free_pdqcb, mpk>>

\* E_NOEXS, and E_PAR for a data priority above the queue's maximum.
Accepts(q, item) == pdqcb[q].exists /\ item.datapri <= pdqcb[q].inib.maxdpri

SendWait(t, q, item, tmout) ==
    /\ MayWait(t) /\ Accepts(q, item)
    /\ \/ send_pridata(q, item)
       \/ /\ ker.wait[Rcv(q)] = << >> /\ pdqcb[q].count = pdqcb[q].inib.pdqcnt
          /\ winfo_obj' = [winfo_obj EXCEPT ![t] = item]
          /\ ker' = WobjMakeWait(ker, Snd(q), t, tmout)
          /\ UNCHANGED <<pdqcb, pdqmb>>
    /\ Others

snd_pdq(t, q, item) == SendWait(t, q, item, FALSE)
tsnd_pdq(t, q, item) == SendWait(t, q, item, TRUE)

\* By a task or an interrupt handler.
psnd_pdq(q, item) ==
    Accepts(q, item) /\ send_pridata(q, item) /\ Others

\* Receivers wait in FIFO order, and have no WOBJCB.
ReceiverWaits(k, q, t, tmout) ==
    [MakeWait(k, Rcv(q), t, tmout) EXCEPT !.wait[Rcv(q)] = QueueInsertPrev(@, t)]

ReceiveWait(t, q, tmout) ==
    /\ MayWait(t) /\ pdqcb[q].exists
    /\ \/ receive_pridata(q, t)
       \/ /\ pdqcb[q].count = 0 /\ ker.wait[Snd(q)] = << >>
          /\ ker' = ReceiverWaits(ker, q, t, tmout)
          /\ UNCHANGED <<pdqcb, pdqmb, winfo_obj>>
    /\ Others

rcv_pdq(t, q) == ReceiveWait(t, q, FALSE)
trcv_pdq(t, q) == ReceiveWait(t, q, TRUE)

prcv_pdq(t, q) ==
    Executes(t) /\ pdqcb[q].exists /\ receive_pridata(q, t) /\ Others

ini_pdq(q) ==
    /\ InTask /\ pdqcb[q].exists
    /\ EndAllWaits(q)
    /\ pdqcb' = [pdqcb EXCEPT ![q] = Empty(@.inib)]
    /\ UNCHANGED <<pdqmb, winfo_obj>> /\ Others

----------------------------------------------------------------------------
Next ==
    \/ \E ini \in Packets : acre_pdq(ini)
    \/ \E q \in Pdq :
          \/ del_pdq(q) \/ ini_pdq(q)
          \/ \E item \in Item :
                \/ psnd_pdq(q, item)
                \/ \E t \in Tsk : snd_pdq(t, q, item) \/ tsnd_pdq(t, q, item)
          \/ \E t \in Tsk : rcv_pdq(t, q) \/ trcv_pdq(t, q) \/ prcv_pdq(t, q)
    \/ \E t \in Tsk : TaskNext(t) /\ UNCHANGED <<pdqcb, pdqmb, free_pdqcb, mpk, winfo_obj>>

Spec == Init /\ [][Next]_vars

----------------------------------------------------------------------------
\* Every block that has been used is in the list of the data or in the free
\* list, once; no block beyond the room is ever used (pridataq.c:195-239).
BlockPlaces ==
    \A q \in Pdq : LET cb == pdqcb[q] IN
        /\ IsInjective(cb.p_head \o cb.p_freelist)
        /\ Range(cb.p_head \o cb.p_freelist) = 0 .. cb.unused - 1
        /\ cb.count = Len(cb.p_head) /\ cb.unused <= cb.inib.pdqcnt

\* The data are in the order of their priorities, none of which is above the
\* maximum that the queue was created with; so is no sender's
\* (pridataq.c:207-215, :512, :581, :641).
DataOrder ==
    \A q \in Pdq : LET cb == pdqcb[q] IN
        /\ \A i, j \in DOMAIN cb.p_head :
              i < j => pdqmb[q][cb.p_head[i]].datapri <= pdqmb[q][cb.p_head[j]].datapri
        /\ \A i \in DOMAIN cb.p_head : pdqmb[q][cb.p_head[i]].datapri <= cb.inib.maxdpri
        /\ \A t \in Range(ker.wait[Snd(q)]) : winfo_obj[t].datapri <= cb.inib.maxdpri

\* A receiver waits only while there are no data, neither in the list nor with
\* a waiting sender; a sender only while there is no room
\* (pridataq.c:254-267, :284-304).
WaitsOnlyIfNeeded ==
    \A q \in Pdq :
        /\ ker.wait[Rcv(q)] # << >> =>
              pdqcb[q].exists /\ pdqcb[q].count = 0 /\ ker.wait[Snd(q)] = << >>
        /\ ker.wait[Snd(q)] # << >> =>
              pdqcb[q].exists /\ pdqcb[q].count = pdqcb[q].inib.pdqcnt

\* Kernel memory is allocated exactly for the queues that were created without
\* memory of their own and still exist (pridataq.c:375-388, :463).
MemoryReturned == mpk = {q \in Pdq : pdqcb[q].exists /\ pdqcb[q].inib.mballoc}

\* The data in a queue by priority, in the order of the list.
Contents(q, p) ==
    LET cb == pdqcb[q]
        of == IF cb.exists THEN SelectSeq(cb.p_head, LAMBDA b : pdqmb[q][b].datapri = p)
                           ELSE << >>
    IN  [i \in DOMAIN of |-> pdqmb[q][of[i]].data]

\* Data of one priority are received in the order in which they were accepted,
\* each of them once, those of a higher priority first; a receiver to whom data
\* are handed over gets those of the sender, which then stops waiting
\* (pridataq.c:190-304).
Channels == INSTANCE PriFifo WITH
    Obj <- Pdq,
    chan <- [q \in Pdq |-> [p \in DPri |-> Contents(q, p)]],
    asks <- [q \in Pdq |-> Range(ker.wait[Snd(q)])],
    got <- winfo_obj

PriFifoStep == Channels!PriFifoNext \/ UNCHANGED Channels!priVars
ImplementsPriFifo == Channels!PriFifoSpec
================================================================================
