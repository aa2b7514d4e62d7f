------------------------------- MODULE Dataqueue -------------------------------
(***************************************************************************)
(* Data queues (kernel/dataqueue.c), with their dynamic creation.  A data  *)
(* queue q has the wait queues <<q, "snd">> and <<q, "rcv">>.              *)
(***************************************************************************)
EXTENDS Wait

CONSTANTS
    StaticDtq,    \* the data queues the configuration defines
    DynamicDtq,   \* the control blocks for acre_dtq
    Data,         \* the data
    Maxcnt,       \* the largest room of a data queue in an instance
    dtqinib,      \* the static data queues
    Packets       \* the arguments that acre_dtq is called with

Dtq == StaticDtq \cup DynamicDtq

Snd(q) == <<q, "snd">>
Rcv(q) == <<q, "rcv">>

\* mballoc: the caller gives no memory, acre_dtq allocates it.
DTQINIB == [tpri: BOOLEAN, dtqcnt: 0 .. Maxcnt, mballoc: BOOLEAN]

DtqAssumption ==
    /\ WaitQueue = Dtq \X {"snd", "rcv"}
    /\ StaticDtq \cap DynamicDtq = {} /\ IsFiniteSet(DynamicDtq)
    /\ Maxcnt \in Nat \ {0} /\ NULL \notin Data
    /\ dtqinib \in [StaticDtq -> DTQINIB] /\ Packets \subseteq DTQINIB

VARIABLES
    dtqcb,        \* the control blocks with dtqcnt and mballoc (TA_MBALLOC)
    p_dtqmb,      \* the memory of each data queue, a ring of data
    free_dtqcb,   \* the list of the free control blocks
    mpk,          \* the data queues for which kernel memory is allocated
    winfo_obj     \* what a task waits to send or has received (a union)

dtq_vars == <<ker, dtqcb, p_dtqmb, free_dtqcb, mpk, winfo_obj>>

DTQCB == [exists: BOOLEAN, count: 0 .. Maxcnt, head: 0 .. Maxcnt - 1,
          tail: 0 .. Maxcnt - 1, dtqcnt: 0 .. Maxcnt, mballoc: BOOLEAN]

DtqTypeOK ==
    /\ ker \in KerType
    /\ dtqcb \in [Dtq -> DTQCB]
    /\ p_dtqmb \in [Dtq -> [0 .. Maxcnt - 1 -> Data \cup {NULL}]]
    /\ free_dtqcb \in Seq(DynamicDtq)
    /\ mpk \subseteq Dtq
    /\ winfo_obj \in [Tsk -> Data \cup {NULL}]
    /\ \A q \in Dtq : \A t \in Range(ker.wait[Snd(q)]) : winfo_obj[t] \in Data

Empty(ini) == [exists |-> TRUE, count |-> 0, head |-> 0, tail |-> 0,
               dtqcnt |-> ini.dtqcnt, mballoc |-> ini.mballoc]

\* initialize_dataqueue
DtqInit ==
    /\ KerInit({Snd(q) : q \in {q \in StaticDtq : dtqinib[q].tpri}})
    /\ dtqcb = [q \in Dtq |->
           IF q \in StaticDtq THEN [Empty(dtqinib[q]) EXCEPT !.mballoc = FALSE]
           ELSE [Empty([dtqcnt |-> 0, mballoc |-> FALSE]) EXCEPT !.exists = FALSE]]
    /\ p_dtqmb = [q \in Dtq |-> [i \in 0 .. Maxcnt - 1 |-> NULL]]
    /\ free_dtqcb = SetToSeq(DynamicDtq)
    /\ mpk = {}
    /\ winfo_obj = [t \in Tsk |-> NULL]

----------------------------------------------------------------------------
\* The ring buffer.

Advance(cb, i) == IF i + 1 >= cb.dtqcnt THEN 0 ELSE i + 1

EnqueueData(cb) == [cb EXCEPT !.count = @ + 1, !.tail = Advance(cb, @)]

\* A fault of the next operator: when the ring is full head stays.
ForceEnqueueDataOnly(cb) ==
    [cb EXCEPT !.tail = Advance(cb, @),
               !.count = IF cb.count < cb.dtqcnt THEN @ + 1 ELSE @]

\* force_enqueue_data overwrites the oldest data if the ring is full.
ForceEnqueueData(cb) ==
    LET cb1 == [cb EXCEPT !.tail = Advance(cb, @)]
    IN  IF cb.count < cb.dtqcnt THEN [cb1 EXCEPT !.count = @ + 1]
                                ELSE [cb1 EXCEPT !.head = cb1.tail]

DequeueData(cb) == [cb EXCEPT !.count = @ - 1, !.head = Advance(cb, @)]

\* Where enqueue_data and force_enqueue_data write.
Store(q, cb, d) == p_dtqmb' = [p_dtqmb EXCEPT ![q][cb.tail] = d]

\* The data go to the first task that waits for them.
PassOn(q, d) ==
    /\ ker.wait[Rcv(q)] # << >>
    /\ winfo_obj' = [winfo_obj EXCEPT ![Head(ker.wait[Rcv(q)])] = d]
    /\ ker' = CompleteFirst(ker, Rcv(q))
    /\ UNCHANGED <<dtqcb, p_dtqmb>>

send_data(q, d) ==
    \/ PassOn(q, d)
    \/ /\ ker.wait[Rcv(q)] = << >> /\ dtqcb[q].count < dtqcb[q].dtqcnt
       /\ Store(q, dtqcb[q], d)
       /\ dtqcb' = [dtqcb EXCEPT ![q] = EnqueueData(@)]
       /\ UNCHANGED <<ker, winfo_obj>>

force_send_data(q, d) ==
    \/ PassOn(q, d)
    \/ /\ ker.wait[Rcv(q)] = << >>
       /\ Store(q, dtqcb[q], d)
       /\ dtqcb' = [dtqcb EXCEPT ![q] = ForceEnqueueData(@)]
       /\ UNCHANGED <<ker, winfo_obj>>

\* A fault of the next action: a waiting sender's data overtake the ring's.
receive_data_overtakes(q, t) ==
    LET cb == dtqcb[q] IN
    IF ker.wait[Snd(q)] # << >>
      THEN /\ winfo_obj' = [winfo_obj EXCEPT ![t] = winfo_obj[Head(ker.wait[Snd(q)])]]
           /\ ker' = CompleteFirst(ker, Snd(q))
           /\ UNCHANGED <<dtqcb, p_dtqmb>>
      ELSE /\ cb.count > 0
           /\ winfo_obj' = [winfo_obj EXCEPT ![t] = p_dtqmb[q][cb.head]]
           /\ dtqcb' = [dtqcb EXCEPT ![q] = DequeueData(cb)]
           /\ UNCHANGED <<ker, p_dtqmb>>

\* A fault of the next action: the room in the ring is not given to a sender.
receive_data_only(q, t) ==
    LET cb == dtqcb[q] IN
    /\ cb.count > 0
    /\ winfo_obj' = [winfo_obj EXCEPT ![t] = p_dtqmb[q][cb.head]]
    /\ dtqcb' = [dtqcb EXCEPT ![q] = DequeueData(cb)]
    /\ UNCHANGED <<ker, p_dtqmb>>

\* The oldest data, and then the first sender's data into the ring; without a
\* ring the first sender's data.
receive_data(q, t) ==
    LET cb == dtqcb[q]
        ds == winfo_obj[Head(ker.wait[Snd(q)])]
    IN
    \/ /\ cb.count > 0
       /\ winfo_obj' = [winfo_obj EXCEPT ![t] = p_dtqmb[q][cb.head]]
       /\ IF ker.wait[Snd(q)] # << >>
            THEN /\ Store(q, DequeueData(cb), ds)
                 /\ dtqcb' = [dtqcb EXCEPT ![q] = EnqueueData(DequeueData(cb))]
                 /\ ker' = CompleteFirst(ker, Snd(q))
            ELSE /\ dtqcb' = [dtqcb EXCEPT ![q] = DequeueData(cb)]
                 /\ UNCHANGED <<ker, p_dtqmb>>
    \/ /\ cb.count = 0 /\ ker.wait[Snd(q)] # << >>
       /\ winfo_obj' = [winfo_obj EXCEPT ![t] = ds]
       /\ ker' = CompleteFirst(ker, Snd(q))
       /\ UNCHANGED <<dtqcb, p_dtqmb>>

----------------------------------------------------------------------------
\* The service calls.

\* malloc_mpk may fail (E_NOMEM): then nothing changes.  Memory is allocated
\* only for a data queue with room.
acre_dtq(ini) ==
    /\ InTask /\ free_dtqcb # << >>
    /\ ini.mballoc => ini.dtqcnt > 0
    /\ LET q == Head(free_dtqcb)
       IN  /\ dtqcb' = [dtqcb EXCEPT ![q] = Empty(ini)]
           /\ mpk' = IF ini.mballoc THEN mpk \cup {q} ELSE mpk
           /\ ker' = [ker EXCEPT !.wait[Snd(q)] = << >>, !.wait[Rcv(q)] = << >>,
                                 !.tpri = IF ini.tpri THEN @ \cup {Snd(q)} ELSE @ \ {Snd(q)}]
    /\ free_dtqcb' = Tail(free_dtqcb)
    /\ UNCHANGED <<p_dtqmb, winfo_obj>>

\* All waits for the data queue end with E_DLT.
EndAllWaits(q) == ker' = InitWaitQueue(InitWaitQueue(ker, Snd(q)), Rcv(q))

del_dtq(q) ==
    /\ InTask /\ q \in DynamicDtq /\ dtqcb[q].exists
    /\ EndAllWaits(q)
    /\ mpk' = IF dtqcb[q].mballoc THEN mpk \ {q} ELSE mpk
    /\ dtqcb' = [dtqcb EXCEPT ![q].exists = FALSE]
    /\ free_dtqcb' = QueueInsertPrev(free_dtqcb, q)
    /\ UNCHANGED <<p_dtqmb, winfo_obj>>

Others == UNCHANGED <<free_dtqcb, mpk>>

SendWait(t, q, d, tmout) ==
    /\ MayWait(t) /\ dtqcb[q].exists
    /\ \/ send_data(q, d)
       \/ /\ ker.wait[Rcv(q)] = << >> /\ dtqcb[q].count = dtqcb[q].dtqcnt
          /\ winfo_obj' = [winfo_obj EXCEPT ![t] = d]
          /\ ker' = WobjMakeWait(ker, Snd(q), t, tmout)
          /\ UNCHANGED <<dtqcb, p_dtqmb>>
    /\ Others

snd_dtq(t, q, d) == SendWait(t, q, d, FALSE)
tsnd_dtq(t, q, d) == SendWait(t, q, d, TRUE)

\* By a task or an interrupt handler.
psnd_dtq(q, d) == dtqcb[q].exists /\ send_data(q, d) /\ Others

fsnd_dtq(q, d) ==
    /\ dtqcb[q].exists /\ dtqcb[q].dtqcnt > 0
    /\ force_send_data(q, d) /\ Others

\* Receivers wait in FIFO order, and have no WOBJCB.
ReceiverWaits(k, q, t, tmout) ==
    [MakeWait(k, Rcv(q), t, tmout) EXCEPT !.wait[Rcv(q)] = QueueInsertPrev(@, t)]

ReceiveWait(t, q, tmout) ==
    /\ MayWait(t) /\ dtqcb[q].exists
    /\ \/ receive_data(q, t)
       \/ /\ dtqcb[q].count = 0 /\ ker.wait[Snd(q)] = << >>
          /\ ker' = ReceiverWaits(ker, q, t, tmout)
          /\ UNCHANGED <<dtqcb, p_dtqmb, winfo_obj>>
    /\ Others

rcv_dtq(t, q) == ReceiveWait(t, q, FALSE)
trcv_dtq(t, q) == ReceiveWait(t, q, TRUE)

prcv_dtq(t, q) == Executes(t) /\ dtqcb[q].exists /\ receive_data(q, t) /\ Others

ini_dtq(q) ==
    /\ InTask /\ dtqcb[q].exists
    /\ EndAllWaits(q)
    /\ dtqcb' = [dtqcb EXCEPT ![q].count = 0, ![q].head = 0, ![q].tail = 0]
    /\ UNCHANGED <<p_dtqmb, winfo_obj>> /\ Others

----------------------------------------------------------------------------
DtqNext ==
    \/ \E ini \in Packets : acre_dtq(ini)
    \/ \E q \in Dtq :
          \/ del_dtq(q) \/ ini_dtq(q)
          \/ \E d \in Data :
                \/ psnd_dtq(q, d) \/ fsnd_dtq(q, d)
                \/ \E t \in Tsk : snd_dtq(t, q, d) \/ tsnd_dtq(t, q, d)
          \/ \E t \in Tsk : rcv_dtq(t, q) \/ trcv_dtq(t, q) \/ prcv_dtq(t, q)
    \/ \E t \in Tsk : TaskNext(t) /\ UNCHANGED <<dtqcb, p_dtqmb, free_dtqcb, mpk, winfo_obj>>

DtqSpec == DtqInit /\ [][DtqNext]_dtq_vars

----------------------------------------------------------------------------
\* The ring of a data queue: its indices and its count agree
\* (dataqueue.c:196-245).
RingConsistent ==
    \A q \in Dtq : LET cb == dtqcb[q] IN
        /\ cb.count <= cb.dtqcnt
        /\ cb.dtqcnt > 0 =>
              /\ cb.head < cb.dtqcnt
              /\ cb.tail = (cb.head + cb.count) % cb.dtqcnt
              /\ \A i \in 0 .. cb.count - 1 :
                    p_dtqmb[q][(cb.head + i) % cb.dtqcnt] \in Data

\* A receiver waits only while there are no data, neither in the ring nor with
\* a waiting sender; a sender only while the ring is full
\* (dataqueue.c:259-271, :309-327).
WaitsOnlyIfNeeded ==
    \A q \in Dtq :
        /\ ker.wait[Rcv(q)] # << >> =>
              dtqcb[q].exists /\ dtqcb[q].count = 0 /\ ker.wait[Snd(q)] = << >>
        /\ ker.wait[Snd(q)] # << >> =>
              dtqcb[q].exists /\ dtqcb[q].count = dtqcb[q].dtqcnt

\* Kernel memory is allocated exactly for the data queues that were created
\* without memory of their own and still exist (dataqueue.c:403-422, :490).
MemoryReturned == mpk = {q \in Dtq : dtqcb[q].exists /\ dtqcb[q].mballoc}

\* What has been sent to a data queue and not received.
Contents(q) ==
    IF ~dtqcb[q].exists THEN << >>
    ELSE [i \in 1 .. dtqcb[q].count |-> p_dtqmb[q][(dtqcb[q].head + i - 1) % dtqcb[q].dtqcnt]]
            \o [i \in DOMAIN ker.wait[Snd(q)] |-> winfo_obj[ker.wait[Snd(q)][i]]]

\* Data are received in the order in which they were sent, each of them once;
\* only fsnd_dtq drops data, the oldest, and what a sender that stops waiting
\* has not sent is gone (dataqueue.c:196-328).
Channel == INSTANCE Fifo WITH
    Obj <- Dtq,
    cap <- [q \in Dtq |-> dtqcb[q].dtqcnt],
    chan <- [q \in Dtq |-> Contents(q)],
    got <- winfo_obj

FifoStep == Channel!FifoNext \/ UNCHANGED Channel!fifoVars
ImplementsFifo == Channel!FifoSpec
================================================================================
