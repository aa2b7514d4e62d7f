--------------------------------- MODULE Notify ---------------------------------
(***************************************************************************)
(* Cyclic and alarm notifications (kernel/cyclic.c, alarm.c) and the       *)
(* handler that notifies (notify_handler of time_manage.c).  A service     *)
(* call is one step, under the giant lock; a handler is executed without   *)
(* it, step by step, on the processor whose signal_time called it.         *)
(*                                                                         *)
(* The heap of a processor is the set of the notifications whose events    *)
(* are registered: any one may happen, since when it does is the matter of *)
(* module TimeEvent.  The free list is linked through the event blocks; on *)
(* machines of 64 bits that destroys their callbacks.                      *)
(***************************************************************************)
EXTENDS Integers, Sequences, FiniteSets, SequencesExt

CONSTANTS
    Prc, Tepp,        \* the processors, and those that handle time events
    MASTER,           \* TOPPERS_MASTER_PRCID
    Cyc, Alm,         \* the notifications, with the unused ones
    Static,           \* those that the configuration generates
    iprcid,           \* their initial processors
    Handler           \* time event handlers of the application

Obj == Cyc \cup Alm

ASSUME NotifyAssumption ==
    /\ Tepp \subseteq Prc /\ MASTER \in Tepp
    /\ Cyc \cap Alm = {} /\ Static \subseteq Obj /\ IsFiniteSet(Obj) /\ Obj # {}
    /\ iprcid \in [Static -> Tepp]
    /\ "notify_handler" \notin Handler
    /\ {"none", "stopped"} \cap Tepp = {}

VARIABLES
    cb,          \* the control blocks, with their initialisation blocks
    free,        \* free_cyccb, free_almcb
    tmevt_heap,  \* the notifications in the heap of each processor
    run          \* the handler that each processor executes

vars == <<cb, free, tmevt_heap, run>>

\* What a notification calls; what notify_handler then notifies, in
\* aalm_nfyinfo_table and acyc_nfyinfo_table, is left out.
Nfyhdr == Handler \cup {"notify_handler"}

CB == [atr: {"TA_NOEXS", "TA_NULL", "TA_STA"}, sta: BOOLEAN, p_pcb: Prc,
       callback: {"call", "link"}, nfyhdr: Nfyhdr]

RUN == [at: {"idle", "call", "handler", "notify", "error", "return"}, obj: Obj]

TypeOK ==
    /\ cb \in [Obj -> CB]
    /\ free \in [{"cyc", "alm"} -> Seq(Obj)]
    /\ tmevt_heap \in [Tepp -> SUBSET Obj]
    /\ run \in [Tepp -> RUN]

\* The state of a control block; the event block of an unused one is a link.
Block(atr, sta, prc, hdr) ==
    [atr |-> atr, sta |-> sta, p_pcb |-> prc, callback |-> "call", nfyhdr |-> hdr]
Unused == [Block("TA_NOEXS", FALSE, MASTER, "notify_handler") EXCEPT !.callback = "link"]

Kind(x) == IF x \in Cyc THEN "cyc" ELSE "alm"
Exists(x) == cb[x].atr # "TA_NOEXS"

Idle == [at |-> "idle", obj |-> CHOOSE x \in Obj : TRUE]

\* initialize_cyclic and initialize_alarm of all processors.  The attributes
\* and the notifications of the static ones are given by the configuration.
Init ==
    /\ \E atr \in [Static -> {"TA_NULL", "TA_STA"}], hdr \in [Static -> Nfyhdr] :
          /\ \A x \in Static \cap Alm : atr[x] = "TA_NULL"
          /\ cb = [x \in Obj |-> IF x \in Static
                                   THEN Block(atr[x], atr[x] = "TA_STA", iprcid[x], hdr[x])
                                   ELSE Unused]
    /\ free = [k \in {"cyc", "alm"} |-> SetToSeq({x \in Obj \ Static : Kind(x) = k})]
    /\ tmevt_heap = [p \in Tepp |-> {x \in Static : cb[x].sta /\ iprcid[x] = p}]
    /\ run = [p \in Tepp |-> Idle]

\* tmevtb_dequeue and tmevtb_enqueue_reltim, when the processor p_pcb is from
\* or to; prc has no heap of its own, or else it is that of the time master.
Dequeued(heaps, x, prc) == [heaps EXCEPT ![prc] = @ \ {x}]
Enqueued(heaps, x, prc) == [heaps EXCEPT ![prc] = @ \cup {x}]

\* What a started notification gives up before it is started again or stopped.
Withdrawn(x) == IF cb[x].sta THEN Dequeued(tmevt_heap, x, cb[x].p_pcb) ELSE tmevt_heap

----------------------------------------------------------------------------
\* acre_cyc, acre_alm

\* A fault of the next operator: the callback is not set again.
NewBlock_link(x, atr, hdr) ==
    [Block(atr, atr = "TA_STA", MASTER, hdr) EXCEPT !.callback = cb[x].callback]

\* The control block of a new notification; the initial processor of all of
\* them is the master.
NewBlock(x, atr, hdr) == Block(atr, atr = "TA_STA", MASTER, hdr)

Create(k, atr, hdr) ==
    LET x == Head(free[k])
    IN  /\ free[k] # << >>
        /\ free' = [free EXCEPT ![k] = Tail(@)]
        /\ cb' = [cb EXCEPT ![x] = NewBlock(x, atr, hdr)]
        /\ tmevt_heap' = IF atr = "TA_STA" THEN Enqueued(tmevt_heap, x, cb'[x].p_pcb)
                         ELSE tmevt_heap
        /\ UNCHANGED run

acre_cyc(atr, hdr) == Create("cyc", atr, hdr)
acre_alm(hdr)      == Create("alm", "TA_NULL", hdr)

\* A fault of the next operator: a notification is deleted as it is.
Delete_started(x) ==
    /\ x \notin Static /\ Exists(x)
    /\ cb' = [cb EXCEPT ![x].atr = "TA_NOEXS", ![x].sta = FALSE, ![x].callback = "link"]
    /\ free' = [free EXCEPT ![Kind(x)] = Append(@, x)]
    /\ UNCHANGED <<tmevt_heap, run>>

\* Common to del_cyc and del_alm.
Delete(x) ==
    /\ x \notin Static /\ Exists(x)
    /\ tmevt_heap' = Withdrawn(x)
    /\ cb' = [cb EXCEPT ![x].atr = "TA_NOEXS", ![x].sta = FALSE, ![x].callback = "link"]
    /\ free' = [free EXCEPT ![Kind(x)] = Append(@, x)]
    /\ UNCHANGED run

del_cyc(x) == x \in Cyc /\ Delete(x)
del_alm(x) == x \in Alm /\ Delete(x)

\* Common to sta_cyc and sta_alm.
Start(x) ==
    /\ Exists(x)
    /\ tmevt_heap' = Enqueued(Withdrawn(x), x, cb[x].p_pcb)
    /\ cb' = [cb EXCEPT ![x].sta = TRUE]
    /\ UNCHANGED <<free, run>>

sta_cyc(x) == x \in Cyc /\ Start(x)
sta_alm(x) == x \in Alm /\ Start(x)

\* A fault of the next operator: the event is removed where it will be.
StartOn_late(x, prc) ==
    /\ Exists(x)
    /\ prc \in Tepp
    /\ tmevt_heap' = Enqueued(Dequeued(tmevt_heap, x, prc), x, prc)
    /\ cb' = [cb EXCEPT ![x].sta = TRUE, ![x].p_pcb = prc]
    /\ UNCHANGED <<free, run>>

\* Common to msta_cyc and msta_alm.  The affinity mask is read before the lock is acquired:
\* it is TOPPERS_TEPP_PRC for every dynamic notification, and a subset of it
\* for a static one, as the configurator checks.
StartOn(x, prc) ==
    /\ Exists(x)
    /\ prc \in Tepp
    /\ tmevt_heap' = Enqueued(Withdrawn(x), x, prc)
    /\ cb' = [cb EXCEPT ![x].sta = TRUE, ![x].p_pcb = prc]
    /\ UNCHANGED <<free, run>>

msta_cyc(x, prc) == x \in Cyc /\ StartOn(x, prc)
msta_alm(x, prc) == x \in Alm /\ StartOn(x, prc)

\* Common to stp_cyc and stp_alm.
Stop(x) ==
    /\ Exists(x)
    /\ tmevt_heap' = Withdrawn(x)
    /\ cb' = [cb EXCEPT ![x].sta = FALSE]
    /\ UNCHANGED <<free, run>>

stp_cyc(x) == x \in Cyc /\ Stop(x)
stp_alm(x) == x \in Alm /\ Stop(x)

----------------------------------------------------------------------------
\* call_cyclic until it releases the lock: the next event is registered with
\* the processor p_pcb.
call_cyclic(p, x) ==
    /\ x \in Cyc
    /\ tmevt_heap' = Enqueued(Dequeued(tmevt_heap, x, p), x, cb[x].p_pcb)
    /\ UNCHANGED cb

\* A fault of the next operator: the alarm stays started.
call_alarm_started(p, x) ==
    /\ x \in Alm
    /\ tmevt_heap' = Dequeued(tmevt_heap, x, p)
    /\ UNCHANGED cb

\* call_alarm until it releases the lock.
call_alarm(p, x) ==
    /\ x \in Alm
    /\ tmevt_heap' = Dequeued(tmevt_heap, x, p)
    /\ cb' = [cb EXCEPT ![x].sta = FALSE]

\* signal_time takes the event, and calls its callback.
Expire(p, x) ==
    /\ run[p].at \in {"idle", "return"}
    /\ x \in tmevt_heap[p]
    /\ call_cyclic(p, x) \/ call_alarm(p, x)
    /\ run' = [run EXCEPT ![p] = [at |-> "call", obj |-> x]]
    /\ UNCHANGED free

\* The call of nfyhdr: it is read, with exinf, without the lock.
CallHandler(p) ==
    LET x == run[p].obj
    IN  /\ run[p].at = "call"
        /\ run' = [run EXCEPT ![p].at = IF cb[x].nfyhdr \in Handler THEN "handler" ELSE "notify"]
        /\ UNCHANGED <<cb, free, tmevt_heap>>

\* The handler of the application.
HandlerReturns(p) ==
    /\ run[p].at = "handler"
    /\ run' = [run EXCEPT ![p].at = "return"]
    /\ UNCHANGED <<cb, free, tmevt_heap>>

\* notify_handler: the notification, which may fail.
notify(p) ==
    /\ run[p].at = "notify"
    /\ \E next \in {"return", "error"} : run' = [run EXCEPT ![p].at = next]
    /\ UNCHANGED <<cb, free, tmevt_heap>>

\* notify_handler: the notification of the error.
notify_error(p) ==
    /\ run[p].at = "error"
    /\ run' = [run EXCEPT ![p].at = "return"]
    /\ UNCHANGED <<cb, free, tmevt_heap>>

\* signal_time returns: no event is due.
Return(p) ==
    /\ run[p].at = "return"
    /\ run' = [run EXCEPT ![p] = Idle]
    /\ UNCHANGED <<cb, free, tmevt_heap>>

Next ==
    \/ \E hdr \in Nfyhdr : acre_alm(hdr) \/ \E atr \in {"TA_NULL", "TA_STA"} : acre_cyc(atr, hdr)
    \/ \E x \in Obj : \/ del_cyc(x) \/ sta_cyc(x) \/ stp_cyc(x)
                     \/ del_alm(x) \/ sta_alm(x) \/ stp_alm(x)
                     \/ \E prc \in Prc : msta_cyc(x, prc) \/ msta_alm(x, prc)
    \/ \E p \in Tepp : \/ \E x \in Obj : Expire(p, x)
                       \/ CallHandler(p) \/ HandlerReturns(p) \/ notify(p) \/ notify_error(p)
                       \/ Return(p)

Spec == Init /\ [][Next]_vars

----------------------------------------------------------------------------
\* A notification is started exactly when its event is registered, in the heap
\* of the processor in its control block and in no other: else stopping it
\* would not remove the event (alarm.c:337, :386-394, :431, :498;
\* cyclic.c:363, :414-426, :463, :535).
StartedIsRegistered ==
    \A x \in Obj, p \in Tepp : x \in tmevt_heap[p] <=> cb[x].sta /\ cb[x].p_pcb = p

\* The event block of a registered notification is no link of a free list, and
\* its callback is the right one (alarm.c:228-234, :288-301; cyclic.c:248-254,
\* :314-327).
EventBlockIntact ==
    /\ \A k \in DOMAIN free : IsInjective(free[k])
                              /\ Range(free[k]) = {x \in Obj : Kind(x) = k /\ ~Exists(x)}
    /\ \A p \in Tepp : \A x \in tmevt_heap[p] : Exists(x) /\ cb[x].callback = "call"

\* The processor of an existing notification handles time events: the
\* operations use its heap (cyclic.c:239-246).
OwnerHandlesEvents == \A x \in Obj : Exists(x) => cb[x].p_pcb \in Tepp

\* What a notification is: it does not exist, or is stopped, or started on a
\* processor; and the handlers that are executed.
Status == [x \in Obj |-> IF ~Exists(x) THEN "none" ELSE IF cb[x].sta THEN cb[x].p_pcb ELSE "stopped"]

Handling == [p \in Tepp |-> IF run[p].at \in {"idle", "return"} THEN {} ELSE {run[p].obj}]

Promise == INSTANCE Notifications WITH status <- Status, handling <- Handling

\* A handler begins only on the processor on which its notification is started;
\* an alarm is then stopped, a cyclic notification goes on (alarm.c:492-517,
\* cyclic.c:529-555).
ImplementsNotifications == Promise!NotificationsSpec
================================================================================
