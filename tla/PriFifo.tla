--------------------------------- MODULE PriFifo ---------------------------------
(***************************************************************************)
(* What a priority data queue promises: one FIFO for each data priority; a *)
(* receiver gets the oldest data of the highest priority there is.  A      *)
(* sender that waits stops waiting when its data are put in or handed      *)
(* over.                                                                   *)
(***************************************************************************)
EXTENDS Naturals, Sequences

CONSTANTS Tsk, Obj, Data, DPri

VARIABLES
    chan,    \* the data in each queue by priority; a smaller number is higher
    asks,    \* the tasks that wait to send to each queue
    got      \* what each task has received last, or waits to send

priVars == <<chan, asks, got>>

FirstPri(c) == CHOOSE p \in DPri : c[p] # << >> /\ \A q \in DPri : c[q] # << >> => p <= q

IsEmpty(c) == \A p \in DPri : c[p] = << >>

Added(c, item) == [c EXCEPT ![item.datapri] = Append(@, item.data)]

Put(o, item) ==
    /\ asks[o] = {}
    /\ chan' = [chan EXCEPT ![o] = Added(@, item)]
    /\ UNCHANGED <<asks, got>>

Taken(o, t) ==
    /\ ~IsEmpty(chan[o])
    /\ LET p == FirstPri(chan[o])
       IN  got' = [got EXCEPT ![t] = [datapri |-> p, data |-> Head(chan[o][p])]]

Rest(o) == [chan[o] EXCEPT ![FirstPri(chan[o])] = Tail(@)]

Get(o, t) ==
    /\ asks[o] = {} /\ Taken(o, t)
    /\ chan' = [chan EXCEPT ![o] = Rest(o)]
    /\ UNCHANGED asks

\* The task s waits no longer to send to o.
Leaves(o, s) == s \in asks[o] /\ asks' = [asks EXCEPT ![o] = @ \ {s}]

\* The room goes to a waiting sender.
Exchange(o, t, s) ==
    /\ Taken(o, t) /\ Leaves(o, s)
    /\ chan' = [chan EXCEPT ![o] = Added(Rest(o), got[s])]

\* Data go to a waiting receiver at once, or to a receiver from a waiting sender.
Pass(o, t, item) ==
    /\ IsEmpty(chan[o])
    /\ \/ asks[o] = {} /\ UNCHANGED asks
       \/ \E s \in asks[o] : item = got[s] /\ Leaves(o, s)
    /\ got' = [got EXCEPT ![t] = item]
    /\ UNCHANGED chan

\* A sender waits: it has no use any more for what it had received.
Ask(o, t, item) ==
    /\ \A q \in Obj : t \notin asks[q]
    /\ asks' = [asks EXCEPT ![o] = @ \cup {t}]
    /\ got' = [got EXCEPT ![t] = item]
    /\ UNCHANGED chan

\* The wait of a sender ends without success: its data are not sent.
Withdraw(o, s) == Leaves(o, s) /\ UNCHANGED <<chan, got>>

\* The queue is initialised, deleted or created.
Reset(o) ==
    /\ chan' = [chan EXCEPT ![o] = [p \in DPri |-> << >>]]
    /\ asks' = [asks EXCEPT ![o] = {}]
    /\ UNCHANGED got

PriFifoInit ==
    /\ chan = [o \in Obj |-> [p \in DPri |-> << >>]]
    /\ asks = [o \in Obj |-> {}]

PriFifoNext ==
    \E o \in Obj :
        \/ \E item \in [datapri: DPri, data: Data] :
              Put(o, item) \/ \E t \in Tsk : Pass(o, t, item) \/ Ask(o, t, item)
        \/ \E t \in Tsk : Get(o, t) \/ Withdraw(o, t) \/ \E s \in Tsk : Exchange(o, t, s)
        \/ Reset(o)

PriFifoSpec == PriFifoInit /\ [][PriFifoNext]_priVars
================================================================================
