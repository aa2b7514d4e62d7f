---------------------------------- MODULE Fifo ----------------------------------
(***************************************************************************)
(* What a data queue in FIFO order promises.  chan is all that has been    *)
(* sent and not received: what the queue has room for, and behind it what  *)
(* the waiting senders hold.                                               *)
(***************************************************************************)
EXTENDS Naturals, SequencesExt

CONSTANTS Tsk, Obj, Data

VARIABLES
    cap,     \* the room in each queue
    chan,    \* what has been sent, in order
    got      \* what each task has received last, or waits to send

fifoVars == <<cap, chan, got>>

Put(o, d) ==
    /\ chan' = [chan EXCEPT ![o] = Append(@, d)]
    /\ UNCHANGED <<cap, got>>

\* By a task that waits: it has no use any more for what it had received.
PutWaiting(o, t, d) ==
    /\ chan' = [chan EXCEPT ![o] = Append(@, d)]
    /\ got' = [got EXCEPT ![t] = d]
    /\ UNCHANGED cap

\* The oldest element makes room for a new one; waiting senders come after it.
Force(o, d) ==
    /\ cap[o] > 0 /\ Len(chan[o]) >= cap[o]
    /\ chan' = [chan EXCEPT ![o] = Tail(InsertAt(@, cap[o] + 1, d))]
    /\ UNCHANGED <<cap, got>>

\* The first element goes to one task.
Get(o, t) ==
    /\ chan[o] # << >>
    /\ got' = [got EXCEPT ![t] = Head(chan[o])]
    /\ chan' = [chan EXCEPT ![o] = Tail(@)]
    /\ UNCHANGED cap

\* An element goes to a waiting task at once.
Pass(o, t, d) ==
    /\ chan[o] = << >>
    /\ got' = [got EXCEPT ![t] = d]
    /\ UNCHANGED <<cap, chan>>

\* The wait of a sender ends without success: its element is not sent.
Withdraw(o, i) ==
    /\ i > cap[o]
    /\ chan' = [chan EXCEPT ![o] = RemoveAt(@, i)]
    /\ UNCHANGED <<cap, got>>

\* The queue is initialised, deleted or created.
Reset(o) ==
    /\ chan' = [chan EXCEPT ![o] = << >>]
    /\ cap' = [cap EXCEPT ![o] = cap'[o]]
    /\ UNCHANGED got

FifoInit == chan = [o \in Obj |-> << >>]

FifoNext ==
    \E o \in Obj :
        \/ \E d \in Data : Put(o, d) \/ Force(o, d)
        \/ \E t \in Tsk : Get(o, t) \/ \E d \in Data : Pass(o, t, d) \/ PutWaiting(o, t, d)
        \/ \E i \in DOMAIN chan[o] : Withdraw(o, i)
        \/ Reset(o)

FifoSpec == FifoInit /\ [][FifoNext]_fifoVars
================================================================================
