------------------------------ MODULE EventQueue ------------------------------
(***************************************************************************)
(* What the heap of the time events promises, however it is stored: a set  *)
(* of events with their times, of which always one of the earliest is      *)
(* taken.                                                                  *)
(***************************************************************************)
CONSTANTS
    Ev,                \* the events
    Time,              \* the times
    NotLater(_, _)     \* the order of the times

VARIABLES
    queued,            \* the registered events
    time,              \* the time of each event
    first              \* the event that is taken next, if there is one

FirstIsEarliest ==
    queued # {} => first \in queued /\ \A e \in queued : NotLater(time[first], time[e])

QueueInit == queued = {} /\ time \in [Ev -> Time]

Register(e) ==
    /\ e \notin queued /\ queued' = queued \cup {e}
    /\ \E t \in Time : time' = [time EXCEPT ![e] = t]

Remove(e) ==
    /\ e \in queued /\ queued' = queued \ {e}
    /\ \E t \in Time : time' = [time EXCEPT ![e] = t]

RemoveFirst == queued # {} /\ Remove(first)

QueueNext == ((\E e \in Ev : Register(e) \/ Remove(e)) \/ RemoveFirst) /\ FirstIsEarliest'

QueueSpec == QueueInit /\ [][QueueNext]_<<queued, time, first>>
================================================================================
