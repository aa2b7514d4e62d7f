------------------------------- MODULE Resource -------------------------------
(***************************************************************************)
(* What semaphores and memory pools promise: tasks share the units of a    *)
(* resource.  A task waits only while no unit is available; a unit that is *)
(* given back while tasks wait goes to exactly one of them; a task whose   *)
(* wait ends in another way gets nothing.                                  *)
(***************************************************************************)
EXTENDS Naturals

CONSTANTS Tsk, Obj

VARIABLES
    avail,      \* the units of each object that are available
    waiting,    \* the tasks that wait for each object
    result      \* the outcome of the last request of each task

ResourceInit ==
    /\ avail \in [Obj -> Nat]
    /\ waiting = [o \in Obj |-> {}]
    /\ result = [t \in Tsk |-> "none"]

Take(t, o) ==
    /\ avail[o] > 0
    /\ avail' = [avail EXCEPT ![o] = @ - 1]
    /\ result' = [result EXCEPT ![t] = "granted"]
    /\ UNCHANGED waiting

Block(t, o) ==
    /\ avail[o] = 0 /\ result[t] # "pending"
    /\ waiting' = [waiting EXCEPT ![o] = @ \cup {t}]
    /\ result' = [result EXCEPT ![t] = "pending"]
    /\ UNCHANGED avail

Give(o) ==
    /\ waiting[o] = {}
    /\ avail' = [avail EXCEPT ![o] = @ + 1]
    /\ UNCHANGED <<waiting, result>>

Grant(t, o) ==
    /\ t \in waiting[o]
    /\ waiting' = [waiting EXCEPT ![o] = @ \ {t}]
    /\ result' = [result EXCEPT ![t] = "granted"]
    /\ UNCHANGED avail

\* A time-out, a forced release, a termination.
Cancel(t, o) ==
    /\ t \in waiting[o]
    /\ waiting' = [waiting EXCEPT ![o] = @ \ {t}]
    /\ result' = [result EXCEPT ![t] = "none"]
    /\ UNCHANGED avail

\* The end of a task that does not wait.
Forget(t) ==
    /\ result[t] = "granted"
    /\ result' = [result EXCEPT ![t] = "none"]
    /\ UNCHANGED <<avail, waiting>>

\* The object is initialised, deleted or created: all waits end.
Reset(o) ==
    /\ avail'[o] \in Nat
    /\ avail' = [avail EXCEPT ![o] = avail'[o]]
    /\ waiting' = [waiting EXCEPT ![o] = {}]
    /\ result' = [t \in Tsk |-> IF t \in waiting[o] THEN "none" ELSE result[t]]

ResourceNext ==
    \/ \E t \in Tsk, o \in Obj : Take(t, o) \/ Block(t, o) \/ Grant(t, o) \/ Cancel(t, o)
    \/ \E o \in Obj : Give(o) \/ Reset(o)
    \/ \E t \in Tsk : Forget(t)

resourceVars == <<avail, waiting, result>>

ResourceSpec == ResourceInit /\ [][ResourceNext]_resourceVars
================================================================================
