---------------------------------- MODULE Pool ----------------------------------
(***************************************************************************)
(* What a fixed-size memory pool promises: a block is handed out to one    *)
(* task at a time; tasks wait only while all blocks are handed out, and a  *)
(* block that is returned while tasks wait is passed on to one of them.    *)
(***************************************************************************)
EXTENDS Naturals, FiniteSets

CONSTANTS Tsk, Obj

VARIABLES
    size,       \* the number of blocks of each pool
    held,       \* the blocks that are handed out
    waiting,    \* the tasks that wait for a block of each pool
    got         \* the block that each task has received last

poolVars == <<size, held, waiting, got>>

Take(t, o, b) ==
    /\ b \in (0 .. size[o] - 1) \ held[o]
    /\ held' = [held EXCEPT ![o] = @ \cup {b}]
    /\ got' = [got EXCEPT ![t] = b]
    /\ UNCHANGED <<size, waiting>>

Wait(t, o) ==
    /\ held[o] = 0 .. size[o] - 1
    /\ waiting' = [waiting EXCEPT ![o] = @ \cup {t}]
    /\ UNCHANGED <<size, held, got>>

Return(o, b) ==
    /\ b \in held[o] /\ waiting[o] = {}
    /\ held' = [held EXCEPT ![o] = @ \ {b}]
    /\ UNCHANGED <<size, waiting, got>>

PassOn(t, o, b) ==
    /\ b \in held[o] /\ t \in waiting[o]
    /\ waiting' = [waiting EXCEPT ![o] = @ \ {t}]
    /\ got' = [got EXCEPT ![t] = b]
    /\ UNCHANGED <<size, held>>

GiveUp(t, o) ==
    /\ t \in waiting[o]
    /\ waiting' = [waiting EXCEPT ![o] = @ \ {t}]
    /\ UNCHANGED <<size, held, got>>

\* The pool is initialised, deleted or created: all its blocks are back.
Reset(o) ==
    /\ size' = [size EXCEPT ![o] = size'[o]]
    /\ held' = [held EXCEPT ![o] = {}]
    /\ waiting' = [waiting EXCEPT ![o] = {}]
    /\ UNCHANGED got

PoolInit ==
    /\ held = [o \in Obj |-> {}]
    /\ waiting = [o \in Obj |-> {}]

PoolNext ==
    \E o \in Obj :
        \/ \E t \in Tsk, b \in 0 .. size[o] - 1 : Take(t, o, b) \/ PassOn(t, o, b)
        \/ \E t \in Tsk : Wait(t, o) \/ GiveUp(t, o)
        \/ \E b \in held[o] : Return(o, b)
        \/ Reset(o)

PoolSpec == PoolInit /\ [][PoolNext]_poolVars
================================================================================
