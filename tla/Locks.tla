--------------------------------- MODULE Locks ---------------------------------
(***************************************************************************)
(* What locks promise, whatever their implementation: a lock has at most   *)
(* one owner, only an owner gives it back, and a processor owns one lock   *)
(* at a time.                                                              *)
(***************************************************************************)
CONSTANTS Lock, Prc, NULL

VARIABLE owner    \* the processor that owns each lock, NULL if it is free

Free == [l \in Lock |-> NULL]

Acquire(p, l) ==
    /\ owner[l] = NULL
    /\ \A m \in Lock : owner[m] # p
    /\ owner' = [owner EXCEPT ![l] = p]

Release(p, l) ==
    /\ owner[l] = p
    /\ owner' = [owner EXCEPT ![l] = NULL]

LocksInit == owner = Free

LocksNext == \E p \in Prc, l \in Lock : Acquire(p, l) \/ Release(p, l)

LocksSpec == LocksInit /\ [][LocksNext]_owner
================================================================================
