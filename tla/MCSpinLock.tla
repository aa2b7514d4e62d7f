------------------------------ MODULE MCSpinLock ------------------------------
(***************************************************************************)
(* Instances of SpinLock for TLC: two processors; n1 is a native spin      *)
(* lock, e1 an emulated one.                                               *)
(***************************************************************************)
EXTENDS SpinLock

CONSTANTS t1, t2, p1, p2, n1, e1

\* Tasks and processors are alike; only safety is checked with symmetry.
Alike == Permutations(Tsk) \cup Permutations(Prc)
================================================================================
