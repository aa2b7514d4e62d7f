-------------------------------- MODULE MCNotify --------------------------------
(***************************************************************************)
(* An instance of Notify for TLC: an alarm notification of the             *)
(* configuration, and a cyclic and an alarm notification that are created  *)
(* and deleted.  The processor R handles no time events.                   *)
(***************************************************************************)
EXTENDS Notify

CONSTANTS P, Q, R, cyc1, alm1, alm2

StaticPrc == [x \in Static |-> Q]
================================================================================
