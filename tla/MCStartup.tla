------------------------------ MODULE MCStartup ------------------------------
(* Three processors; processor 2 is the master, 1 the time master, and only  *)
(* 1 and 3 process time events.                                              *)
EXTENDS Startup

MCTeppPrc == {1, 3}
==============================================================================
