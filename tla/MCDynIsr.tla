------------------------------ MODULE MCDynIsr ------------------------------
(* Three blocks, on two processors, and two tasks of which others may         *)
(* terminate one.  With a static routine the queue is never empty.           *)
EXTENDS DynIsr, TLC

CONSTANTS S, D1, D2, D3, Q1, P1, P2, T1, T2

DynamicIsr == {D1, D2, D3}
MixedIsr == {S, D1, D2}
MCStatic == {S}
OneQue == {Q1}
MCPrc == {P1, P2}
MCTsk == {T1, T2}
MCSPri == S :> 1
MCSQue == S :> Q1
NoSPri == [i \in {} |-> 1]
NoSQue == [i \in {} |-> Q1]
=============================================================================
