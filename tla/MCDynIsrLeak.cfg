SPECIFICATION Spec
CONSTANTS
  S = S
  D1 = D1
  D2 = D2
  D3 = D3
  Q1 = Q1
  P1 = P1
  P2 = P2
  T1 = T1
  T2 = T2
  NULL = NULL
  Isr <- MixedIsr
  StaticIsr <- MCStatic
  Que <- OneQue
  Prc <- MCPrc
  Tsk <- MCTsk
  IsrPri = {1, 2}
  SPri <- MCSPri
  SQue <- MCSQue
  Terminable = {T1}
  MaxSeq = 4
INVARIANTS
  BlockPlaces
