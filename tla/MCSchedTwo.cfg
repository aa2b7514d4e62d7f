SPECIFICATION MCSpec
CONSTANTS
  A = A
  B = B
  C = C
  P1 = P1
  P2 = P2
  NULL = NULL
  Tsk <- TwoTsk
  Prc <- TwoPrc
  TNUM_TPRI = 2
  SUBPRI_MAX = 0
  SubprioPri = {}
  ipriority <- MCipriority
  iprcid <- MCiprcid
  affinity <- MCaffinity
  NoActque = {}
  TaAct <- TwoTsk
  Calls <- AllCalls
  Groups = {"suspend", "terminate"}
INVARIANT NothingKeptBack
PROPERTY SuspensionHolds
CHECK_DEADLOCK FALSE
