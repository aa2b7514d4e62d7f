SPECIFICATION MCSpec
CONSTANTS
  A = A
  B = B
  C = C
  P1 = P1
  P2 = P2
  NULL = NULL
  Tsk <- ThreeTsk
  Prc <- TwoPrc
  TNUM_TPRI = 2
  SUBPRI_MAX = 1
  SubprioPri = {1}
  ipriority <- MCipriority
  iprcid <- MCiprcid
  affinity <- MCaffinity
  NoActque = {}
  TaAct <- ThreeTsk
  Calls <- AllCalls
  Groups = {"activate", "migrate", "priority"}
INVARIANTS ContextExclusive ReadyQueueCorrect NoLostDispatch SchedtskIsTop NoStaleResume TasksAgree
PROPERTY MigrateWithContext
CHECK_DEADLOCK FALSE
