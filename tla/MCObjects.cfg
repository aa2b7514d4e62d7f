SPECIFICATION MCSpec
CONSTANTS
  NULL = NULL
  INDEX_NULL = INDEX_NULL
  INDEX_ALLOC = INDEX_ALLOC
  H = H
  A = A
  B = B
  C = C
  o1 = o1
  o2 = o2
  d1 = d1
  d2 = d2
  Tsk = {}
  TNUM_TPRI = 1
  ipriority <- NoFunction
  WaitQueue = {}
  Calls = {}
  StaticMtx = {}
  DynamicMtx = {}
  mtxinib <- NoFunction
  T_CMTX = {}
  Cases = {"sem", "sem_create", "flg", "dtq", "dtq_create", "pdq", "pdq_create", "mpf", "mpf_create", "mtx", "mtx_create"}
INVARIANTS WaitsAgree NoVainWait BlocksIntact HoldersAgree
PROPERTIES HandOver ImplementsResources ImplementsChannels
SYMMETRY Alike
CHECK_DEADLOCK FALSE
