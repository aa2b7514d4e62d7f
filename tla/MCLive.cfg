SPECIFICATION FairSpec
CONSTANTS
  NULL = NULL
  GLOCK = GLOCK
  EXIT = EXIT
  A = A
  B = B
  P1 = P1
  P2 = P2
  S = S
  D1 = D1
  D2 = D2
  Q1 = Q1
  Q2 = Q2
  e1 = e1
  n1 = n1
  s1 = s1
  Cases = {"Sched", "DynIsr", "TimeEvent", "SpinLock"}
PROPERTIES SchedtskRuns DeletionEnds EventHappens LockReleased InterruptsAccepted
CHECK_DEADLOCK FALSE
