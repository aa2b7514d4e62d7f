SPECIFICATION MCSpec
CONSTANTS
  P = P
  Q = Q
  NULL = NULL
  e1 = e1
  e2 = e2
  Cases = {"migrate"}
  Ev = {k1, k2, k3, k4, k5, k6}
  EVT = 8
  Boundary = 6
  Times = {7, 0}
  Prc = {P, Q}
  Tepp = {P, Q}
  TM = P
  TCYC_HRTCNT = 6
  TSTEP_HRTCNT = 1
  HRTCNT_BOUND = 3
  BOUNDARY_MARGIN = 3
  TMAX_RELTIM = 2
  TMAX_ADJTIM = 0
  Latency = 0
  RelTimes = {0, 2}
  Calls = {}
INVARIANT InTime
SYMMETRY Alike
