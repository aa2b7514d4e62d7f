SPECIFICATION Spec
CONSTANTS
  P = P
  Q = Q
  R = R
  cyc1 = cyc1
  alm1 = alm1
  alm2 = alm2
  Prc = {P, Q, R}
  Tepp = {P, Q}
  MASTER = P
  Cyc = {cyc1}
  Alm = {alm1, alm2}
  Static = {alm1}
  iprcid <- StaticPrc
  Handler = {hdr}
INVARIANTS StartedIsRegistered EventBlockIntact
PROPERTY ImplementsNotifications
