SPECIFICATION FairSpec
CONSTANTS
    TNUM_PRCID = 3
    MASTER = 2
    TMASTER = 1
    TeppPrc <- MCTeppPrc
INVARIANTS
    BarrierHolds
    StartupOrder
    ExitOrder
PROPERTIES
    StartCompletes
    ExitCompletes
\* All processors may be halted.
CHECK_DEADLOCK FALSE
