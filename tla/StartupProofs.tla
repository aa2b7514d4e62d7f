---------------------------- MODULE StartupProofs ----------------------------
(***************************************************************************)
(* The barriers of the start and of the termination are correct for every  *)
(* number of processors, every master and every set of processors that     *)
(* process time events.                                                    *)
(***************************************************************************)
EXTENDS Startup, TLAPS

----------------------------------------------------------------------------
\* The inductive invariant, in named parts

\* How many barriers the master has released.
Released == IF InBarrier(MASTER) THEN nb[MASTER] - 1 ELSE nb[MASTER]

\* The control point limits the number of barriers called.
ControlInv ==
    \A p \in Prc :
        /\ pc[p] = "call" => nb[p] <= 8
        /\ pc[p] = "work" => nb[p] >= 1
        /\ InBarrier(p) => nb[p] >= 1
        /\ pc[p] = "scan" => p = MASTER
        /\ pc[p] = "poll" => p # MASTER
        /\ pc[p] \in {"locked", "start", "running"} => nb[p] = LastStart
        /\ pc[p] = "halted" => nb[p] = 9

\* What the shared variables announce.
PhaseInv ==
    /\ \A p \in Prc : prc_phase[p] = IF nb[p] = 0 THEN 0 ELSE Phases[nb[p]]
    /\ sys_phase = IF Released = 0 THEN 0 ELSE Phases[Released]

\* A processor is at most one barrier ahead of the master's last release, and
\* then it waits in that barrier.
AheadInv ==
    \A p \in Prc : \/ nb[p] = Released
                   \/ nb[p] = Released + 1 /\ InBarrier(p)

\* While the master scans, the processors it counted have arrived.
ScanInv ==
    pc[MASTER] = "scan" =>
        /\ count <= idx
        /\ count = idx => \A q \in 1 .. idx : nb[q] = Released + 1

BarrierInv == TypeOK /\ ControlInv /\ PhaseInv /\ AheadInv /\ ScanInv

\* p has done its work between its n-th barrier and the next one.
Done(p, n) == \/ nb[p] > n
              \/ nb[p] = n /\ pc[p] # "work" /\ ~InBarrier(p)

\* What the initialisation and termination flags say of the control points.
DataInv ==
    /\ \A p \in Prc : p \in objs <=> Done(p, 2)
    /\ 0 \in inits <=> Done(MASTER, 3)
    /\ \A p \in Prc : p \in inits <=> Done(p, 4)
    /\ hrtcnt <=> Done(TMASTER, 5)
    /\ \A p \in Prc : p \in kerflg <=> pc[p] = "running"
    /\ \A p \in Prc : p \in terms <=> Done(p, 7)
    /\ 0 \in terms <=> Done(MASTER, 8)

----------------------------------------------------------------------------
\* The values of the phases: consecutive calls announce different numbers.
LEMMA PhasesFacts ==
    /\ Len(Phases) = 9
    /\ \A i \in 1 .. 9 : Phases[i] \in 1 .. 7
    /\ \A i \in 1 .. 8 : Phases[i] # Phases[i + 1]
BY DEF Phases

LEMMA PrcFacts ==
    /\ TNUM_PRCID \in Nat /\ TNUM_PRCID > 0
    /\ MASTER \in Prc /\ TMASTER \in Prc
    /\ \A p \in Prc : p \in Nat /\ p >= 1
    /\ 0 \notin Prc
BY PrcAssumption DEF Prc

LEMMA BarrierInvInit == Init => BarrierInv
<1> SUFFICES ASSUME Init PROVE BarrierInv
  OBVIOUS
<1> USE PhasesFacts, PrcFacts DEF Init
<1>1. TypeOK
  <2>1. prc_phase \in [Prc -> 0 .. 7] /\ pc \in [Prc -> Control]
    BY DEF Control
  <2>2. nb \in [Prc -> 0 .. Len(Phases)]
    OBVIOUS
  <2>3. idx \in 0 .. TNUM_PRCID /\ count \in 0 .. TNUM_PRCID /\ sys_phase \in 0 .. 7
    OBVIOUS
  <2> QED
    BY <2>1, <2>2, <2>3, Zenon DEF TypeOK
<1>2. ControlInv
  BY DEF ControlInv, InBarrier
<1>3. PhaseInv /\ AheadInv /\ ScanInv
  BY DEF PhaseInv, AheadInv, ScanInv, Released, InBarrier
<1> QED
  BY <1>1, <1>2, <1>3 DEF BarrierInv

\* The type invariant is preserved by every step.
LEMMA TypeStep ==
    ASSUME TypeOK, ControlInv, ScanInv, NEW p \in Prc, Step(p) \/ ExtKer(p)
    PROVE  TypeOK'
<1> USE PhasesFacts, PrcFacts DEF TypeOK, ControlInv, ScanInv, Control, Goto, barrier
<1>1. CASE BarrierCall(p)
  BY <1>1 DEF BarrierCall
<1>2. CASE Scan(p)
  <2>1. idx' \in 0 .. TNUM_PRCID
    BY <1>2 DEF Scan
  <2>2. CASE count < TNUM_PRCID
    BY <1>2, <2>1, <2>2 DEF Scan
  <2> QED
    BY <1>2, <2>1, <2>2 DEF Scan
<1>3. CASE ScanEnd(p)
  BY <1>3 DEF ScanEnd, InBarrier
<1>4. CASE Poll(p) \/ TargetInitialize(p) \/ InitializeObjects(p)
  BY <1>4 DEF Poll, TargetInitialize, InitializeObjects, AfterBarrier
<1>5. CASE CallGlobalInirtn(p) \/ CallLocalInirtn(p) \/ ReadHrtcnt(p)
  BY <1>5 DEF CallGlobalInirtn, CallLocalInirtn, ReadHrtcnt, AfterBarrier
<1>6. CASE TryGlock(p) \/ SetHrtEvent(p) \/ StartDispatch(p)
  BY ZenonT(40), <1>6 DEF TryGlock, SetHrtEvent, StartDispatch, AfterBarrier
<1>7. CASE ExtKer(p) \/ ExtKerHandler(p)
  BY <1>7 DEF ExtKer, ExtKerHandler
<1>8. CASE CallLocalTerrtn(p) \/ CallGlobalTerrtn(p) \/ TargetExit(p)
  BY <1>8 DEF CallLocalTerrtn, CallGlobalTerrtn, TargetExit, AfterBarrier
<1> QED
  BY <1>1, <1>2, <1>3, <1>4, <1>5, <1>6, <1>7, <1>8 DEF Step

LEMMA ReleasedType == BarrierInv => Released \in 0 .. 9
BY PhasesFacts, PrcFacts
DEF BarrierInv, TypeOK, ControlInv, Released, InBarrier

\* The steps outside a barrier keep the barrier variables, the control points
\* in "scan" and "poll", and the number of barriers called.
LEMMA OutsideStep ==
    ASSUME BarrierInv, NEW p \in Prc, TypeOK',
           ~InBarrier(p), UNCHANGED barrier,
           \E l \in Control \ {"scan", "poll"} : Goto(p, l),
           ControlInv'
    PROVE  PhaseInv' /\ AheadInv' /\ ScanInv'
<1>1. \A q \in Prc : InBarrier(q)' <=> InBarrier(q)
  BY DEF BarrierInv, TypeOK, InBarrier, Goto
<1>2. Released' = Released
  BY <1>1, PrcFacts DEF Released, barrier
<1>3. (pc[MASTER] = "scan")' => pc[MASTER] = "scan"
  BY <1>1, PrcFacts DEF InBarrier, BarrierInv, TypeOK, Goto
<1> QED
  BY <1>1, <1>2, <1>3
  DEF BarrierInv, PhaseInv, AheadInv, ScanInv, barrier

LEMMA BarrierInvStep ==
    ASSUME BarrierInv, NEW p \in Prc, Step(p) \/ ExtKer(p)
    PROVE  BarrierInv'
<1>0. TypeOK'
  BY TypeStep DEF BarrierInv
<1> USE PhasesFacts, PrcFacts
<1>1. ASSUME BarrierCall(p) PROVE BarrierInv'
  <2> USE <1>1 DEF BarrierCall, Goto
  <2>1. ControlInv'
    BY DEF BarrierInv, TypeOK, ControlInv, InBarrier, LastStart
  <2>2. nb[p] = Released /\ ~InBarrier(p)
    BY DEF BarrierInv, AheadInv, InBarrier
  <2>3. Released' = Released
    BY <2>2 DEF BarrierInv, TypeOK, Released, InBarrier
  <2>4. PhaseInv'
    BY <2>2, <2>3 DEF BarrierInv, TypeOK, ControlInv, PhaseInv
  <2>5. AheadInv'
    BY <2>2, <2>3 DEF BarrierInv, TypeOK, AheadInv, InBarrier
  <2>6. ScanInv'
    BY <2>2, <2>3 DEF BarrierInv, TypeOK, ScanInv, Prc
  <2> QED
    BY <1>0, <2>1, <2>4, <2>5, <2>6 DEF BarrierInv
<1>2. ASSUME Scan(p) PROVE BarrierInv'
  <2> USE <1>2 DEF Scan
  <2>1. p = MASTER /\ Released' = Released
    BY DEF BarrierInv, ControlInv, Released, InBarrier
  <2>2. ControlInv' /\ PhaseInv' /\ AheadInv'
    BY <2>1 DEF BarrierInv, ControlInv, PhaseInv, AheadInv, InBarrier
  <2>3. nb[p] = Released + 1
    BY <2>1 DEF BarrierInv, TypeOK, ControlInv, Released, InBarrier
  <2>4. prc_phase[idx + 1] = Phases[nb[p]] => nb[idx + 1] = Released + 1
    BY <2>3 DEF BarrierInv, TypeOK, PhaseInv, AheadInv, Prc
  <2>5. ScanInv'
    BY <2>1, <2>4 DEF BarrierInv, TypeOK, ScanInv
  <2> QED
    BY <1>0, <2>2, <2>5 DEF BarrierInv
<1>3. ASSUME ScanEnd(p) PROVE BarrierInv'
  <2> USE <1>3 DEF ScanEnd, Goto
  <2>1. p = MASTER /\ nb[p] = Released + 1
    BY DEF BarrierInv, TypeOK, ControlInv, Released, InBarrier
  <2>2. ControlInv'
    BY <2>1 DEF BarrierInv, TypeOK, ControlInv, InBarrier
  <2>3. CASE count < TNUM_PRCID
    BY <1>0, <2>2, <2>3
    DEF BarrierInv, PhaseInv, AheadInv, ScanInv, InBarrier, Released, TypeOK
  <2>4. CASE ~(count < TNUM_PRCID)
    <3>1. \A q \in Prc : nb[q] = Released + 1
      BY <2>1, <2>4 DEF BarrierInv, TypeOK, ScanInv, Prc
    <3>2. Released' = Released + 1
      BY <2>1, <2>4 DEF BarrierInv, TypeOK, Released, InBarrier
    <3>3. Released \in Nat
      BY <2>1, ReleasedType
    <3>4. PhaseInv'
      BY <3>2, <3>3, <2>1, <2>4 DEF BarrierInv, TypeOK, PhaseInv
    <3>5. AheadInv'
      BY <3>1, <3>2, <3>3, <2>1, <2>4 DEF BarrierInv, TypeOK, AheadInv
    <3>6. ScanInv'
      BY <2>1, <2>4 DEF BarrierInv, TypeOK, ScanInv
    <3> QED
      BY <1>0, <2>2, <3>4, <3>5, <3>6 DEF BarrierInv
  <2> QED
    BY <2>3, <2>4
<1>4. ASSUME Poll(p) PROVE BarrierInv'
  <2> USE <1>4 DEF Poll, Goto, barrier
  <2>1. p # MASTER /\ nb[p] >= 1
    BY DEF BarrierInv, ControlInv, InBarrier
  <2>2. nb[p] = Released
    <3>1. CASE nb[p] = Released + 1
      <4>1. Released \in 0 .. 8 /\ sys_phase = Phases[Released + 1]
        BY <3>1, ReleasedType DEF BarrierInv, TypeOK
      <4>2. Released # 0 => Phases[Released] # Phases[Released + 1]
        BY <4>1
      <4>3. Phases[Released + 1] # 0
        BY <4>1
      <4> QED
        BY <4>1, <4>2, <4>3 DEF BarrierInv, PhaseInv
    <3> QED
      BY <3>1 DEF BarrierInv, AheadInv
  <2>3. \A q \in Prc : q # p => (InBarrier(q)' <=> InBarrier(q))
    BY DEF BarrierInv, TypeOK, InBarrier
  <2>4. Released' = Released /\ (pc'[MASTER] = pc[MASTER])
    BY <2>1, <2>3 DEF Released, BarrierInv, TypeOK
  <2>5. ControlInv'
    BY <2>1 DEF BarrierInv, TypeOK, ControlInv, InBarrier
  <2>6. PhaseInv' /\ AheadInv' /\ ScanInv'
    BY <2>2, <2>3, <2>4 DEF BarrierInv, PhaseInv, AheadInv, ScanInv
  <2> QED
    BY <1>0, <2>5, <2>6 DEF BarrierInv
<1>5. ASSUME ~(BarrierCall(p) \/ Scan(p) \/ ScanEnd(p) \/ Poll(p))
      PROVE  BarrierInv'
  <2>1. /\ ~InBarrier(p) /\ UNCHANGED barrier
        /\ \E l \in Control \ {"scan", "poll"} : Goto(p, l)
    BY <1>5 DEF Step, TargetInitialize, InitializeObjects, CallGlobalInirtn,
       CallLocalInirtn, ReadHrtcnt, TryGlock, SetHrtEvent, StartDispatch,
       ExtKer, ExtKerHandler, CallLocalTerrtn, CallGlobalTerrtn, TargetExit,
       AfterBarrier, InBarrier, barrier, Control
  <2>2. ControlInv'
    <3>0. ControlInv /\ pc \in [Prc -> Control] /\ nb \in [Prc -> 0 .. 9]
      BY DEF BarrierInv, TypeOK
    <3> USE <3>0 DEF AfterBarrier, InBarrier, barrier, Goto, ControlInv, LastStart
    <3>1. CASE TargetInitialize(p)
      BY <3>1 DEF TargetInitialize
    <3>6. CASE InitializeObjects(p)
      BY <3>6 DEF InitializeObjects
    <3>5. CASE CallGlobalInirtn(p) \/ CallLocalInirtn(p) \/ ReadHrtcnt(p)
      BY <3>5 DEF CallGlobalInirtn, CallLocalInirtn, ReadHrtcnt
    <3>2. CASE TryGlock(p) \/ SetHrtEvent(p) \/ StartDispatch(p)
      BY <3>2 DEF TryGlock, SetHrtEvent, StartDispatch
    <3>3. CASE ExtKer(p) \/ ExtKerHandler(p)
      BY <3>3 DEF ExtKer, ExtKerHandler
    <3>4. CASE CallLocalTerrtn(p) \/ CallGlobalTerrtn(p) \/ TargetExit(p)
      BY <3>4 DEF CallLocalTerrtn, CallGlobalTerrtn, TargetExit
    <3> QED
      BY <1>5, <3>1, <3>2, <3>3, <3>4, <3>5, <3>6 DEF Step
  <2> QED
    BY <1>0, <2>1, <2>2, OutsideStep DEF BarrierInv
<1> QED
  BY <1>1, <1>2, <1>3, <1>4, <1>5

LEMMA BarrierInvSpec == Spec => []BarrierInv
<1>1. BarrierInv /\ UNCHANGED vars => BarrierInv'
  BY DEF vars, BarrierInv, TypeOK, ControlInv, PhaseInv, AheadInv, ScanInv,
     InBarrier, Released
<1>2. BarrierInv /\ [Next]_vars => BarrierInv'
  BY <1>1, BarrierInvStep DEF Next
<1> QED
  BY BarrierInvInit, <1>2, PTL DEF Spec

\* Type correctness, for every number of processors.
THEOREM TypeCorrect == Spec => []TypeOK
<1>1. BarrierInv => TypeOK
  BY DEF BarrierInv
<1> QED
  BY <1>1, BarrierInvSpec, PTL

\* No processor leaves its n-th barrier before all have entered theirs.
THEOREM BarrierCorrect == Spec => []BarrierHolds
<1>1. BarrierInv => BarrierHolds
  BY PrcFacts DEF BarrierInv, TypeOK, AheadInv, BarrierHolds
<1> QED
  BY <1>1, BarrierInvSpec, PTL

----------------------------------------------------------------------------
LEMMA DataInvInit == Init => DataInv
BY PrcFacts DEF Init, DataInv, Done, InBarrier

LEMMA DataInvStep ==
    ASSUME BarrierInv, BarrierInv', DataInv, NEW p \in Prc, Step(p) \/ ExtKer(p)
    PROVE  DataInv'
<1> USE PrcFacts
<1>0. /\ pc \in [Prc -> Control] /\ nb \in [Prc -> 0 .. 9] /\ ControlInv
      /\ pc' \in [Prc -> Control] /\ nb' \in [Prc -> 0 .. 9]
      /\ hrtcnt \in BOOLEAN
  BY PhasesFacts DEF BarrierInv, TypeOK
<1> USE <1>0 DEF Goto, Control, barrier, LastStart
<1>1. ASSUME BarrierCall(p) \/ Scan(p) \/ ScanEnd(p) \/ Poll(p)
      PROVE  DataInv'
  <2>1. UNCHANGED <<objs, inits, terms, hrtcnt, kerflg>>
    BY <1>1 DEF BarrierCall, Scan, ScanEnd, Poll
  <2>2. \A q \in Prc : \A n \in 1 .. 9 : Done(q, n)' <=> Done(q, n)
    <3>1. CASE BarrierCall(p)
      BY <3>1 DEF BarrierCall, Done, InBarrier
    <3>2. CASE Scan(p)
      BY <3>2 DEF Scan, Done, InBarrier
    <3>3. CASE ScanEnd(p)
      BY <3>3 DEF ScanEnd, Done, InBarrier
    <3>4. CASE Poll(p)
      BY <3>4 DEF Poll, Done, InBarrier
    <3> QED
      BY <1>1, <3>1, <3>2, <3>3, <3>4
  <2>3. \A q \in Prc : (pc[q] = "running")' <=> pc[q] = "running"
    BY <1>1 DEF BarrierCall, Scan, ScanEnd, Poll
  <2> QED
    BY <2>1, <2>2, <2>3 DEF DataInv
\* The steps that change no flag and finish no work of a flag.
<1>2. ASSUME TargetInitialize(p) \/ TryGlock(p) \/ SetHrtEvent(p) \/ TargetExit(p)
      PROVE  DataInv'
  <2>1. UNCHANGED <<objs, inits, terms, hrtcnt, kerflg>>
    BY <1>2 DEF TargetInitialize, TryGlock, SetHrtEvent, TargetExit
  <2>2. \A q \in Prc : \A n \in {2, 3, 4, 5, 7, 8} : Done(q, n)' <=> Done(q, n)
    BY <1>2 DEF TargetInitialize, TryGlock, SetHrtEvent, TargetExit,
                AfterBarrier, Done, InBarrier, ControlInv
  <2>3. \A q \in Prc : (pc[q] = "running")' <=> pc[q] = "running"
    BY <1>2 DEF TargetInitialize, TryGlock, SetHrtEvent, TargetExit,
                AfterBarrier
  <2> QED
    BY <2>1, <2>2, <2>3 DEF DataInv
<1>3. ASSUME StartDispatch(p) \/ ExtKer(p) \/ ExtKerHandler(p)
      PROVE  DataInv'
  <2>1. UNCHANGED <<objs, inits, terms, hrtcnt>>
    BY <1>3 DEF StartDispatch, ExtKer, ExtKerHandler
  <2>2. \A q \in Prc : \A n \in 1 .. 9 : Done(q, n)' <=> Done(q, n)
    BY <1>3 DEF StartDispatch, ExtKer, ExtKerHandler, Done, InBarrier
  <2>3. \A q \in Prc : q \in kerflg' <=> (pc[q] = "running")'
    BY <1>3 DEF StartDispatch, ExtKer, ExtKerHandler, DataInv
  <2> QED
    BY <2>1, <2>2, <2>3 DEF DataInv
\* The six steps that set a flag: each one finishes the work of one barrier.
<1>4. ASSUME InitializeObjects(p) PROVE DataInv'
  <2> USE <1>4 DEF InitializeObjects, AfterBarrier
  <2>1. \A q \in Prc : \A n \in 3 .. 9 : Done(q, n)' <=> Done(q, n)
    BY DEF Done, InBarrier
  <2>2. \A q \in Prc : Done(q, 2)' <=> (Done(q, 2) \/ q = p)
    BY DEF Done, InBarrier
  <2>3. \A q \in Prc : (pc[q] = "running")' <=> pc[q] = "running"
    OBVIOUS
  <2> QED
    BY <2>1, <2>2, <2>3 DEF DataInv
<1>5. ASSUME CallGlobalInirtn(p) PROVE DataInv'
  <2> USE <1>5 DEF CallGlobalInirtn, AfterBarrier
  <2>1. \A q \in Prc : \A n \in 1 .. 9 : n # 3 => (Done(q, n)' <=> Done(q, n))
    BY DEF Done, InBarrier
  <2>2. \A q \in Prc : Done(q, 3)' <=> (Done(q, 3) \/ q = p)
    BY DEF Done, InBarrier
  <2>3. \A q \in Prc : (pc[q] = "running")' <=> pc[q] = "running"
    OBVIOUS
  <2> QED
    BY <2>1, <2>2, <2>3 DEF DataInv
<1>6. ASSUME CallLocalInirtn(p) PROVE DataInv'
  <2> USE <1>6 DEF CallLocalInirtn, AfterBarrier
  <2>1. \A q \in Prc : \A n \in 1 .. 9 : n # 4 => (Done(q, n)' <=> Done(q, n))
    BY DEF Done, InBarrier
  <2>2. \A q \in Prc : Done(q, 4)' <=> (Done(q, 4) \/ q = p)
    BY DEF Done, InBarrier
  <2>3. \A q \in Prc : (pc[q] = "running")' <=> pc[q] = "running"
    OBVIOUS
  <2> QED
    BY <2>1, <2>2, <2>3 DEF DataInv
<1>7. ASSUME ReadHrtcnt(p) PROVE DataInv'
  <2> USE <1>7 DEF ReadHrtcnt, AfterBarrier
  <2>1. \A q \in Prc : \A n \in 1 .. 9 : n # 5 => (Done(q, n)' <=> Done(q, n))
    BY DEF Done, InBarrier
  <2>2. \A q \in Prc : Done(q, 5)' <=> (Done(q, 5) \/ q = p)
    BY DEF Done, InBarrier
  <2>3. \A q \in Prc : (pc[q] = "running")' <=> pc[q] = "running"
    OBVIOUS
  <2>4. hrtcnt' <=> (hrtcnt \/ p = TMASTER)
    OBVIOUS
  <2>5. UNCHANGED <<objs, inits, terms, kerflg>>
    OBVIOUS
  <2> HIDE DEF ReadHrtcnt
  <2> QED
    BY <2>1, <2>2, <2>3, <2>4, <2>5 DEF DataInv
<1>8. ASSUME CallLocalTerrtn(p) PROVE DataInv'
  <2> USE <1>8 DEF CallLocalTerrtn, AfterBarrier
  <2>1. \A q \in Prc : \A n \in 1 .. 9 : n # 7 => (Done(q, n)' <=> Done(q, n))
    BY DEF Done, InBarrier
  <2>2. \A q \in Prc : Done(q, 7)' <=> (Done(q, 7) \/ q = p)
    BY DEF Done, InBarrier
  <2>3. \A q \in Prc : (pc[q] = "running")' <=> pc[q] = "running"
    OBVIOUS
  <2> QED
    BY <2>1, <2>2, <2>3 DEF DataInv
<1>9. ASSUME CallGlobalTerrtn(p) PROVE DataInv'
  <2> USE <1>9 DEF CallGlobalTerrtn, AfterBarrier
  <2>1. \A q \in Prc : \A n \in 1 .. 9 : n # 8 => (Done(q, n)' <=> Done(q, n))
    BY DEF Done, InBarrier
  <2>2. \A q \in Prc : Done(q, 8)' <=> (Done(q, 8) \/ q = p)
    BY DEF Done, InBarrier
  <2>3. \A q \in Prc : (pc[q] = "running")' <=> pc[q] = "running"
    OBVIOUS
  <2> QED
    BY <2>1, <2>2, <2>3 DEF DataInv
<1> QED
  BY <1>1, <1>2, <1>3, <1>4, <1>5, <1>6, <1>7, <1>8, <1>9 DEF Step

LEMMA DataInvSpec == Spec => [](BarrierInv /\ DataInv)
<1>1. DataInv /\ UNCHANGED vars => DataInv'
  BY DEF vars, DataInv, Done, InBarrier
<1>2. BarrierInv /\ BarrierInv' /\ DataInv /\ [Next]_vars => DataInv'
  BY <1>1, DataInvStep DEF Next
<1> QED
  BY BarrierInvSpec, DataInvInit, <1>2, PTL DEF Spec

----------------------------------------------------------------------------
\* A processor that is past barrier n has seen every processor enter it, so
\* every processor has done its work of the barriers before n.
LEMMA PastBarrier ==
    ASSUME BarrierInv, NEW p \in Prc, NEW n \in 2 .. 9, nb[p] >= n, ~InBarrier(p),
           NEW q \in Prc, NEW m \in 1 .. 8, m < n
    PROVE  Done(q, m)
<1>1. nb[q] \in Nat /\ nb[p] \in Nat
  BY DEF BarrierInv, TypeOK
<1>2. nb[q] >= nb[p]
  BY PrcFacts, SMTT(30) DEF BarrierInv, TypeOK, AheadInv
<1>3. nb[q] > m
  BY <1>1, <1>2
<1> QED
  BY <1>3 DEF Done

\* The work of barrier n done, or a later barrier entered: barrier n - 1 holds
\* behind every processor.
LEMMA DoneAfter ==
    ASSUME BarrierInv, NEW p \in Prc, NEW n \in 2 .. 9, Done(p, n),
           NEW q \in Prc, NEW m \in 1 .. 8, m < n
    PROVE  Done(q, m)
<1>1. CASE nb[p] = n /\ ~InBarrier(p)
  <2>1. nb[p] >= n
    BY <1>1
  <2> QED
    BY <1>1, <2>1, PastBarrier
<1>2. CASE nb[p] > n
  <2>1. nb[q] >= n
    BY <1>2, PrcFacts, PhasesFacts, ReleasedType DEF BarrierInv, TypeOK, AheadInv
  <2> QED
    BY <2>1, PhasesFacts DEF BarrierInv, TypeOK, Done
<1> QED
  BY <1>1, <1>2 DEF Done

\* The order in which sta_ker promises to initialise the system.
THEOREM StartupCorrect == Spec => []StartupOrder
<1>1. ASSUME BarrierInv, DataInv PROVE StartupOrder
  <2> USE <1>1, PrcFacts
  <2>1. ASSUME NEW p \in Prc, Done(p, 4) PROVE objs = Prc /\ 0 \in inits
    <3>1. \A q \in Prc : Done(q, 2) /\ Done(q, 3)
      BY <2>1, DoneAfter
    <3> QED
      BY <3>1 DEF DataInv, BarrierInv, TypeOK
  <2>2. ASSUME Done(MASTER, 3) PROVE objs = Prc
    <3>1. \A q \in Prc : Done(q, 2)
      BY <2>2, DoneAfter
    <3> QED
      BY <3>1 DEF DataInv, BarrierInv, TypeOK
  <2>3. inits # {} => objs = Prc /\ 0 \in inits
    BY <2>1, <2>2 DEF DataInv, BarrierInv, TypeOK
  <2>4. ASSUME NEW p \in Prc, p \in kerflg
        PROVE  inits = {0} \cup Prc /\ hrtcnt
    <3>1. nb[p] = 6 /\ ~InBarrier(p)
      BY <2>4 DEF BarrierInv, ControlInv, DataInv, LastStart, InBarrier
    <3>2. \A q \in Prc : Done(q, 3) /\ Done(q, 4) /\ Done(q, 5)
      BY <3>1, PastBarrier
    <3> QED
      BY <3>2 DEF DataInv, BarrierInv, TypeOK
  <2> QED
    BY <2>3, <2>4 DEF StartupOrder, BarrierInv, TypeOK
<1> QED
  BY <1>1, DataInvSpec, PTL

\* No processor runs tasks once a termination routine runs; global routines
\* come after all local ones, and target_exit after all of them.
THEOREM ExitCorrect == Spec => []ExitOrder
<1>1. ASSUME BarrierInv, DataInv PROVE ExitOrder
  <2> USE <1>1, PrcFacts
  <2>1. ASSUME NEW p \in Prc, Done(p, 7) PROVE kerflg = {}
    <3>1. \A q \in Prc : nb[q] > 6 \/ pc[q] # "running"
      <4>1. \A q \in Prc : nb[q] >= 7
        BY <2>1, PhasesFacts, ReleasedType
        DEF Done, BarrierInv, TypeOK, AheadInv
      <4> QED
        BY <4>1, PhasesFacts DEF BarrierInv, TypeOK
    <3> QED
      BY <3>1 DEF DataInv, BarrierInv, TypeOK, ControlInv, LastStart
  <2>2. Done(MASTER, 8) => \A q \in Prc : Done(q, 7)
    BY DoneAfter
  <2>3. ASSUME NEW p \in Prc, pc[p] = "halted"
        PROVE  Done(MASTER, 8)
    <3>1. nb[p] = 9 /\ ~InBarrier(p)
      BY <2>3 DEF BarrierInv, ControlInv, InBarrier
    <3> QED
      BY <3>1, PastBarrier
  <2> QED
    BY <2>1, <2>2, <2>3 DEF ExitOrder, DataInv, BarrierInv, TypeOK
<1> QED
  BY <1>1, DataInvSpec, PTL

\* The giant lock is initialised before any processor may try it, and it is
\* exclusive during the start.
THEOREM GlockCorrect == Spec => []GlockExclusive
<1>1. Init => GlockExclusive
  BY DEF Init, GlockExclusive
<1>2. ASSUME BarrierInv, GlockExclusive, NEW p \in Prc, Step(p) \/ ExtKer(p)
      PROVE  GlockExclusive'
  <2>1. pc \in [Prc -> Control]
    BY <1>2 DEF BarrierInv, TypeOK
  <2> USE <1>2, <2>1, PrcFacts DEF GlockExclusive, Goto
  <2>2. CASE InitializeObjects(p)
    <3>1. ASSUME p = MASTER, NEW q \in Prc PROVE pc[q] # "locked"
      <4>1. nb[q] <= 3
        BY <2>2, <3>1, PhasesFacts, ReleasedType
        DEF InitializeObjects, AfterBarrier, InBarrier, BarrierInv, TypeOK,
            AheadInv
      <4> QED
        BY <4>1 DEF BarrierInv, ControlInv, LastStart
    <3> QED
      BY <2>2, <3>1 DEF InitializeObjects, AfterBarrier
  <2>3. CASE TryGlock(p)
    BY <2>3 DEF TryGlock, AfterBarrier
  <2>4. CASE SetHrtEvent(p)
    BY <2>4 DEF SetHrtEvent
  <2>5. CASE ~(InitializeObjects(p) \/ TryGlock(p) \/ SetHrtEvent(p))
    <3>1. /\ giant_lock' = giant_lock
          /\ \A q \in Prc : (pc[q] = "locked")' <=> pc[q] = "locked"
      BY <2>5 DEF Step, BarrierCall, Scan, ScanEnd, Poll, TargetInitialize,
         CallGlobalInirtn, CallLocalInirtn, ReadHrtcnt, StartDispatch, ExtKer,
         ExtKerHandler, CallLocalTerrtn, CallGlobalTerrtn, TargetExit,
         AfterBarrier
    <3> QED
      BY <3>1
  <2> QED
    BY <2>2, <2>3, <2>4, <2>5
<1>3. GlockExclusive /\ UNCHANGED vars => GlockExclusive'
  BY DEF GlockExclusive, vars
<1>4. BarrierInv /\ GlockExclusive /\ [Next]_vars => GlockExclusive'
  BY <1>2, <1>3 DEF Next
<1> QED
  BY <1>1, <1>4, BarrierInvSpec, PTL DEF Spec
==============================================================================
