------------------------------- MODULE Startup -------------------------------
(***************************************************************************)
(* Start and termination of the kernel (kernel/startup.c).                 *)
(*                                                                         *)
(* Every processor runs sta_ker; its steps are separated by calls of       *)
(* barrier_sync(1) ... barrier_sync(6).  The termination (exit_kernel)     *)
(* reuses the phases 5, 6 and 7 on the same variables, while some of the   *)
(* processors may still be leaving the last barrier of the start: an       *)
(* ext_ker issued by a fast processor reaches them as an interprocessor    *)
(* interrupt as soon as they run tasks.                                    *)
(*                                                                         *)
(* A barrier is modelled access by access: the store to prc_phase, every   *)
(* load of the scan of the master, the store to sys_phase, and the poll.   *)
(***************************************************************************)
EXTENDS Naturals, Sequences, FiniteSets

CONSTANTS TNUM_PRCID,     \* number of processors
          MASTER,         \* TOPPERS_MASTER_PRCID
          TMASTER,        \* TOPPERS_TMASTER_PRCID
          TeppPrc         \* the processors that process time events

Prc == 1 .. TNUM_PRCID

ASSUME PrcAssumption ==
    /\ TNUM_PRCID \in Nat \ {0}
    /\ MASTER \in Prc
    /\ TMASTER \in Prc
    /\ TeppPrc \subseteq Prc

VARIABLES
    prc_phase,   \* phase each processor has announced
    sys_phase,   \* phase the master has released
    pc,          \* control point of each processor
    nb,          \* how many times each processor has called barrier_sync
    idx, count,  \* locals of the scan of the master
    objs,        \* processors that have initialised their objects
    inits,       \* initialisation routine blocks run (0: the global one)
    terms,       \* termination routine blocks run (0: the global one)
    hrtcnt,      \* current_hrtcnt has been read from the timer
    giant_lock,  \* giant lock variable
    kerflg,      \* processors whose kernel is operating
    ext_req      \* processors with a pending request_ext_ker interrupt

vars == <<prc_phase, sys_phase, pc, nb, idx, count, objs, inits, terms,
          hrtcnt, giant_lock, kerflg, ext_req>>

barrier == <<prc_phase, sys_phase, nb, idx, count>>

Control == {"work", "call", "scan", "poll", "locked", "start", "running",
            "halted"}

\* The phases, in the order in which a processor calls barrier_sync.
Phases == <<1, 2, 3, 4, 5, 6, 5, 6, 7>>

\* The number of the last barrier of sta_ker.
LastStart == 6

Init ==
    /\ prc_phase = [p \in Prc |-> 0]
    /\ sys_phase = 0
    /\ pc = [p \in Prc |-> "call"]
    /\ nb = [p \in Prc |-> 0]
    /\ idx = 0 /\ count = 0
    /\ objs = {} /\ inits = {} /\ terms = {}
    /\ hrtcnt = FALSE
    /\ giant_lock = FALSE
    /\ kerflg = {} /\ ext_req = {}

Goto(p, l) == pc' = [pc EXCEPT ![p] = l]

----------------------------------------------------------------------------
\* barrier_sync

BarrierCall(p) ==
    /\ pc[p] = "call"
    /\ nb' = [nb EXCEPT ![p] = @ + 1]
    /\ prc_phase' = [prc_phase EXCEPT ![p] = Phases[nb[p] + 1]]
    /\ IF p = MASTER
         THEN Goto(p, "scan") /\ idx' = 0 /\ count' = 0
         ELSE Goto(p, "poll") /\ UNCHANGED <<idx, count>>
    /\ UNCHANGED <<sys_phase, objs, inits, terms, hrtcnt, giant_lock, kerflg,
                   ext_req>>

\* One load of prc_phase[i].
Scan(p) ==
    /\ pc[p] = "scan"
    /\ idx < TNUM_PRCID
    /\ idx' = idx + 1
    /\ count' = IF prc_phase[idx + 1] = Phases[nb[p]] THEN count + 1 ELSE count
    /\ UNCHANGED <<prc_phase, sys_phase, pc, nb, objs, inits, terms, hrtcnt,
                   giant_lock, kerflg, ext_req>>

\* A fault of the next step: the master does not wait for the last processor.
ScanEndOneShort(p) ==
    /\ pc[p] = "scan"
    /\ idx = TNUM_PRCID
    /\ idx' = 0 /\ count' = 0
    /\ IF count < TNUM_PRCID - 1
         THEN UNCHANGED <<pc, sys_phase>>
         ELSE Goto(p, "work") /\ sys_phase' = Phases[nb[p]]
    /\ UNCHANGED <<prc_phase, nb, objs, inits, terms, hrtcnt, giant_lock,
                   kerflg, ext_req>>

\* The end of one round of the do-while loop.
ScanEnd(p) ==
    /\ pc[p] = "scan"
    /\ idx = TNUM_PRCID
    /\ idx' = 0 /\ count' = 0
    /\ IF count < TNUM_PRCID
         THEN UNCHANGED <<pc, sys_phase>>
         ELSE Goto(p, "work") /\ sys_phase' = Phases[nb[p]]
    /\ UNCHANGED <<prc_phase, nb, objs, inits, terms, hrtcnt, giant_lock,
                   kerflg, ext_req>>

\* A fault of the next step: the phases are taken to increase.
PollAtLeast(p) ==
    /\ pc[p] = "poll"
    /\ sys_phase >= Phases[nb[p]]
    /\ Goto(p, "work")
    /\ UNCHANGED <<barrier, objs, inits, terms, hrtcnt, giant_lock, kerflg,
                   ext_req>>

Poll(p) ==
    /\ pc[p] = "poll"
    /\ sys_phase = Phases[nb[p]]
    /\ Goto(p, "work")
    /\ UNCHANGED <<barrier, objs, inits, terms, hrtcnt, giant_lock, kerflg,
                   ext_req>>

----------------------------------------------------------------------------
\* What sta_ker does after its n-th barrier

AfterBarrier(p, n) == pc[p] = "work" /\ nb[p] = n

TargetInitialize(p) ==
    /\ AfterBarrier(p, 1)
    /\ Goto(p, "call")
    /\ UNCHANGED <<barrier, objs, inits, terms, hrtcnt, giant_lock, kerflg,
                   ext_req>>

InitializeObjects(p) ==
    /\ AfterBarrier(p, 2)
    /\ Goto(p, "call")
    /\ objs' = objs \cup {p}
    /\ giant_lock' = IF p = MASTER THEN FALSE ELSE giant_lock
    /\ UNCHANGED <<barrier, inits, terms, hrtcnt, kerflg, ext_req>>

CallGlobalInirtn(p) ==
    /\ AfterBarrier(p, 3)
    /\ Goto(p, "call")
    /\ inits' = IF p = MASTER THEN inits \cup {0} ELSE inits
    /\ UNCHANGED <<barrier, objs, terms, hrtcnt, giant_lock, kerflg, ext_req>>

CallLocalInirtn(p) ==
    /\ AfterBarrier(p, 4)
    /\ Goto(p, "call")
    /\ inits' = inits \cup {p}
    /\ UNCHANGED <<barrier, objs, terms, hrtcnt, giant_lock, kerflg, ext_req>>

ReadHrtcnt(p) ==
    /\ AfterBarrier(p, 5)
    /\ Goto(p, "call")
    /\ hrtcnt' = (hrtcnt \/ p = TMASTER)
    /\ UNCHANGED <<barrier, objs, inits, terms, giant_lock, kerflg, ext_req>>

\* while (try_glock()): interrupts stay locked, the lock is only tried.
TryGlock(p) ==
    /\ AfterBarrier(p, 6)
    /\ IF p \in TeppPrc
         THEN ~giant_lock /\ giant_lock' = TRUE /\ Goto(p, "locked")
         ELSE UNCHANGED giant_lock /\ Goto(p, "start")
    /\ UNCHANGED <<barrier, objs, inits, terms, hrtcnt, kerflg, ext_req>>

\* A fault of the next step: release_glock is forgotten.
SetHrtEventKeepsGlock(p) ==
    /\ pc[p] = "locked"
    /\ Goto(p, "start")
    /\ UNCHANGED <<giant_lock, barrier, objs, inits, terms, hrtcnt, kerflg,
                   ext_req>>

\* set_hrt_event and release_glock
SetHrtEvent(p) ==
    /\ pc[p] = "locked"
    /\ giant_lock' = FALSE
    /\ Goto(p, "start")
    /\ UNCHANGED <<barrier, objs, inits, terms, hrtcnt, kerflg, ext_req>>

StartDispatch(p) ==
    /\ pc[p] = "start"
    /\ Goto(p, "running")
    /\ kerflg' = kerflg \cup {p}
    /\ UNCHANGED <<barrier, objs, inits, terms, hrtcnt, giant_lock, ext_req>>

----------------------------------------------------------------------------
\* Termination

\* Faults of the next two steps: ext_ker only interrupts the master; the
\* interrupt handler leaves kerflg set.
ExtKerMasterOnly(p) ==
    /\ pc[p] = "running"
    /\ kerflg' = kerflg \ {p}
    /\ ext_req' = ext_req \cup ({MASTER} \ {p})
    /\ Goto(p, "call")
    /\ UNCHANGED <<barrier, objs, inits, terms, hrtcnt, giant_lock>>

ExtKerHandlerKeepsKerflg(p) ==
    /\ pc[p] = "running"
    /\ p \in ext_req
    /\ ext_req' = ext_req \ {p}
    /\ Goto(p, "call")
    /\ UNCHANGED <<kerflg, barrier, objs, inits, terms, hrtcnt, giant_lock>>

ExtKer(p) ==
    /\ pc[p] = "running"
    /\ kerflg' = kerflg \ {p}
    /\ ext_req' = ext_req \cup (Prc \ {p})
    /\ Goto(p, "call")
    /\ UNCHANGED <<barrier, objs, inits, terms, hrtcnt, giant_lock>>

ExtKerHandler(p) ==
    /\ pc[p] = "running"
    /\ p \in ext_req
    /\ ext_req' = ext_req \ {p}
    /\ kerflg' = kerflg \ {p}
    /\ Goto(p, "call")
    /\ UNCHANGED <<barrier, objs, inits, terms, hrtcnt, giant_lock>>

CallLocalTerrtn(p) ==
    /\ AfterBarrier(p, 7)
    /\ Goto(p, "call")
    /\ terms' = terms \cup {p}
    /\ UNCHANGED <<barrier, objs, inits, hrtcnt, giant_lock, kerflg, ext_req>>

CallGlobalTerrtn(p) ==
    /\ AfterBarrier(p, 8)
    /\ Goto(p, "call")
    /\ terms' = IF p = MASTER THEN terms \cup {0} ELSE terms
    /\ UNCHANGED <<barrier, objs, inits, hrtcnt, giant_lock, kerflg, ext_req>>

TargetExit(p) ==
    /\ AfterBarrier(p, 9)
    /\ Goto(p, "halted")
    /\ UNCHANGED <<barrier, objs, inits, terms, hrtcnt, giant_lock, kerflg,
                   ext_req>>

----------------------------------------------------------------------------
\* The steps a processor takes of its own accord; ExtKer is the application's.
Step(p) ==
    \/ BarrierCall(p) \/ Scan(p) \/ ScanEnd(p) \/ Poll(p)
    \/ TargetInitialize(p) \/ InitializeObjects(p) \/ CallGlobalInirtn(p)
    \/ CallLocalInirtn(p) \/ ReadHrtcnt(p) \/ TryGlock(p) \/ SetHrtEvent(p)
    \/ StartDispatch(p) \/ ExtKerHandler(p) \/ CallLocalTerrtn(p)
    \/ CallGlobalTerrtn(p) \/ TargetExit(p)

Next == \E p \in Prc : Step(p) \/ ExtKer(p)

Spec == Init /\ [][Next]_vars

FairSpec == Spec /\ \A p \in Prc : WF_vars(Step(p))

----------------------------------------------------------------------------
\* Every variable holds a value of its C type; nb counts at most the nine
\* calls of barrier_sync that sta_ker and exit_kernel make.
TypeOK ==
    /\ prc_phase \in [Prc -> 0 .. 7]
    /\ sys_phase \in 0 .. 7
    /\ pc \in [Prc -> Control]
    /\ nb \in [Prc -> 0 .. Len(Phases)]
    /\ idx \in 0 .. TNUM_PRCID /\ count \in 0 .. TNUM_PRCID
    /\ objs \subseteq Prc
    /\ inits \subseteq {0} \cup Prc
    /\ terms \subseteq {0} \cup Prc
    /\ hrtcnt \in BOOLEAN /\ giant_lock \in BOOLEAN
    /\ kerflg \subseteq Prc /\ ext_req \subseteq Prc

InBarrier(p) == pc[p] \in {"scan", "poll"}

\* A processor leaves its n-th barrier_sync only after every processor has
\* entered its own n-th call, although the numbers 5 and 6 are announced twice
\* on the same variables.
BarrierHolds ==
    \A p \in Prc : ~InBarrier(p) => \A q \in Prc : nb[q] >= nb[p]

\* When a processor starts to dispatch, the objects of all processors are
\* initialised, all the initialisation routines have run, the global one
\* first, and the time base has been read (the order sta_ker promises).
StartupOrder ==
    /\ inits # {} => objs = Prc
    /\ inits # {} => 0 \in inits
    /\ kerflg # {} => inits = {0} \cup Prc /\ hrtcnt

\* No processor still operates its kernel when a termination routine has run;
\* the global termination routines run after the local ones of all processors,
\* and no processor calls target_exit before them (exit_kernel).
ExitOrder ==
    /\ terms # {} => kerflg = {}
    /\ 0 \in terms => Prc \subseteq terms
    /\ (\E p \in Prc : pc[p] = "halted") => terms = {0} \cup Prc

\* At most one processor is between try_glock and release_glock, and
\* initialize_glock of the master does not break a lock that is held.
GlockExclusive ==
    /\ \A p, q \in Prc : pc[p] = "locked" /\ pc[q] = "locked" => p = q
    /\ giant_lock <=> \E p \in Prc : pc[p] = "locked"

\* Every processor starts to dispatch, unless the kernel terminates meanwhile;
\* no processor stays in a barrier of the start for ever.
StartCompletes == \A p \in Prc : <>(pc[p] = "running")

\* Once one processor has called ext_ker, all processors reach target_exit.
ExitCompletes ==
    (\E p \in Prc : nb[p] > LastStart) ~> (\A p \in Prc : pc[p] = "halted")

==============================================================================
