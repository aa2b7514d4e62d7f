------------------------------- MODULE MCSched -------------------------------
(***************************************************************************)
(* Instances of Sched on two processors.  Each group of service calls that *)
(* interact is an instance; a run chooses one of its groups at the start   *)
(* and checks the properties against all the interleavings of the calls on *)
(* the two processors.                                                     *)
(***************************************************************************)
EXTENDS Sched

CONSTANTS A, B, C,    \* tasks
          P1, P2,     \* processors
          Groups      \* the groups of a run

VARIABLE group

TwoTsk == {A, B}
ThreeTsk == {A, B, C}
TwoPrc == {P1, P2}

\* A has the higher priority; C starts on the second processor.
MCipriority == [t \in Tsk |-> IF t = A THEN 0 ELSE TNUM_TPRI - 1]
MCiprcid == [t \in Tsk |-> IF t = C THEN P2 ELSE P1]
\* C may only run where it starts.
MCaffinity == [t \in Tsk |-> IF t = C THEN {P2} ELSE Prc]

CallsOf(g) ==
    CASE \* A task may queue an activation for another processor and be terminated,
         \* or end, on either; interrupt handlers activate tasks as well.
         g = "activate" ->
            {"act_tsk", "mact_tsk", "can_act", "ext_tsk", "ter_tsk", "int"}
         \* Tasks suspend each other across processors, also while dispatching is
         \* disabled, and go to sleep in the transient state.
      [] g = "suspend" ->
            {"sus_tsk", "rsm_tsk", "slp_tsk", "wup_tsk", "can_wup", "mig_tsk", "dis_dsp",
             "ena_dsp", "chg_ipm"}
         \* Runnable, waiting and timed waiting tasks migrate, and the running task.
      [] g = "migrate" ->
            {"mig_tsk", "mig_self", "tslp_tsk", "dly_tsk", "rel_wai", "wup_tsk", "tmo"}
         \* Priorities and sub-priorities change and queues rotate on both processors.
      [] g = "priority" ->
            {"chg_pri", "chg_spr", "rot_rdq", "mrot_rdq", "slp_tsk", "wup_tsk"}
         \* Requested termination against disabled termination and dispatching.
      [] g = "terminate" ->
            {"mact_tsk", "ext_tsk", "ras_ter", "dis_ter", "ena_ter", "dis_dsp", "ena_dsp",
             "chg_ipm", "tslp_tsk", "loc_cpu"}
         \* A task in the transient state migrates itself.
      [] g = "run_suspend" -> {"sus_tsk", "rsm_tsk", "mig_self"}

\* In the first group C has to be activated, and activations of B are not queued.
Group(g) == INSTANCE Sched WITH
    Calls    <- CallsOf(g),
    NoActque <- IF g = "activate" THEN {B} ELSE {},
    TaAct    <- IF g = "activate" THEN TwoTsk ELSE Tsk

MCInit == \E g \in Groups : group = g /\ Group(g)!Init
MCNext == \E g \in Groups : group = g /\ Group(g)!Next /\ UNCHANGED group
MCSpec == MCInit /\ [][MCNext]_<<vars, group>>
==============================================================================
