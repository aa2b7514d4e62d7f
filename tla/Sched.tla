-------------------------------- MODULE Sched --------------------------------
(***************************************************************************)
(* The processors of the kernel at work: the task service calls            *)
(* (task_manage.c, task_term.c, task_sync.c, part of sys_manage.c and      *)
(* interrupt.c), the dispatcher and the interrupt entry and exit           *)
(* (arch/riscv_gcc/common/core_support.S).                                 *)
(*                                                                         *)
(* Every service call runs its critical section under the giant lock, and  *)
(* that section is one step here.  What follows the release of the lock is *)
(* not protected and is a step of its own: dispatch saves the context of   *)
(* the running task, the dispatcher loads p_schedtsk into p_runtsk, the    *)
(* task resumes.  Other processors may do anything between those steps.    *)
(* A processor that spins for the giant lock has not left its location:    *)
(* acquire_glock opens the CPU lock while it waits, so that the task can   *)
(* be interrupted there.                                                   *)
(*                                                                         *)
(* A call that fails its checks changes nothing and is not a step.         *)
(***************************************************************************)
EXTENDS Task

CONSTANT Calls      \* the service calls and events that the instance uses

VARIABLES
    ker,            \* the kernel data that the giant lock protects (Task)
    run,            \* p_runtsk of each processor
    mode,           \* what each processor executes
    at              \* where the running task is, if it holds the processor

vars == <<ker, run, mode, at>>

\* task: the running task; int: an interrupt handler; save: dispatch or the
\* interrupt exit, before the context is saved; disp: the dispatcher; switch:
\* the dispatcher has stored p_runtsk; idle: the idle loop of the dispatcher.
Modes == {"task", "int", "save", "disp", "switch", "idle"}

\* locked: CPU locked by loc_cpu, no kernel interrupt is accepted.
Places == Locations \cup {"locked"}

AllCalls == {"act_tsk", "mact_tsk", "can_act", "mig_tsk", "mig_self", "chg_pri",
             "chg_spr", "ext_tsk", "ras_ter", "dis_ter", "ena_ter", "ter_tsk",
             "slp_tsk", "tslp_tsk", "dly_tsk", "wup_tsk", "can_wup", "rel_wai",
             "sus_tsk", "rsm_tsk", "rot_rdq", "mrot_rdq", "loc_cpu", "dis_dsp",
             "ena_dsp", "chg_ipm", "int", "tmo"}

ASSUME CallsAssumption == Calls \subseteq AllCalls

tcb == ker.tcb
pcb == ker.pcb

----------------------------------------------------------------------------
\* The state after initialize_task on every processor, at start_dispatch.
\* torder_table may order the tasks in any way.

InitialTcb ==
    [t \in Tsk |->
        [tstat |-> IF t \in TaAct THEN {"RUNNABLE"} ELSE DORMANT,
         bpriority |-> ipriority[t], priority |-> ipriority[t],
         actque |-> FALSE, wupque |-> FALSE, raster |-> FALSE, enater |-> TRUE,
         boosted |-> FALSE, subpri |-> SUBPRI_MAX, p_pcb |-> iprcid[t],
         actprc |-> NULL, tmevtb |-> NULL,
         tskctxb |-> IF t \in TaAct THEN "start_r" ELSE "none"]]

ReadyAtStart(p, pri) == {t \in TaAct : iprcid[t] = p /\ ipriority[t] = pri}

InitialPcb(rq, p) ==
    LET used == {pri \in Pri : ReadyAtStart(p, pri) # {}}
    IN  [p_schedtsk |-> IF used = {} THEN NULL
                        ELSE Head(rq[p][CHOOSE pri \in used :
                                            \A other \in used : pri <= other]),
         enadsp |-> TRUE, dspflg |-> TRUE, ipm |-> FALSE,
         ready_queue |-> rq[p], ready_primap |-> used]

Init ==
    /\ \E rq \in [Prc -> [Pri -> Arrangements(TaAct)]] :
          /\ \A p \in Prc, pri \in Pri : ToSet(rq[p][pri]) = ReadyAtStart(p, pri)
          /\ ker = [tcb |-> InitialTcb,
                    pcb |-> [p \in Prc |-> InitialPcb(rq, p)],
                    ipi |-> {}]
    /\ run = [p \in Prc |-> NULL]
    /\ mode = [p \in Prc |-> "disp"]
    /\ at = [p \in Prc |-> "user"]

----------------------------------------------------------------------------
\* The ends of a service call

\* The final test of most calls: a task for which another one is scheduled
\* dispatches; an interrupt handler leaves it to the interrupt exit.
EndCall(p, k) ==
    /\ ker' = k
    /\ mode' = [mode EXCEPT ![p] =
                   IF @ = "task" /\ run[p] # Schedtsk(k, p) THEN "save" ELSE @]
    /\ UNCHANGED <<run, at>>

\* The branches that return without that test.
Return(k) == ker' = k /\ UNCHANGED <<run, mode, at>>

\* exit_and_dispatch or exit_and_migrate: the context is thrown away.
ExitSelf(p, k) ==
    LET self == run[p]
        k1   == TaskTerminate(k, p, self, self)
    IN  /\ ker' = IF ActivateElsewhere(k, p, self, self)
                    THEN MakeActive(k1, p, self) ELSE k1
        /\ mode' = [mode EXCEPT ![p] = "disp"]
        /\ at' = [at EXCEPT ![p] = "user"]
        /\ UNCHANGED run

\* dispatch from inside a call, to try again at location l.
RetryAt(p, l) ==
    /\ mode' = [mode EXCEPT ![p] = "save"]
    /\ at' = [at EXCEPT ![p] = l]
    /\ UNCHANGED <<ker, run>>

InTask(p, call) == call \in Calls /\ mode[p] = "task" /\ at[p] = "user"
InAny(p, call)  == InTask(p, call) \/ (call \in Calls /\ mode[p] = "int")

----------------------------------------------------------------------------
\* Activation (task_manage.c)

\* NULL stands for a call that leaves the processor alone.
Activate(p, t, prc) ==
    IF TstatDormant(ker, t)
      THEN EndCall(p, MakeActive(IF prc = NULL THEN ker
                                 ELSE [ker EXCEPT !.tcb[t].p_pcb = prc], p, t))
      ELSE /\ t \notin NoActque
           /\ ~tcb[t].actque
           /\ Return([ker EXCEPT !.tcb[t].actque = TRUE,
                                 !.tcb[t].actprc = IF prc = NULL THEN @ ELSE prc])

act_tsk(p) == InAny(p, "act_tsk") /\ \E t \in Tsk : Activate(p, t, NULL)

mact_tsk(p) ==
    InAny(p, "mact_tsk") /\ \E t \in Tsk : \E prc \in affinity[t] : Activate(p, t, prc)

\* A fault of the next action: the processor of the request is kept.
can_act_keeps_actprc(p) ==
    /\ InTask(p, "can_act")
    /\ \E t \in Tsk : Return([ker EXCEPT !.tcb[t].actque = FALSE])

can_act(p) ==
    /\ InTask(p, "can_act")
    /\ \E t \in Tsk : Return([ker EXCEPT !.tcb[t].actque = FALSE, !.tcb[t].actprc = NULL])

----------------------------------------------------------------------------
\* Migration (mig_tsk, migrate_self)

\* A fault of the next operator: the context is saved by dispatch, after the
\* giant lock has been released.
MigrateSelfUnsaved(p, prc) ==
    LET k1 == MakeNonRunnable(ker, p, run[p])
    IN  /\ ker' = MakeRunnable([k1 EXCEPT !.tcb[run[p]].p_pcb = prc], p, run[p])
        /\ mode' = [mode EXCEPT ![p] = "save"]
        /\ UNCHANGED <<run, at>>

MigrateSelf(p, prc) ==
    LET self == run[p]
        k1 == MakeNonRunnable(ker, p, self)
        k2 == [k1 EXCEPT !.tcb[self].p_pcb = prc, !.tcb[self].tskctxb = "user"]
    IN  /\ ker' = MakeRunnable(k2, p, self)
        /\ mode' = [mode EXCEPT ![p] = "disp"]
        /\ UNCHANGED <<run, at>>

MigrateOther(p, t, prc) ==
    LET k1 == MakeNonRunnable(ker, p, t)
    IN  Return(MakeRunnable([k1 EXCEPT !.tcb[t].p_pcb = prc], p, t))

\* A fault of the next operator: the time event stays behind.
MigrateBlockedOnly(t, prc) == Return([ker EXCEPT !.tcb[t].p_pcb = prc])

\* A task that is not runnable; its time event moves with it.
MigrateBlocked(t, prc) ==
    Return([ker EXCEPT
        !.tcb[t].p_pcb = prc,
        !.tcb[t].tmevtb = IF TstatWaiting(ker, t) /\ @ # NULL THEN prc ELSE @])

\* A fault of the next operator: tasks of other processors are migrated too.
MigrateAnyTask(p, t, prc) ==
    IF ~TstatRunnable(ker, t) THEN MigrateBlocked(t, prc)
    ELSE IF t = run[p]        THEN MigrateSelf(p, prc)
    ELSE                           MigrateOther(p, t, prc)

MigrateTask(p, t, prc) ==
    /\ tcb[t].p_pcb = p
    /\ IF ~TstatRunnable(ker, t) THEN MigrateBlocked(t, prc)
       ELSE IF t = run[p]        THEN MigrateSelf(p, prc)
       ELSE                           MigrateOther(p, t, prc)

mig_self(p) ==
    /\ InTask(p, "mig_self")
    /\ pcb[p].dspflg
    /\ \E prc \in affinity[run[p]] : MigrateTask(p, run[p], prc)

mig_tsk(p) ==
    /\ InTask(p, "mig_tsk")
    /\ \E t \in Tsk \ {run[p]} : \E prc \in affinity[t] : MigrateTask(p, t, prc)

----------------------------------------------------------------------------
\* Priorities (task_manage.c, sys_manage.c)

chg_pri(p) ==
    /\ InTask(p, "chg_pri")
    /\ \E t \in Tsk, pri \in Pri :
          /\ ~TstatDormant(ker, t)
          /\ LET k == [ker EXCEPT !.tcb[t].bpriority = pri]
             IN  IF tcb[t].boosted THEN Return(k)
                 ELSE EndCall(p, ChangePriority(k, p, t, pri, FALSE))

chg_spr(p) ==
    /\ InTask(p, "chg_spr")
    /\ \E t \in Tsk, subpri \in SubPri :
          IF TstatRunnable(ker, t) /\ tcb[t].priority \in SubprioPri /\ ~tcb[t].boosted
            THEN EndCall(p, ChangeSubprio(ker, p, t, subpri, tcb[t].p_pcb))
            ELSE Return([ker EXCEPT !.tcb[t].subpri = subpri])

rot_rdq(p) ==
    /\ InAny(p, "rot_rdq")
    /\ \E pri \in Pri \ SubprioPri : EndCall(p, RotateReadyQueue(ker, p, pri, p))

mrot_rdq(p) ==
    /\ InAny(p, "mrot_rdq")
    /\ \E pri \in Pri \ SubprioPri, prc \in Prc :
          EndCall(p, RotateReadyQueue(ker, p, pri, prc))

----------------------------------------------------------------------------
\* Termination (task_term.c)

\* In the CPU locked state ext_tsk takes interrupts while it waits for the
\* giant lock (location ext_tsk).
ext_tsk_wait(p) ==
    /\ "ext_tsk" \in Calls /\ mode[p] = "task" /\ at[p] = "locked"
    /\ at' = [at EXCEPT ![p] = "ext_tsk"]
    /\ UNCHANGED <<ker, run, mode>>

ext_tsk(p) ==
    /\ "ext_tsk" \in Calls /\ mode[p] = "task" /\ at[p] \in {"user", "locked", "ext_tsk"}
    /\ ExitSelf(p, IF pcb[p].dspflg THEN ker
                   ELSE SetDspflg([ker EXCEPT !.pcb[p].enadsp = TRUE], p))

\* A fault of the next action: tasks of other processors are terminated too.
ter_tsk_anywhere(p) ==
    /\ InTask(p, "ter_tsk")
    /\ \E t \in Tsk \ {run[p]} :
          ~TstatDormant(ker, t) /\ EndCall(p, TaskTerminate(ker, p, t, run[p]))

ter_tsk(p) ==
    /\ InTask(p, "ter_tsk")
    /\ \E t \in Tsk \ {run[p]} :
          /\ tcb[t].p_pcb = p /\ ~TstatDormant(ker, t)
          /\ EndCall(p, TaskTerminate(ker, p, t, run[p]))

\* Termination is disabled: the request is recorded and the wait released.
RequestTermination(p, t) ==
    LET k1 == [ker EXCEPT !.tcb[t].raster = TRUE]
        k2 == IF TstatWaiting(ker, t) THEN WaitDequeueTmevtb(k1, t) ELSE k1
    IN  IF TstatRunnable(ker, t) THEN Return(k1)
        ELSE EndCall(p, MakeRunnable([k2 EXCEPT !.tcb[t].tstat = {"RUNNABLE"}], p, t))

ras_ter(p) ==
    /\ InTask(p, "ras_ter")
    /\ \E t \in Tsk \ {run[p]} :
          /\ tcb[t].p_pcb = p /\ ~TstatDormant(ker, t)
          /\ IF tcb[t].enater THEN EndCall(p, TaskTerminate(ker, p, t, run[p]))
                              ELSE RequestTermination(p, t)

dis_ter(p) ==
    InTask(p, "dis_ter") /\ Return([ker EXCEPT !.tcb[run[p]].enater = FALSE])

ena_ter(p) ==
    /\ InTask(p, "ena_ter")
    /\ IF tcb[run[p]].raster /\ pcb[p].dspflg
         THEN ExitSelf(p, ker)
         ELSE Return([ker EXCEPT !.tcb[run[p]].enater = TRUE])

----------------------------------------------------------------------------
\* Task dependent synchronisation (task_sync.c)

MayWait(p, call) == InTask(p, call) /\ pcb[p].dspflg /\ ~tcb[run[p]].raster

\* dispatch follows make_wait unconditionally.
WaitCall(p, k) ==
    /\ ker' = k
    /\ mode' = [mode EXCEPT ![p] = "save"]
    /\ UNCHANGED <<run, at>>

TakeWupque(p) == Return([ker EXCEPT !.tcb[run[p]].wupque = FALSE])

slp_tsk(p) ==
    /\ MayWait(p, "slp_tsk")
    /\ IF tcb[run[p]].wupque THEN TakeWupque(p)
                             ELSE WaitCall(p, MakeWait(ker, p, "SLP", run[p]))

tslp_tsk(p) ==
    /\ MayWait(p, "tslp_tsk")
    /\ IF tcb[run[p]].wupque THEN TakeWupque(p)
                             ELSE WaitCall(p, MakeWaitTmout(ker, p, "SLP", run[p]))

dly_tsk(p) ==
    MayWait(p, "dly_tsk") /\ WaitCall(p, MakeWaitTmout(ker, p, "DLY", run[p]))

wup_tsk(p) ==
    /\ InAny(p, "wup_tsk")
    /\ \E t \in Tsk :
          /\ ~TstatDormant(ker, t)
          /\ IF TstatWaitSlp(ker, t)
               THEN EndCall(p, WaitComplete(ker, p, t))
               ELSE ~tcb[t].wupque /\ Return([ker EXCEPT !.tcb[t].wupque = TRUE])

can_wup(p) ==
    /\ InTask(p, "can_wup")
    /\ \E t \in Tsk : ~TstatDormant(ker, t) /\ Return([ker EXCEPT !.tcb[t].wupque = FALSE])

rel_wai(p) ==
    /\ InAny(p, "rel_wai")
    /\ \E t \in Tsk : TstatWaiting(ker, t) /\ EndCall(p, WaitComplete(ker, p, t))

\* The time event handlers wait_tmout and wait_tmout_ok, in the interrupt
\* handler of the processor whose heap held the event.
wait_tmout(p) ==
    /\ "tmo" \in Calls /\ mode[p] = "int"
    /\ \E t \in Tsk : /\ TstatWaiting(ker, t) /\ tcb[t].tmevtb = p
                      /\ EndCall(p, MakeNonWait([ker EXCEPT !.tcb[t].tmevtb = NULL], p, t))

sus_tsk(p) ==
    /\ InTask(p, "sus_tsk")
    /\ \E t \in Tsk :
          /\ t = run[p] => pcb[p].dspflg
          /\ ~TstatDormant(ker, t) /\ ~tcb[t].raster /\ ~TstatSuspended(ker, t)
          /\ IF TstatRunnable(ker, t)
               THEN EndCall(p, MakeNonRunnable(
                                   [ker EXCEPT !.tcb[t].tstat = {"SUSPENDED"}], p, t))
               ELSE Return([ker EXCEPT !.tcb[t].tstat = @ \cup {"SUSPENDED"}])

rsm_tsk(p) ==
    /\ InTask(p, "rsm_tsk")
    /\ \E t \in Tsk :
          /\ TstatSuspended(ker, t)
          /\ IF TstatWaiting(ker, t)
               THEN Return([ker EXCEPT !.tcb[t].tstat = @ \ {"SUSPENDED"}])
               ELSE EndCall(p, MakeRunnable([ker EXCEPT !.tcb[t].tstat = {"RUNNABLE"}], p, t))

----------------------------------------------------------------------------
\* The states of a processor (sys_manage.c, interrupt.c)

loc_cpu(p) ==
    /\ InTask(p, "loc_cpu")
    /\ at' = [at EXCEPT ![p] = "locked"] /\ UNCHANGED <<ker, run, mode>>

unl_cpu(p) ==
    /\ mode[p] = "task" /\ at[p] = "locked"
    /\ at' = [at EXCEPT ![p] = "user"] /\ UNCHANGED <<ker, run, mode>>

\* A fault of the next operator: the deferred termination is forgotten.
EnableDispatchOnly(p, k) ==
    LET k1 == SetDspflg(k, p)
    IN  /\ ker' = k1
        /\ mode' = [mode EXCEPT ![p] = IF run[p] # Schedtsk(k1, p) THEN "save" ELSE @]
        /\ at' = [at EXCEPT ![p] = "user"]
        /\ UNCHANGED run

\* The end of ena_dsp and chg_ipm: the deferred dispatch or termination.
EnableDispatch(p, k) ==
    LET k1 == SetDspflg(k, p)
    IN  IF tcb[run[p]].raster /\ tcb[run[p]].enater
          THEN ExitSelf(p, k1)
          ELSE /\ ker' = k1
               /\ mode' = [mode EXCEPT ![p] =
                              IF run[p] # Schedtsk(k1, p) THEN "save" ELSE @]
               /\ at' = [at EXCEPT ![p] = "user"]
               /\ UNCHANGED run

Retrying(p, call) == InTask(p, call) \/ (mode[p] = "task" /\ at[p] = call)

\* A fault of the next action: dispatching is disabled although another task
\* is already scheduled.
dis_dsp_at_once(p) ==
    /\ InTask(p, "dis_dsp")
    /\ ker' = [ker EXCEPT !.pcb[p].enadsp = FALSE, !.pcb[p].dspflg = FALSE]
    /\ UNCHANGED <<run, mode, at>>

dis_dsp(p) ==
    /\ Retrying(p, "dis_dsp")
    /\ IF run[p] # Schedtsk(ker, p)
         THEN RetryAt(p, "dis_dsp")
         ELSE /\ ker' = [ker EXCEPT !.pcb[p].enadsp = FALSE, !.pcb[p].dspflg = FALSE]
              /\ at' = [at EXCEPT ![p] = "user"]
              /\ UNCHANGED <<run, mode>>

\* A fault of the next action: the interrupt priority mask is not looked at.
ena_dsp_unmasks(p) ==
    LET k == [ker EXCEPT !.pcb[p].enadsp = TRUE, !.pcb[p].dspflg = TRUE]
    IN  InTask(p, "ena_dsp") /\ EndCall(p, k)

ena_dsp(p) ==
    LET k == [ker EXCEPT !.pcb[p].enadsp = TRUE]
    IN  /\ InTask(p, "ena_dsp")
        /\ IF pcb[p].ipm THEN Return(k) ELSE EnableDispatch(p, k)

chg_ipm(p) ==
    /\ Retrying(p, "chg_ipm")
    /\ IF run[p] # Schedtsk(ker, p)
         THEN RetryAt(p, "chg_ipm")
         ELSE \E masked \in BOOLEAN :
                IF ~masked /\ pcb[p].enadsp
                  THEN EnableDispatch(p, ker)
                  ELSE /\ ker' = [ker EXCEPT !.pcb[p].ipm = masked,
                                             !.pcb[p].dspflg = FALSE]
                       /\ at' = [at EXCEPT ![p] = "user"]
                       /\ UNCHANGED <<run, mode>>

----------------------------------------------------------------------------
\* The dispatcher and the interrupts (core_support.S)

save_context(p) ==
    /\ mode[p] = "save"
    /\ ker' = [ker EXCEPT !.tcb[run[p]].tskctxb = at[p]]
    /\ mode' = [mode EXCEPT ![p] = "disp"]
    /\ at' = [at EXCEPT ![p] = "user"]
    /\ UNCHANGED run

dispatcher(p) ==
    /\ mode[p] = "disp"
    /\ run' = [run EXCEPT ![p] = Schedtsk(ker, p)]
    /\ mode' = [mode EXCEPT ![p] = IF Schedtsk(ker, p) = NULL THEN "idle" ELSE "switch"]
    /\ UNCHANGED <<ker, at>>

\* The jump to TCB_pc; the context in the TCB is used up.
resume(p) ==
    /\ mode[p] = "switch"
    /\ at' = [at EXCEPT ![p] = IF tcb[run[p]].tskctxb \in Locations
                                 THEN tcb[run[p]].tskctxb ELSE "user"]
    /\ ker' = [ker EXCEPT !.tcb[run[p]].tskctxb = "none"]
    /\ mode' = [mode EXCEPT ![p] = "task"]
    /\ UNCHANGED run

Interruptible(p) == mode[p] = "idle" \/ (mode[p] = "task" /\ at[p] # "locked")

TimeEventDue(p) == \E t \in Tsk : TstatWaiting(ker, t) /\ tcb[t].tmevtb = p

\* The dispatch request interrupt of another processor, or a device.
dispatch_handler(p) ==
    /\ Interruptible(p) /\ p \in ker.ipi
    /\ ker' = [ker EXCEPT !.ipi = @ \ {p}]
    /\ mode' = [mode EXCEPT ![p] = "int"]
    /\ UNCHANGED <<run, at>>

int_entry(p) ==
    /\ Interruptible(p)
    /\ "int" \in Calls \/ ("tmo" \in Calls /\ TimeEventDue(p))
    /\ mode' = [mode EXCEPT ![p] = "int"]
    /\ UNCHANGED <<ker, run, at>>

\* A fault of the next action: the interrupt exit does not compare p_schedtsk.
int_exit_returns(p) ==
    /\ mode[p] = "int"
    /\ mode' = [mode EXCEPT ![p] = IF run[p] = NULL THEN "disp" ELSE "task"]
    /\ UNCHANGED <<ker, run, at>>

int_exit(p) ==
    /\ mode[p] = "int"
    /\ mode' = [mode EXCEPT ![p] = IF run[p] = NULL THEN "disp"
                                   ELSE IF run[p] # Schedtsk(ker, p) THEN "save"
                                   ELSE "task"]
    /\ UNCHANGED <<ker, run, at>>

----------------------------------------------------------------------------
Step(p) ==
    \/ act_tsk(p) \/ mact_tsk(p) \/ can_act(p) \/ mig_self(p) \/ mig_tsk(p)
    \/ chg_pri(p) \/ chg_spr(p) \/ rot_rdq(p) \/ mrot_rdq(p)
    \/ ext_tsk_wait(p) \/ ext_tsk(p) \/ ter_tsk(p) \/ ras_ter(p)
    \/ dis_ter(p) \/ ena_ter(p)
    \/ slp_tsk(p) \/ tslp_tsk(p) \/ dly_tsk(p) \/ wup_tsk(p) \/ can_wup(p)
    \/ rel_wai(p) \/ wait_tmout(p) \/ sus_tsk(p) \/ rsm_tsk(p)
    \/ loc_cpu(p) \/ unl_cpu(p) \/ dis_dsp(p) \/ ena_dsp(p) \/ chg_ipm(p)
    \/ save_context(p) \/ dispatcher(p) \/ resume(p)
    \/ dispatch_handler(p) \/ int_entry(p) \/ int_exit(p)

Next == \E p \in Prc : Step(p)

Spec == Init /\ [][Next]_vars

\* The instructions of the dispatcher go on, interrupts are taken when the
\* processor accepts them, handlers return, and a task that resumed inside
\* dis_dsp, chg_ipm or ext_tsk goes on with the call.  Nothing is assumed of
\* what tasks and devices do on their own account.
GoesOn(p) ==
    \/ save_context(p) \/ dispatcher(p) \/ resume(p)
    \/ dispatch_handler(p) \/ int_exit(p)
    \/ at[p] = "dis_dsp" /\ dis_dsp(p)
    \/ at[p] = "chg_ipm" /\ chg_ipm(p)
    \/ at[p] = "ext_tsk" /\ ext_tsk(p)

Fairness == \A p \in Prc : WF_vars(GoesOn(p))

FairSpec == Spec /\ Fairness

----------------------------------------------------------------------------
\* Properties

\* TypeOK: the kernel data and the registers have the types of the C code.
TypeOK ==
    /\ ker \in Kernel
    /\ run \in [Prc -> Tsk \cup {NULL}]
    /\ mode \in [Prc -> Modes]
    /\ at \in [Prc -> Places]

\* The processor p executes on the context of t, which exists nowhere else.
Holds(p, t) == run[p] = t /\ mode[p] \in {"task", "int", "save"}

\* NoStaleResume: when the dispatcher jumps to the address in a TCB, which it
\* has chosen without the giant lock, that TCB holds the context saved last (or
\* the start context), not resumed before, and the task is still assigned to
\* the processor and has neither terminated nor begun to wait.
NoStaleResume ==
    \A p \in Prc : mode[p] = "switch" =>
        /\ run[p] # NULL /\ tcb[run[p]].p_pcb = p
        /\ tcb[run[p]].tskctxb # "none"
        /\ ~TstatDormant(ker, run[p]) /\ ~TstatWaiting(ker, run[p])

\* ContextExclusive: the execution state of a task is in one place only: on
\* one processor, or in its TCB, waiting for at most one dispatcher.
ContextExclusive ==
    \A t \in Tsk :
        /\ tcb[t].tskctxb # "none" => \A p \in Prc : ~Holds(p, t)
        /\ \A p, q \in Prc :
               /\ run[p] = t /\ mode[p] \notin {"disp", "idle"}
               /\ run[q] = t /\ mode[q] \notin {"disp", "idle"}
               => p = q

\* MigrateWithContext: a task that is not dormant is given to another
\* processor only while its context is saved in its TCB.
MigrateWithContext ==
    [][\A t \in Tsk : ker'.tcb[t].p_pcb # tcb[t].p_pcb =>
           ker'.tcb[t].tstat = DORMANT \/ ker'.tcb[t].tskctxb # "none"]_vars

\* SuspensionHolds: whatever else happens to a suspended task, on whatever
\* processor it still runs (slp_tsk in the transient state, wup_tsk, timeouts,
\* migration), it stays suspended until it is resumed or terminated.
SuspensionHolds ==
    [][\A t \in Tsk : TstatSuspended(ker, t) /\ ~TstatSuspended(ker', t) =>
           \E p \in Prc : rsm_tsk(p) \/ ras_ter(p) \/ ter_tsk(p) \/ ext_tsk(p)]_vars

Highest(k, p) ==
    LET used == {pri \in Pri : Queue(k, p, pri) # << >>}
    IN  IF used = {} THEN NULL
        ELSE Head(Queue(k, p, CHOOSE pri \in used : \A other \in used : pri <= other))

\* SchedtskIsTop: while dispatching is enabled, p_schedtsk is the first task
\* of the highest ready queue, whatever sequence of calls on whatever
\* processors led there.
SchedtskIsTop ==
    \A p \in Prc : pcb[p].dspflg => Schedtsk(ker, p) = Highest(ker, p)

\* DispatchDisabledPinned: while dispatching is disabled, the processor stays
\* with the task that disabled it.
DispatchDisabledPinned ==
    \A p \in Prc : ~pcb[p].dspflg =>
        /\ run[p] # NULL /\ Schedtsk(ker, p) = run[p]
        /\ mode[p] \in {"task", "int"}

\* DspflgMeaning: dispatching is enabled exactly if it is neither disabled by
\* dis_dsp nor by an interrupt priority mask, whatever the order in which the
\* two are set and released and whichever processor the task then runs on.
DspflgMeaning ==
    \A p \in Prc : pcb[p].dspflg <=> pcb[p].enadsp /\ ~pcb[p].ipm

\* ReadyQueueCorrect: the ready queues hold exactly the runnable tasks, each
\* once, on its processor and at its priority, and the bitmap says which
\* queues are in use.
ReadyQueueCorrect ==
    \A p \in Prc :
        /\ \A pri \in Pri :
              /\ IsInjective(Queue(ker, p, pri))
              /\ ToSet(Queue(ker, p, pri)) =
                    {t \in Tsk : /\ TstatRunnable(ker, t)
                                 /\ tcb[t].p_pcb = p /\ tcb[t].priority = pri}
        /\ pcb[p].ready_primap = {pri \in Pri : Queue(ker, p, pri) # << >>}

\* SubprioOrder: a ready queue that uses sub-priorities is ordered by them.
SubprioOrder ==
    \A p \in Prc, pri \in SubprioPri :
        LET q == Queue(ker, p, pri)
        IN  \A i, j \in DOMAIN q :
                i < j => CurrentSubpri(ker, q[i]) <= CurrentSubpri(ker, q[j])

\* NoLostDispatch: a processor that has settled on a task, or on idling, while
\* another one is scheduled has an interrupt coming that makes it dispatch.
NoLostDispatch ==
    \A p \in Prc :
        mode[p] \in {"task", "switch", "idle"} /\ Schedtsk(ker, p) # run[p] => p \in ker.ipi

\* TimeEventOnOwner: the time event of a task is only registered while the
\* task waits, and in the heap of the processor the task is assigned to,
\* which is where wait_dequeue_tmevtb looks for it.
TimeEventOnOwner ==
    \A t \in Tsk : tcb[t].tmevtb # NULL =>
        TstatWaiting(ker, t) /\ tcb[t].tmevtb = tcb[t].p_pcb

\* TerminationNotLost: a task with a termination request is ready to run until
\* it terminates, and it goes on although it may be terminated only as long
\* as dispatching is disabled.
TerminationNotLost ==
    \A t \in Tsk : tcb[t].raster =>
        /\ tcb[t].tstat = {"RUNNABLE"}
        /\ tcb[t].enater => \E p \in Prc : run[p] = t /\ ~pcb[p].dspflg

\* TaskStates: a task is dormant, runnable, or blocked for a set of reasons,
\* never both; a dormant task has kept no request but a queued activation.
TaskStates ==
    \A t \in Tsk :
        /\ TstatRunnable(ker, t) => tcb[t].tstat = {"RUNNABLE"}
        /\ ~({"SLP", "DLY"} \subseteq tcb[t].tstat)
        /\ TstatDormant(ker, t) =>
              ~tcb[t].wupque /\ ~tcb[t].raster /\ tcb[t].enater /\ ~tcb[t].actque

\* AssignedWithinAffinity: no sequence of activations, queued activations and
\* migrations assigns a task to a processor outside its affinity mask, and a
\* processor is kept for a later activation only with a queued activation.
AssignedWithinAffinity ==
    \A t \in Tsk :
        /\ tcb[t].p_pcb \in affinity[t]
        /\ tcb[t].actprc # NULL => tcb[t].actque /\ tcb[t].actprc \in affinity[t]

\* TasksAgree: the state of a task, its queue, its place in it, its time event
\* and its processor agree, whatever sequence of calls moved it
\* (task.c:199-433, task_manage.c:560-640).
TasksAgree == TaskStates /\ TimeEventOnOwner /\ SubprioOrder /\ AssignedWithinAffinity

\* NothingKeptBack: a termination that was requested happens, and what disabled
\* dispatching keeps back is done when it is enabled (task_term.c:158-224,
\* sys_manage.c:420-560, task.c:199).
NothingKeptBack == TerminationNotLost /\ DspflgMeaning /\ DispatchDisabledPinned

\* SchedtskRuns: a processor that has a task to schedule, or none, and keeps
\* it, gets to execute it.
SchedtskRuns ==
    \A p \in Prc : \A t \in Tsk \cup {NULL} :
        (Schedtsk(ker, p) = t) ~> (run[p] = t \/ Schedtsk(ker, p) # t)
==============================================================================
