# TOPPERS/FMP3 kernel: specifications and proofs

TOPPERS/FMP3 is a real-time kernel for multiprocessors after the TOPPERS new
generation kernel specification. Every task is assigned to one processor at a
time; every processor schedules its own tasks by fixed priorities. The kernel
data of all processors is protected by one lock, the *giant lock*; processors
notify each other by interprocessor interrupts. This directory holds TLA+
modules for the kernel in `kernel/` and for the parts of the RISC-V port that it relies
on, the TLC configurations that check them, and theorems that TLAPS checks.

## 1. The system

### 1.1 Components

| Component | Source | State | Operations | Talks to |
|---|---|---|---|---|
| Start, exit | `kernel/startup.c` | `prc_phase[]`, `sys_phase`, `kerflg_table[]` | `sta_ker`, `ext_ker`, `exit_kernel`, `barrier_sync` | every `initialize_*` routine, giant lock, IPI |
| Task control, ready queues | `kernel/task.c`, `task.h`, `pcb.h` | TCB, PCB: `p_runtsk`, `p_schedtsk`, `ready_queue[]`, `ready_primap`, `dspflg`, `enadsp` | `make_runnable`, `make_non_runnable`, `change_priority`, `task_terminate`, `migrate_self`, ... | all service calls, dispatcher, IPI |
| Task management | `kernel/task_manage.c` | TCB | `act_tsk`, `mact_tsk`, `can_act`, `mig_tsk`, `chg_pri`, `chg_spr` | task control, time events, mutexes |
| Task termination | `kernel/task_term.c` | `raster`, `enater` | `ext_tsk`, `ras_ter`, `ter_tsk`, `dis_ter`, `ena_ter` | task control, dispatcher, mutexes |
| Task synchronisation | `kernel/task_sync.c`, `wait.[ch]` | `tstat`, `wupque`, wait information | `slp_tsk`, `tslp_tsk`, `dly_tsk`, `wup_tsk`, `can_wup`, `rel_wai`, `sus_tsk`, `rsm_tsk`, time-out | task control, time events, dispatcher |
| System state | `kernel/sys_manage.c` | CPU lock flag, `enadsp`, `dspflg` | `loc_cpu`, `unl_cpu`, `dis_dsp`, `ena_dsp`, `rot_rdq`, `mrot_rdq` | task control, dispatcher |
| Interrupts | `kernel/interrupt.c` | interrupt priority mask | `chg_ipm`, `dis_int`, `ras_int`, ... | task control, controller hardware |
| Interrupt service routines | `kernel/interrupt.c` | ISRCB, one queue per eligible interrupt number, `free_isrcb` | `call_isr`, `acre_isr`, `del_isr` | interrupt handlers, tasks of all processors |
| Dispatcher, interrupt entry and exit | `arch/riscv_gcc/common/core_support.S` (one per architecture) | `p_runtsk`, contexts | `dispatch`, `dispatcher`, `exit_and_dispatch`, `exit_and_migrate`, `core_int_entry` | reads `p_schedtsk` without the lock |
| Mutex | `kernel/mutex.c` | owner, list of held mutexes, `boosted` | `loc_mtx`, `unl_mtx`, ceilings, release at termination | task control, wait |
| Semaphore, event flag, data queue, priority data queue, memory pool | `kernel/semaphore.c`, `eventflag.c`, `dataqueue.c`, `pridataq.c`, `mempfix.c` | counts, patterns, buffers, wait queues | send, receive, wait, poll, initialise | wait, task control |
| Time events | `kernel/time_event.c`, `time_manage.c` | heap per processor, `current_evttim`, `current_hrtcnt` | register, dequeue, `signal_time`, `adj_tim`, `set_tim` | timer hardware, wait, alarm, cyclic |
| Alarm, cyclic | `kernel/alarm.c`, `cyclic.c` | running flag, assigned processor | start, stop, `msta_*`, notification | time events |
| Spin lock, giant lock | `kernel/spin_lock.c`, `core_kernel_impl.h` | lock word, `p_locspn` | `loc_spn`, `try_spn`, `unl_spn`, `acquire_glock` | interrupts |
| Dynamic creation | `acre_*`, `del_*` in the files of the objects | lists of free control blocks | create, delete | wait queues, memory pool of the kernel |
| Memory pool of the kernel | `kernel/startup.c` | free blocks | `malloc_mempool`, `free_mempool` | dynamic creation |
| Services, log, libraries | `syssvc`, `arch/tracelog`, `library` | buffers | serial port, log task | users of the kernel |
| Configurator, ports, tests | `cfg`, `cfg_py`, `target`, other `arch`, `test` | | | |

### 1.2 What is hard

* **One lock, but not everywhere.** A critical section runs under the giant
  lock. The dispatcher does not: the processor that blocks a task releases the
  lock first and saves the context, loads `p_schedtsk` and resumes afterwards.
  Other processors can activate, suspend, migrate and wake tasks in between.
* **Tasks in transient states.** A task suspended from another processor goes on
  running until its processor takes the dispatch request. It may call the kernel
  in that time, and it may sleep, migrate or exit.
* **Deferred work.** While dispatching is disabled (`dis_dsp`, a raised interrupt
  priority mask) `p_schedtsk` is frozen, termination requests wait, and three
  calls may be the one that ends the deferral.
* **Waiting for the lock with interrupts open.** `acquire_glock` accepts
  interrupts while it spins, so what was read before the call may be stale after
  it (`get_my_pcb` is read again for this reason).
* **Lost notifications.** A processor is only interrupted if its `p_schedtsk`
  changed and dispatching is enabled there.
* **Phases that are used twice.** Start and exit of the kernel share the barrier
  variables and two of the phase numbers.
* **Objects that disappear while they are used.** `call_isr` runs the routines of an
  interrupt without the lock, while other processors create and delete routines of the
  same queue and control blocks are used again.
* **Per-processor time.** The time event of a waiting task is in the heap of its
  processor and must move when the task does; event times wrap around.
* **Waits that end in many ways.** Completion, time-out, forced release, termination,
  initialisation and deletion of the object each have to take the task out of the
  wait queue and its time event out of the heap, on whatever processor they happen.
* **Priorities that change behind a task's back.** Ceilings and `chg_pri` move tasks that
  wait for other objects.
* **Locks below the lock.** Spin locks are taken with interrupts open in between, by tasks
  and by nested handlers, and may be left locked by both.
* **Control blocks that are used again.** With dynamic creation every block goes through
  several lives with different attributes; the free lists overlay its fields.

### 1.3 What makes each component correct

* Start, exit: no processor leaves a barrier early; objects are initialised before
  initialisation routines run, routines in order; all processors terminate.
* Task control: a ready queue holds exactly the runnable tasks of its processor and
  priority; `p_schedtsk` is its first task; nothing about a task is forgotten.
* Dispatcher: a task is executed by one processor only, from the context saved
  last; a processor follows its `p_schedtsk`.
* Termination: a request is carried out as soon as it is allowed.
* Synchronisation: suspension and waiting are independent; a wake-up is not lost;
  a time-out finds its task waiting.
* Interrupt service routines: an execution of `call_isr` calls each routine that stays
  registered once; a control block is given back when nobody uses it, and is never lost.
* Mutexes: one owner; the current priority is the minimum of base priority and
  ceilings; all released at termination, each to the first task that waits.
* Semaphores and the rest: nobody waits for what is available; order of the wait
  queue; what was sent is received once and in order; memory is returned.
* Time events: heap order; the timer is set for the earliest event; an event fires
  neither early nor never; the system time goes on without gaps.
* Alarm, cyclic notifications: started exactly if registered, in one heap.
* Spin locks: one owner, who is not interrupted; released when the owner ends.

## 2. Modules

| Module | What it is |
|---|---|
| `Startup`, `StartupProofs`, `MCStartup` | `kernel/startup.c`: barriers, start, exit |
| `Queues`, `QueuesProofs` | `include/queue.h`: queues as sequences; used by `Task`, `DynIsr` and `Wait` |
| `Task` | `kernel/task.c`, `task.h`, `wait.[ch]`: the functions on TCBs and PCBs as operators on the kernel data |
| `Sched`, `SchedProofs`, `MCSched` | service calls, dispatcher and interrupts on all processors; extends `Task`; the proofs about both |
| `DynIsr`, `DynIsrProofs`, `MCDynIsr` | `kernel/interrupt.c`: the interrupt service routines and their dynamic creation |
| `SpinLock`, `SpinLockProofs`, `MCSpinLock` | `kernel/spin_lock.c` and the giant lock of `core_kernel_impl.h` |
| `Wait` | `kernel/wait.[ch]` on the wait queues, and the calls that end or disturb a wait |
| `Semaphore`, `Eventflag`, `Dataqueue`, `Pridataq`, `Mempfix`, `Mutex` | the objects of the files of the same names, static and dynamic; each extends `Wait` |
| `ObjectProofs` | proofs about `Semaphore`, `Mutex`, `Eventflag` and `Dataqueue` and, with them, about the wait queues of `Wait` |
| `MCObjects` | instances of all of them, as cases of one run |
| `Heap` | the heap of `kernel/time_event.c` as operators on a sequence |
| `TimeHeap` | one heap, any sequence of its operations |
| `TimeEvent`, `TimeEventProofs`, `MCTimeEvent` | the event time, the timers and `signal_time` of `time_event.c`, `time_manage.c`; extends `Heap`; the proofs about all three |
| `Notify`, `NotifyProofs`, `MCNotify` | `kernel/cyclic.c`, `alarm.c` and `notify_handler` |
| `MCLive` | small instances of `Sched`, `DynIsr`, `TimeEvent` and `SpinLock` with their fairness |
| `Locks`, `Resource`, `Pool`, `Fifo`, `PriFifo`, `EventQueue`, `Notifications` | abstract specifications, see 2.7 |

Definitions have the name of the C function they translate (`MakeRunnable` for
`make_runnable` in `Task`, `act_tsk` for the service call in `Sched`). A
definition commented *A fault of the next ...* is a wrong variant of the next
one. No specification uses it; substituted for the next one it breaks the
property that `PROJECT.json` names, which shows that the property depends on the
code.

The modules do not share one state: the scheduler, the wait objects, the time events and
the locks are each checked against all that the others may do to them. `Sched` has the
waits of a task without objects (`slp_tsk`, `dly_tsk`); `Wait` leaves open which runnable
task a processor executes; `TimeEvent` takes any event as registered by anybody, and
`Notify` lets any registered event happen; `SpinLock` lets tasks and handlers call at
any time. Each of these is an over-approximation of what its partner does, so
what holds of the one holds beside the other.

### 2.1 Startup

State: `prc_phase`, `sys_phase` as in the code; `pc` and `nb` are the control point of
each processor and the number of barriers it has called; `idx`, `count` are
the locals of the master's scan. The barrier is modelled access by access:
`BarrierCall` (the store of the phase), `Scan` (one load of the master's loop),
`ScanEnd` (the master's decision), `Poll` (the wait for `sys_phase`). Between
barriers there is one action for each step of `sta_ker` and `exit_kernel`.
`ExtKer` can be called on any processor at any time after the start, `ExtKerHandler` is
the interrupt with which it reaches the others. Initialisation and termination
routines are recorded in the sets `inits` and `terms` (0 is the global block).
`TryGlock` is the loop that does not open interrupts.

### 2.2 Task and Sched

The kernel data is the record `ker`:

* `ker.tcb[t]`: the fields of the TCB. `tstat` is the set of its bits (the empty
  set is `TS_DORMANT`). `tskctxb` says what context is saved in the TCB: none,
  the start address, or the place where the task will go on. `tmevtb` is the
  processor whose heap holds the time event of the task.
* `ker.pcb[p]`: `p_schedtsk`, `enadsp`, `dspflg`, `ipm` (the interrupt priority
  mask is not `TIPM_ENAALL`), `ready_queue`, `ready_primap`.
* `ker.ipi`: the processors with a pending dispatch request interrupt.

Outside the lock there are `run` (`p_runtsk`), `mode` (what a processor executes:
a task, an interrupt handler, the saving of a context, the dispatcher, the jump
to a task, the idle loop) and `at` (where in a call the running task is).

A service call is one step, from its checks to the release of the lock: the
kernel data is not accessed without the lock except by the dispatcher. A call
that fails has no step. The release is followed by separate steps:

    call -> "save" -> save_context -> "disp" -> dispatcher -> "switch" -> resume -> "task"
                                                     |
                                                     +-> "idle"
    "task"/"idle" -> dispatch_handler, int_entry -> "int" -> int_exit -> "task"/"save"/"disp"

`dis_dsp` and `chg_ipm` dispatch in the middle and then try again. The context
that is saved there carries the location, and the action of the call is enabled
again when the task resumes, possibly on another processor. `ext_tsk` from the
CPU locked state waits for the giant lock with interrupts open (location
`ext_tsk`, the case of `test_mtrans4`).

Abstractions, and why they are safe:

* A processor that spins for the giant lock is still before the step. While it
  spins interrupts are open, which the model allows anyway: the location accepts
  interrupts.
* At the locations inside `dis_dsp` and `chg_ipm` the model accepts interrupts
  until the action is taken. In the code these fall into the wait of
  `acquire_glock`; the lock may be held by a call of another processor that
  changes nothing.
* An interrupt handler is a series of calls between entry and exit. Handlers do
  not nest, and they do not lock the CPU.
* The order of the tasks activated at the start comes from a generated table:
  any order is an initial state.
* `boosted` stays false without mutexes, which module `Mutex` has. The guards that read it are
  translated.

### 2.3 DynIsr

State: `isrcb` (the ISRCB together with its initialisation block; `exists` is that `isratr`
is not `TA_NOEXS`, `running` the set of processors whose bit is set), `queue` and `isrseq` of each
ISRQCB, `free` (`free_isrcb`), `scan` (the locals `p_next`, `cur_isrpri`, `cur_isrseq` of
`call_isr` on each processor for each queue), `nest` (the handlers that a processor
executes, latest first) and `deleting` (the block that a task in `del_isr` waits for).

A critical section under the giant lock is one step: `Interrupt` is `call_isr` up to the call
of the first routine, `IsrReturn` goes from the return of a routine to the call of the next
one or to the end, `del_isr` is the call up to its first look at `running`, `Quiesce` the
look that finds no bit and gives the block back. `Terminate` is the termination of a task
between looks. A handler is not interrupted by its own interrupt on the same processor, but
by others. A task calls where no handler runs; on which processor does not matter, because
these calls do not use the PCB, and tasks migrate.

`hist` is a history variable: which registrations an execution of `call_isr` has called, and
which it has to call. A routine that enters the queue at the priority of the scan or
behind it is due in this execution; one that enters before it is not
(`interrupt.c:183-192`).

### 2.4 SpinLock

State: `word` (the lock words: the giant lock, native locks, `LOCKFLAG` of emulated ones),
`p_locspn` and `cpulock` of each processor, and, since a handler may interrupt a task in
the middle of a call and then take locks itself, the stack of what a processor executes:
a task and nested handlers (`stack`), with the location and the call of each (`pc`, `call`).

    "out" -> "acquire" -> "got" -> (p_locspn is set) "out"            native
    "out" -> "acquire" -> "glocked" -> "flagged" -> "got" -> "out"      emulated
    "out" -> "acquire" -> "glocked" -> "out"                           other calls
    "acquire" -> "window" -> "acquire"      the lock is not free: interrupts are accepted
    "glocked" -> "poll" -> "acquire"        LOCKFLAG is set: wait for it, interrupts open

The test-and-set is one step, the reads and writes of the other variables are steps of
their own where another activity can come in between: `p_locspn` is set after the lock is
taken and cleared before it is returned; the emulated lock is taken under the giant lock
and returned without it. A task in `window` or `poll` may be preempted and go on on another
processor (`Preempt`, `Dispatch`). `InterruptReturn` and `ext_tsk` contain
`force_unlock_spin`.

### 2.5 Wait and the objects

`ker.tcb[t]` has the part of the TCB that waiting is about, `ker.wait[w]` the wait queues,
`ker.tpri` those in priority order. A service call is one step. That of a waiting call is
the call up to its wait: what it returns is the result `wercd`, which the step that ends
the wait sets. A task may call if it is runnable, or if it is suspended and its processor has
not taken the dispatch request yet (`transient`).

The objects keep the fields of their control and initialisation blocks. Where the code
keeps data in memory the model does as well: the ring of a data queue with `head` and
`tail`, the blocks of a priority data queue with the list, the free list and `unused`, and
the free list of a memory pool that runs through the management blocks `mpfmb`. `mpk` is what
is allocated from the kernel's memory pool. `Mutex` has the list of held mutexes
(`lastmtx`), `bpriority` and `boosted`. `mutex_release_all`, in the code a loop over the list
of a task that ends, is written as its result: a task waits in one queue only, and in none of
a mutex that it holds, so that each release concerns another task.

### 2.6 TimeEvent and Notify

The heap is the sequence of its nodes. `insert`, `delete` and `delete_top` move a hole up or
down to its place; the operators give the place and the moved nodes at once. `Up` is the way
from a node to the top, stated without recursion as the least set of nodes that has the parents
of its nodes; `EarlierDown` is the way down that takes the earlier child of each node.
`TimeHeap` has one heap with its event times `evttim_of` and a fixed boundary.

`tim` has `current_evttim`, `monotonic_evttim`, `systim_offset`, and `elapsed`, the real time since
the counter was read. Real time is `Tick`. `hrt` is what is left on each timer, `request`
the interrupts of `request_set_hrt_event`. `signal_time` is `SignalTime` (up to the
first callback, or its end) and `SignalTimeContinues`: callbacks release the giant lock, and
what others do in between is what makes this difficult. `due` is a history variable: the
real time that is left until each event. `late` bounds the delay of an interrupt and of the
lock after a callback by `Latency`. Without such a bound nothing can be said of times.
`OnTime` is what the code takes for granted of the delays: the counter is read before it has gone
round, and no event is later than `BOUNDARY_MARGIN`.

`Notify` keeps of an event block whether its callback is intact: on machines of 64 bits the
link of the free list overwrites it. A handler is executed step by step, without the lock,
while other processors stop, move, delete and create notifications.

### 2.7 Abstract specifications

| Abstract | What it says | Implemented by | Checked as |
|---|---|---|---|
| `Locks` | an owner per lock, one lock per processor | `SpinLock` | `ImplementsLocks` |
| `Resource` | units are taken, given back or handed to one waiting task | `Semaphore` | `ImplementsResources` |
| `Pool` | the same for distinct blocks | `Mempfix` | `ImplementsResources` |
| `Fifo` | all that was sent and not received, waiting senders included, in order | `Dataqueue` (FIFO order of senders) | `ImplementsChannels` |
| `PriFifo` | one FIFO for each data priority, and the tasks that wait to send | `Pridataq` (FIFO order of senders) | `ImplementsChannels` |
| `EventQueue` | a set of events of which one of the earliest is taken | `TimeHeap` | `ImplementsQueue` |
| `Notifications` | a handler begins where its notification is started, an alarm is then stopped | `Notify` | `ImplementsNotifications` |

The mappings say what the abstract state is in terms of the concrete one: the owner of a
lock is the processor at one of the locations between taking and returning it; the
channel of a data queue is the ring from `head`, followed by what the waiting senders hold; the
blocks handed out are those that `rel_mpf` would accept.

## 3. Runs

| Run | Instance | What it asks |
|---|---|---|
| `startup` | 3 processors; master and time master are different; fairness | Do the barriers hold (`BarrierHolds`), and what they order (`StartupOrder`, `ExitOrder`)? Do start and exit complete (`StartCompletes`, `ExitCompletes`)? |
| `sched` | 3 tasks, 2 processors, in three groups of calls: activation and termination, also from handlers; migration of running, ready, waiting and timed waiting tasks; priorities, sub-priorities and rotation. One task is bound to a processor by its affinity | Is a task executed in one place, with its context (`ContextExclusive`, `NoStaleResume`, `MigrateWithContext`)? Do queues and `p_schedtsk` follow (`ReadyQueueCorrect`, `SchedtskIsTop`, `TasksAgree`)? Is a dispatch lost (`NoLostDispatch`)? |
| `sched_two` | 2 tasks, 2 processors, two groups: suspension across processors against sleeping, migration and disabled dispatching; requested termination against disabled termination, dispatching, masks, CPU lock and exit | Does a suspension hold (`SuspensionHolds`)? Is what was kept back done (`NothingKeptBack`)? |
| `run_suspend` | 2 tasks, 2 processors; `sus_tsk`, `rsm_tsk`, `mig_tsk` of the caller | Expected violation, see section 6 |
| `dyn_isr` | 3 dynamic blocks, 1 queue, 2 processors, 2 tasks of which one may be terminated, 2 priorities | Is a block in two places or reused while a processor uses it (`BlockOnce`, `BlockHeld`)? Does `call_isr` call what it has to and nothing that is deleted (`ScanComplete`, `DeletedNotCalled`)? |
| `dyn_isr_leak` | 1 static and 2 dynamic blocks, 1 queue, a task that may be terminated | Expected violation, see section 6 |
| `spin_lock` | 2 tasks, 2 processors, handlers on each, a native and an emulated lock | `LockExclusive`, `HolderUninterrupted`, `ImplementsLocks` |
| `objects` | eleven cases: each kind of object, configured and created | `WaitsAgree`, `NoVainWait`, `BlocksIntact`, `HoldersAgree`, `HandOver`, `ImplementsResources`, `ImplementsChannels` |
| `time` | 2 events on 1 or 2 time event processors, in five cases; one heap with 6 events | Is the heap in the order of real time (`RealOrder`)? Is the timer in time, and with it `OnTime` (`InTime`)? Does an event happen early, or the time jump (`TimeGoesOn`)? `ImplementsQueue` |
| `time_migrate` | the same with `mig_tsk` and delayed interrupts | Expected violation, see section 6 |
| `notify` | a cyclic and two alarm notifications, of which two are created and deleted; 3 processors of which one handles no time events | `StartedIsRegistered`, `EventBlockIntact`, `ImplementsNotifications` |
| `live` | four small instances with fairness: 2 tasks and 2 processors; 1 queue of interrupt service routines and 1 task that deletes; 1 event on 2 processors; 2 locks | `SchedtskRuns`, `DeletionEnds`, `EventHappens`, `LockReleased`, `InterruptsAccepted` |

A run with several cases chooses one in its initial state; the properties of a run are
conjunctions over its cases, or over the named parts that the modules define (`TasksAgree` is
`TaskStates`, `TimeEventOnOwner`, `SubprioOrder` and `AssignedWithinAffinity`; `NothingKeptBack`
is `TerminationNotLost`, `DspflgMeaning` and `DispatchDisabledPinned`; `WaitsAgree` is
`QueueHoldsWaiters`, `PriorityOrder`, `TimeoutOfWaiter` and `RasterNeverWaits`; `InTime` is
`TimerInTime` and `OnTime`; `TimeGoesOn` is `NeverEarly`, `SystimSteps` and `LateRefused`). A task's step that
the case does not allow is not there because its calls are not enabled in it, never
because a guard was changed.

`CHECK_DEADLOCK FALSE`: in the runs of `Sched` all processors may idle for ever, in
`objects` all tasks may wait for each other, and after an exit all processors are halted
(`live` has an instance of `Sched` as well). The other passing runs check that there is no
deadlock.

**Bounds.** Two processors give every race between a processor and another one;
the kernel data of a third would only be touched through the same lock. Three
tasks give a processor a queue of two beside the task that is running, the least
for which the order in a queue matters; two suffice where the calls concern
the state of one task and a second one to switch to. Two priorities are a higher
and a lower one. Sub-priorities are 0 and 1, in the queue that uses them. No counter
of `Sched` has to be bounded: activations and wake-ups are queued once.
The groups of calls that interact are searched separately, because all of
them together are beyond exhaustive search. The calls `mig_self` and `sus_tsk` are only in
one group together in `run_suspend`. The starting barrier is checked with three
processors (two of them slaves, so that slaves can be at different barriers), and
proved for any number.

`DynIsr`: with three blocks a queue can have a routine before, at and behind the place of a
scan, one block can be reused while the others are in use, and two processors
go through the queue while one task waits and another one registers. Without a static routine
the queue can become empty during a scan (the case of `test_dcre5`, step 9). `MaxSeq` bounds the
registrations with a queue, the only counter: 5, two more than there are blocks, so
that blocks are registered again while the others stand.

`SpinLock`: `MaxNest` is 1: a handler above a task on each of two processors, four activities
on two locks, each of them interrupted where it can be. The proofs are for any depth.

`objects`: one object, or two mutexes, since the objects of a kind meet only in a task's priority. Three
tasks where the order of a queue matters (two wait, one acts), two where creation is
combined with everything else. Counts and rooms up to 2 have a place before, at and
behind the limit; a room of 0 is the synchronous data queue. In `sem`, H has a higher
priority than the tasks that wait before it. In `mtx_create` there are three priorities: the base, and
a ceiling on either side of another one.

`TimeEvent`: the sizes are small but ordered like the real ones (`TimeAssumption`, which lists the
conditions of `time_event.c:63-81`): 7 to 11 event times, a counter modulo 6, relative times up
to 2. The timer can be set to 3 ticks at most, as far as any event is ahead; in the case `bound` and in `live`
it is 1, less than the relative times (as for `arch/arm_gcc/zynqmp_r5`, where `HRTCNT_BOUND` is half of
the largest relative time), so that an event is reached in several interrupts. The event time
overflows every few ticks, in every state of the heaps. `MaxLate` bounds how late an event is
counted to be. The margin has to cover the delay of interrupts for each event, and the
adjustments (`MarginCovers`, which only the instances of `time` need). The case `move` has no delay of interrupts and a larger margin, because a migrated event may be
registered late (section 6); its timers are the matter of `time_migrate`. `set_tim` uses
the two ends of the range. A system time of 64 bits is modulo twice the range of the
event times: all that the code relies on is that it is larger. The heap has six events
so that a deletion moves an event up into another branch.

`Notify`: no counter. A notification of each kind that is created and deleted, and a static one to
be started beside them.

**Fairness.** `Startup`: weak fairness of every step of a processor but the call of
`ext_ker`: a processor executes its instructions, and nothing obliges it to
terminate the kernel. `Sched`: weak fairness, per processor, of what is under way:
the instructions of the dispatcher, an accepted interrupt, the end of a handler, a
call that goes on after it was resumed. Nothing is assumed of what tasks do. It is
one condition per processor, not one per action: the processor goes on, and
it does not choose. `DynIsr`: strong fairness of the return of each routine and of the look of a
task that waits in `del_isr`. Routines are short and return, though others may interrupt them
again and again; and a processor that is interrupted often is not in a handler all the time, or no
task would ever execute. Nothing is assumed of interrupts, registrations and deletions.
`TimeEvent`: time passes, and the timer interrupt, the request of another processor and
`signal_time` after a callback take place; how soon is the matter of `Latency`. `SpinLock`: weak
fairness of what a processor executes in a call, of the return of each handler, and of the end of
a task that keeps the CPU locked: a spin lock is meant for short sections, and what the code promises
is that a task that ends returns it. That a waiting processor gets the lock is not
claimed: test-and-set is not fair, and the code does not promise it. What is checked is
that it goes on accepting interrupts.

## 4. Theorems

60 theorems are listed in `PROJECT.json`; the tables name those about a property of the
system. The ones marked * are checked by no run, because a stronger or a later property covers
them, and are kept since they are what a reader of the code asks first.

`StartupProofs` proves for any number of processors, any master and any time
master (assumption `PrcAssumption`):

| Theorem | Property |
|---|---|
| `TypeCorrect` | `TypeOK` * |
| `BarrierCorrect` | `BarrierHolds` |
| `StartupCorrect` | `StartupOrder` |
| `ExitCorrect` | `ExitOrder` |
| `GlockCorrect` | `GlockExclusive` * |

The barrier is the difficult part, because the numbers 5 and 6 are announced twice: what
`prc_phase` and `sys_phase` say does not determine how far a processor is. The inductive
invariant (`BarrierInv`) ties them to `nb`, the number of barriers a processor has
called: `prc_phase` is the number of its last barrier; `sys_phase` is the number of the
last barrier that the master has released; a processor is in step with the master's last
release or one ahead of it, and then it waits in that barrier; while the master scans, a
count equal to the index means that the processors below the index have arrived. That
consecutive numbers differ (lemma `PhasesFacts`) is all that is needed of them: a slave that
polls cannot mistake the previous release for its own. `DataInv` records between which
barriers each step of the start and exit has its effect. The order of the steps follows.

`SchedProofs` proves about `Sched`, for any number of tasks, processors and priorities:

| Theorem | Property |
|---|---|
| `Invariance` | the inductive invariant `IInv` |
| `TypeCorrect` | `TypeOK` * |
| `QueuesCorrect` | `ReadyQueueCorrect` |
| `SchedtskCorrect` | `SchedtskIsTop` |
| `ContextInOnePlace` | `ContextExclusive` |
| `ResumeCorrect` | `NoStaleResume` |
| `NoDispatchLost` | `NoLostDispatch` |
| `TasksAgreeCorrect` | `TasksAgree` |
| `NothingKept` | `NothingKeptBack` |
| `PinnedTask` | `DispatchDisabledPinned` (the part of `NothingKeptBack` others rely on) |
| `SuspensionKept` | `SuspensionHolds` |
| `MigrationKeepsContext` | `MigrateWithContext` |

Assumptions: `ConfigAssumption` (what the configurator generates: finitely many tasks;
initial priorities, processors and affinities in range; `TPRC_NONE` and `NULL` are neither
tasks nor processors) and `NoSelfMigrationSuspended`: `Calls` does not have both `sus_tsk` and the
migration of the caller. With both, `ContextExclusive` is false (section 6), so the
assumption cannot be dropped; each of the two calls alone, together with all others, is covered.

The queues alone are not inductive. While dispatching is disabled `p_schedtsk` is not
updated, so it is a task of the processor only because of what the processor
executes; and that a task may be taken out of a queue depends on its state, which
depends on who executes it. `IInv` joins

* `Sound(ker)`, about the data under the lock: the ready queues hold the runnable tasks
  at their priority, in the order of sub-priorities where the priority has one (`QueuesHold`,
  `Ordered`), and where dispatching is enabled `p_schedtsk` is the first of them (`Scheduled`);
* `PlaceAt(p)`: in the CPU locked state the running task executes;
* `HoldAt(p)`: a processor that executes on behalf of a task has a task that is assigned to
  it and alive, whose context is in its TCB exactly in mode `switch`;
* `PinnedAt(p)`: what a processor with disabled dispatching executes;
* `DispatchAt(p)`: `dspflg` is what `enadsp` and the mask make it, and a processor that has
  settled on a task while `p_schedtsk` is another one is in `ipi`;
* `ContextOf(t)`: a task without a saved context is dormant or executed by the processor it is
  assigned to;
* `StateOf(ker, t)`, with `TcbState`: the fields of one TCB agree. Runnable excludes blocked,
  a dormant task has kept no request, a time event belongs to a waiting task and to its
  processor, the processor and that of a queued activation are in the affinity, a requested
  termination finds its task runnable;
* `PendingOf(t)`: a termination that was requested and is permitted has a processor with disabled
  dispatching that executes the task.

The last needs the one before: `ras_ter` leaves a task to terminate itself only if it is
runnable, and what makes it not runnable later has to look at `raster` first. And
`DispatchAt` needs more of every call than what it does to its own processor: the lemmas about
the queues say that where a call changes `p_schedtsk` of another processor, it requests an
interrupt there (`FlagsKept`).

The first half of the module states for each function on the kernel data what it changes. A step
of one processor keeps `HoldAt` of the others because it changes nothing they rely on:
`Calm` says so of a task, and `Fits` adds the only other case, a task that no
processor executes and that gets a context (`LocalStep`, `CallStep`). What remains is one
lemma for each action. `MigrationKeepsContext` follows from the invariant
before and after the step: a moved task without a context would be executed by its new
processor already, and a processor takes up a task only in its dispatcher (`NewHolder`).
`SuspensionKept` follows from the lemmas of the actions, too: besides the invariant each shows
that every suspended task stays suspended (`KeepsSuspended`), with the exception of the four
calls that may end a suspension (`Releases`).

`DynIsrProofs` proves about `DynIsr`, for any number of blocks, queues, processors, tasks and
priorities and any bound of the registrations (assumption `IsrAssumption`):

| Theorem | Property |
|---|---|
| `Invariance` | the inductive invariant `IInv` |
| `TypeCorrect` | `TypeOK` * |
| `HeldBlocks` | `BlockHeld` |
| `OrderedQueues` | `QueueOrder` * |
| `CalledAtMostOnce` | `CalledOnce` * |
| `CompleteScans` | `ScanComplete` |
| `NoCallAfterDeletion` | `DeletedNotCalled` |
| `EachBlockOnce` | `BlockOnce` |
| `NoBlockLost` | `BlockPlaces`, if no task can be terminated (`Terminable = {}`; otherwise it is false, see section 6) |

The invariant says where the blocks are (`FreeBlocks`, `QueuedBlocks`, `WaitedBlocks`), that a
bit of `running` is set exactly for the routines that the scans are at (`BlockHeld`,
`RunningBits`), and, in `CallsSoFar`, what the key at which a scan stands means: what
has been called and is still registered is not beyond the key, and what is due and has
not been called is registered and beyond it. A block that is reused gets a number that no
scan and no call has seen, because the numbers of a queue only grow: this is the one
place where the proof needs `isrseq` not to be reset. Every step of `call_isr` is an
instance of `LookStep`, whose premise `Looking` is what the first look of a scan and
the later ones have in common. `NoBlockLost` adds that no block is nowhere (`NotLost`), which
termination breaks.

`SpinLockProofs` proves about `SpinLock`, for any number of tasks, processors and locks, any
division into native and emulated ones, and any depth of nested handlers (assumption
`LockAssumption`: the names are distinct, and handlers are not tasks):

| Theorem | Property |
|---|---|
| `Invariance` | the inductive invariant `LockInv` |
| `TypeCorrect` | `TypeOK` * |
| `LocksExclusive` | `LockExclusive` |
| `HoldersUninterrupted` | `HolderUninterrupted` |
| `InterruptedCorrect` | `InterruptedHoldsNothing` * |
| `LocksImplemented` | `ImplementsLocks` |

That a lock word is set exactly while somebody holds the lock is not inductive, because a holder
is what executes at certain locations, and interrupts change what executes. The invariant adds:
what a stack looks like (`StackForm`, `TaskOnce`: an activity is on one stack, once, so that a
step of one processor cannot change the location of what another one executes); what a processor
may be in at each location (`ProcessorInv`: with a lock, or about to get one, the CPU is locked,
and `p_locspn` is only set outside the calls); and that what is interrupted has no lock
(`InterruptedHoldsNothing`). Then every step does to the locks one of three things
(`LockChange`): nothing, one lock is taken by a processor that has no spin lock, or one is
returned by its holder. `LockExclusive` follows from any of them (`ExclusiveKept`), and the three are the steps of the
abstract locks (`OwnerStep`), by which the refinement is proved.

`NotifyProofs` proves about `Notify`, for any number of notifications, processors and
handlers (assumption `NotifyAssumption`: the configurator assigns static notifications to
processors that handle time events, and the master is one of these):

| Theorem | Property |
|---|---|
| `Invariance` | the inductive invariant `NotifyInv` |
| `TypeCorrect` | `TypeOK` * |
| `RegisteredCorrect` | `StartedIsRegistered` |
| `EventBlocksCorrect` | `EventBlockIntact` |
| `OwnersCorrect` | `OwnerHandlesEvents` * |
| `NotificationsImplemented` | `ImplementsNotifications` |

`NotifyInv` joins the free lists (`FreeList`), the heaps (`StartedIsRegistered`), the owners
(`OwnerHandlesEvents`: `msta_alm` and `msta_cyc` only accept such processors, and without it the
event would be in no heap) and the blocks (`BlockOk`: who exists has its callback, who does not
is not started). Every step changes one notification (`OneChanged`) or one processor
(`RunStep`), which reduces the invariant to one block and the lists, and the refinement to a
status or a handler that changes (`StatusStep`, `HandlingStep`).

`TimeEventProofs` proves about `Heap`, `TimeHeap` and `TimeEvent`, for any number of events and
processors, any number of event times, and any sizes in the order of the real ones (assumptions
`HeapAssumption`, `TimesAssumption` and `TimeAssumption`). Of `HRTCNT_BOUND` they say what
`time_event.c:63-81` checks: it is less than the period of the counter. It may be less than the
relative times. The delays (`Latency`) may be of any size.

| Theorem | Property | Restriction |
|---|---|---|
| `InsertCorrect`, `DeleteCorrect`, `DeleteTopCorrect` | what the operations of the heap do to its order and its contents | |
| `HeapIsOrdered` | `HeapOrder` * | |
| `HeapImplementsQueue` | `ImplementsQueue` | |
| `TimeTypes` | `TypeOK` * | `OnTime` |
| `RealOrderHolds` | `RealOrder` | `OnTime` |
| `NeverEarlyHolds` | `NeverEarly` (in `TimeGoesOn`) | `OnTime` |
| `TimerInTimeHolds` | `TimerInTime` (in `InTime`) | `OnTime`, no `mig_tsk` |
| `SystimStepsHold` | `SystimSteps` (in `TimeGoesOn`) | `OnTime`, no `set_tim` |
| `LateRefusedHolds` | `LateRefused` (in `TimeGoesOn`) | `OnTime`, one time event processor |

Those about the time are of the form `Spec /\ []OnTime => ...`. `OnTime` is an assumption about the
environment that the code states (`time_event.h:58-61`, `time_event.c:99-104`) and cannot bring
about: under overload, with callbacks that follow each other without end, an event can be late by
any time. Nothing else is assumed of the delays. In the instances of the run `time`, whose margin
covers the delays of all their events together, `OnTime` follows from `Latency` (`InTime` includes it).
The other restrictions are exact. With `mig_tsk` `TimerInTime` is false (section 6), and the
theorem says that nothing else makes a timer late; `set_tim` sets the system time to any value;
and with a second time event processor `check_adjtim` does not see the late events of the other one
(section 6).

The heap: a node is above another one if it is on its way up (`Up`), and the ways of two nodes
meet only above both, so that moving the events of one way leaves the other branches as they
are. An event that is put into a hole needs two things: it is not before its parent, and not after
the children of the hole (`UpOrdered`, `DownOrdered`). `tmevtb_delete` moves the last event up or
down, whichever the parent of the hole says: one of the two is always enough. That the top is
an earliest event of all, not only of its children, follows by induction over the nodes.

The time: `Consistent` is the invariant that makes sense of the comparisons. The block of a
registered event has the event time at which it will be due (`Timed`: the current event time, plus
what has passed since the counter was read, plus what is left, modulo `EVT`); what is left is
bounded by the relative times and by how far the time has been set back (`Ahead`, at most twice
the adjustment). With `OnTime` this gives a range for the real times that is smaller than `EVT`,
in which the distance from the boundary event time is the distance in real time plus a
constant (`TimedKey`). So the order in a heap is that of the real times, in whatever state the
heap was last sorted. `TimersInTime` adds that the time has been read since a pending request for
a timer was made, or in the same step (`RequestInTime`), so that the timer is set relative to a time
that is old by one delay at most: this is what `mig_tsk` violates.

`ObjectProofs` proves about `Semaphore`, `Mutex`, `Eventflag` and `Dataqueue`, and with them about
the functions of `Wait`, for any number of tasks, objects and priorities, rings of any size, and any
of the calls that end or disturb a wait. The assumptions (`WaitAssumption`, `SemAssumption`,
`MtxAssumption`, `FlgAssumption`, `DtqAssumption`) are that the wait queues are those of the objects,
and that the initialisation blocks are what the configurator and the creating calls check.

| Theorem | Property |
|---|---|
| `Invariance` | the inductive invariant `SemInv` |
| `SemaphoreWaits`, `MutexWaits`, `FlagWaits`, `DataqueueWaits` | `WaitsAgree` |
| `NobodyWaitsInVain` | `NoWaitForAvailable` (in `NoVainWait`) |
| `BlocksCorrect` | `CountInRange`, `FreeBlocks` (in `BlocksIntact`) |
| `ResourceImplemented` | `ImplementsResource` (in `ImplementsResources`) |
| `MutexInvariance` | the inductive invariant `MtxInv` |
| `MutexHolders` | `HoldersAgree` |
| `MutexAwaited` | `WaitsForAnother` (in `NoVainWait`) |
| `MutexHandedOver` | `HandOver` |
| `FlagInvariance` | the inductive invariant `FlgInv` |
| `NobodyWaitsForSatisfied` | `NoWaitForSatisfied`, `SingleWaiter` (in `NoVainWait`) |
| `FlagReleases` | `ReleasedWithPattern` (in `ImplementsResources`) |
| `DataqueueInvariance` | the inductive invariant `DtqInv` |
| `WaitsForDataOrRoom` | `WaitsOnlyIfNeeded` (in `NoVainWait`) |
| `RingsIntact` | `RingConsistent`, `MemoryReturned` (in `BlocksIntact`) |
| `ChannelImplemented` | `ImplementsFifo` (in `ImplementsChannels`), if no data queue has `TA_TPRI` |

The run `objects` checks the properties in brackets for all kinds of objects together.
`WaitOk` is the invariant of the waits: a queue holds the tasks whose `p_wobjcb` points to it,
each once, sorted if it is in priority order (`QueueOk`), and a task control block is whole
(`TcbOk`). The last includes what the properties do not say and the proof needs: a task in the
transient state is suspended and does not wait yet, so that it may begin to. The functions of
`wait.c` change the waits in three ways: nothing, one task leaves a queue (`LeaveStep`), or it
enters one or changes its place (`JoinStep`). `Waiters` and `Results`, which are what the
resource sees, change accordingly, so that every call is one of the steps of module `Resource`
(`Takes`, `Blocks`, `Gives`, `Grants`, `Cancels`, `Forgets`, `Resets`, `Stutters`). The part up to
`TaskStep` does not mention semaphores.

`MtxInv` says of each task, by itself, how its list, its priority, its flag `boosted` and what it
waits for agree with the control blocks of the mutexes (`TaskOk`). That the priority is the
highest of the base priority and the ceilings is stated without a minimum (`PriorityOk`: no
lower than any of them, and equal to one), so that it follows for a task that gets a mutex
(`TaskGets`) or loses one (`TaskDrops`) from what it was before. `mutex_drop_priority`
calculates the priority anew only if the ceiling of the mutex is the current one: what `TaskDrops`
shows is that otherwise there is nothing to calculate, and that `boosted` stays right. `TaskDrops`
needs `CeilingOk`, that no base priority is above a ceiling, also of a mutex that the task waits
for, because `mutex_release` does not look at the base priority any more. That is what the test
in `chg_pri` is for (`TaskRebased`). And it needs that a dormant task has nothing (`DormantOk`).
In `terminate` several tasks get a mutex in one step; that these are different tasks, and that
none of them is the one that ends, is `AwaitsOk`: tasks wait only for what another task holds.

`FlgInv` says of the tasks that wait for an event flag, whatever their order, that their conditions
do not hold and that they wait for some bit, and that there is one of them at most without
`TA_WMUL` (`FlgQueueOk`). With `TA_CLR`, `set_flg` stops at the first task that it releases,
and the others stay though the pattern may have satisfied them, too: that they do not wait
in vain then is because the pattern is empty and nobody waits for no bit, which is what the check
of `waiptn` at the start of `wai_flg` is for. `set_flg` is the one call that takes several tasks out of
the middle of a queue: `WithoutFacts` (`QueuesProofs`) says what stays, in which order, and
`Releases` that the waits change as if each had left by itself.

`DtqInv` says of each data queue that its indices and its count agree (`RingOk`), and that
somebody waits to receive only with an empty ring and no sender, and to send only with a full
ring (`DtqQueueOk`); the receivers are in FIFO order, whatever `TA_TPRI` says of the senders.
The index that goes round is stated by a comparison (`Slot`), which `SlotIs` shows to be the
remainder that `Dataqueue` calculates. A ring of no place is full and empty at once: then a task
may wait on either side, but not on both. For the channel, `Line` is the ring from `head`
followed by what the senders hold. When a datum is received and there is a sender, the datum of
the first sender goes into the place that became free: the line loses its head and nothing else
(`TailLeft`, `MoveOver`). `fsnd_dtq` puts its datum at the end of the ring, in front of what the
senders hold (`InsertBetween`), and with a full ring it drops the head first. A sender that
stops waiting, for whatever reason, takes one datum out behind the ring (`Shrinks`,
`RemoveRight`). Only a sender that comes in the middle of the queue would be no step of the
channel, and that is what `SendersInOrder`, the hypothesis of the theorem, excludes: with
`TA_TPRI` the order is that in which the senders get their turn, and no channel of the order of
the calls. The other theorems about data queues do not need it.

## 5. Only model-checked

* Priority data queues and memory pools, with what they implement.
* Time events: that interrupts taken within `Latency` keep `OnTime`. It depends on how many
  events are due together, and is false for small margins.
* All liveness (`StartCompletes`, `ExitCompletes` and the run `live`): the prover has no
  rules for fairness and ENABLED.

## 6. Findings

`mig_tsk` (`kernel/task_manage.c:571`) treats a calling task that is not runnable like
any other task that is not runnable: it only stores the new processor. The calling task
is in this state when another processor has suspended it and its own processor has
not yet taken the dispatch request. It then goes on running on the old processor,
belongs to the new one, and `rsm_tsk` makes it runnable there: run `run_suspend` shows
two processors executing it. `doc/design.txt:1374-1378` concludes for tasks in this
state that issuing calls is not a problem.

`del_isr` (`kernel/interrupt.c:713`) waits with all locks released until no other processor
executes the routine, and then returns the block to `free_isrcb`. By then the routine is out of
its queue and marked `TA_NOEXS`. If the task is terminated while it waits, by a task of higher
priority on its processor or by `ras_ter`, nobody returns the block: run `dyn_isr_leak`. The ID is
lost for good. The comments in `acre_isr` (`interrupt.c:580`: the block is returned after the
wait) and on the wait (`interrupt.c:676-712`) do not consider this.

`mig_tsk` of a task that waits with a time-out (`kernel/task_manage.c:584-590`) calls
`tmevtb_dequeue` and `tmevtb_enqueue`. The first reads the time only if the event was at the top of
its heap, the second never does; but it sets the timer relative to `current_evttim` if the event
is at the top of the new heap, and `time_event.h:129` says that this is meant to be done after the time has
been read. Run `time_migrate`: the timer is set too late by the time that has passed since the last
reading.

Two more that have no run of their own:

* `check_adjtim` (`kernel/time_event.c:659`) looks at the heap of the executing processor only,
  while `adj_tim` adjusts all of them. `test/simt_systim2.c:78-79` states the requirement: E_OBJ if an event
  that is late by a second or more remains. On another processor one may, and repeated calls
  can use up the margin of the comparisons. On a processor that handles no time events the
  pointer `p_tevtcb` is NULL, which the code does not check. The case `adjust` therefore has
  one processor, and the model has `adj_tim` on time event processors only.
* `notify_handler` reads what to notify without the lock, in steps, and again for the
  error code (`kernel/time_manage.c:331`, `:365`). If the notification is deleted and its block
  is created again meanwhile, it notifies what the new one says. The design
  (`docs/superpowers/specs/2026-08-04-fmp3-dcre-stage2-cyc-alm-design.md:278-279`)
  considers only the call of the handler.

## 7. What could follow

1. Invariants of priority data queues and memory pools: the first part of `ObjectProofs`
   (`WaitOk` to `TaskStep`) is theirs, too.
2. `KernelMemory`: the blocks of the kernel memory pool.
3. Dynamic creation of tasks (`acre_tsk`, `del_tsk`, with the stack that `ext_tsk` still uses), on the
   pattern of `DynIsr`.
4. An abstract scheduler (each processor runs the first of its runnable tasks) that `Sched`
   implements.

## 8. Not modelled

* CPU exceptions, nested interrupts in `Sched`, stacks and register save areas; hardware
  registers, other architectures and boards; the configurator, which runs on the
  host; system services, libraries, log and samples. These are most of the
  lines of the repository.
* Calls that only read (`get_`, `ref_`, `sns_`), and checks that only return errors.
* `acre_tsk`, `del_tsk` and the lists of the kernel memory pool: the objects see a pool that may
  refuse.
* Memory order. The modules assume that the accesses of the processors are in one order.
  That the fences and the acquire and release forms of the atomic instructions bring this about
  is not checked.
* In `TimeEvent`: a counter of 64 bits (`USE_64BIT_HRTCNT`), timers that another processor can set
  (`SUPPORT_CONTROL_OTHER_HRT`), delays of interrupts beyond `Latency`.
* In `Notify`: what `notify_handler` notifies.
* In `DynIsr`: the `exinf` and the body of a routine, and the restoration of the CPU lock after a
  routine.
* In `Mempfix`: addresses that are not at the beginning of a block. In `Mutex`: sub-priorities, and the
  ready queues, which `Sched` has.
