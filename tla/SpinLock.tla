------------------------------- MODULE SpinLock -------------------------------
(***************************************************************************)
(* Spin locks (kernel/spin_lock.c), native and emulated ones, and the      *)
(* giant lock under them (arch/riscv_gcc/common/core_kernel_impl.h).       *)
(*                                                                         *)
(* On each processor a task and the interrupt handlers above it share the  *)
(* CPU lock and p_locspn.  A task that waits for a lock waits with         *)
(* interrupts open: handlers that use the same locks interrupt it, and it  *)
(* may go on on another processor.                                         *)
(***************************************************************************)
EXTENDS Naturals, FiniteSets, SequencesExt

CONSTANTS
    Tsk,       \* the tasks
    Prc,       \* the processors
    Spn,       \* the spin locks
    Native,    \* those that the architecture implements
    NULL,      \* no spin lock, no processor
    GLOCK,     \* the giant lock
    EXIT,      \* the service call ext_tsk; the others are NULL
    MaxNest    \* nested interrupt handlers on a processor

ASSUME LockAssumption ==
    /\ Native \subseteq Spn
    /\ {NULL, GLOCK, EXIT} \cap Spn = {} /\ NULL \notin Prc
    /\ Cardinality({NULL, GLOCK, EXIT}) = 3
    /\ MaxNest \in Nat
    /\ Tsk \cap (Prc \X (1 .. MaxNest)) = {}

\* What executes: the tasks, and the handlers of each processor by nesting depth.
Handler == Prc \X (1 .. MaxNest)
Agent == Tsk \cup Handler

VARIABLES
    word,      \* the lock words: LOCK, or LOCKFLAG of an emulated lock
    p_locspn,  \* the spin lock that each processor has acquired
    cpulock,   \* the processors with the CPU locked
    stack,     \* who executes on each processor, the interrupted ones first
    pc,        \* where in a call each agent is
    call       \* its call: the spin lock, whether it polls (try_spn)

vars == <<word, p_locspn, cpulock, stack, pc, call>>

Locations == {"out", "acquire", "window", "glocked", "flagged", "poll", "got", "unlock"}

TypeOK ==
    /\ word \in [Spn \cup {GLOCK} -> BOOLEAN]
    /\ p_locspn \in [Prc -> Spn \cup {NULL}]
    /\ cpulock \in [Prc -> BOOLEAN]
    /\ stack \in [Prc -> Seq(Agent)]
    /\ pc \in [Agent -> Locations]
    /\ call \in [Agent -> [spn: Spn \cup {NULL, EXIT}, try: BOOLEAN]]
    /\ \A a \in Agent : pc[a] \in {"flagged", "poll", "got", "unlock"} => call[a].spn \in Spn

NoCall == [spn |-> NULL, try |-> FALSE]

\* initialize_spin_lock and initialize_glock, before anything else runs.
Init ==
    /\ word = [l \in Spn \cup {GLOCK} |-> FALSE]
    /\ p_locspn = [p \in Prc |-> NULL]
    /\ cpulock = [p \in Prc |-> FALSE]
    /\ stack = [p \in Prc |-> << >>]
    /\ pc = [a \in Agent |-> "out"]
    /\ call = [a \in Agent |-> NoCall]

Executes(p, a) == stack[p] # << >> /\ Last(stack[p]) = a

\* Agent a goes on at location l in its call, with the CPU lock set to b.
Goto(p, a, l, b) ==
    /\ pc' = [pc EXCEPT ![a] = l]
    /\ cpulock' = [cpulock EXCEPT ![p] = b]

\* Its call goes on, or it returns.
Proceed(p, a, l, b) == Goto(p, a, l, b) /\ UNCHANGED call
Return(p, a, b) == Goto(p, a, "out", b) /\ call' = [call EXCEPT ![a] = NoCall]

----------------------------------------------------------------------------
\* acquire_lock and try_lock: the word that the call of a tests and sets.

Word(a) == IF call[a].spn \in Native THEN call[a].spn ELSE GLOCK

\* The calls begin with CHECK_UNL and lock_cpu.
Enter(p, a, s, try) ==
    /\ Executes(p, a) /\ pc[a] = "out" /\ ~cpulock[p]
    /\ Goto(p, a, "acquire", TRUE)
    /\ call' = [call EXCEPT ![a] = [spn |-> s, try |-> try]]
    /\ UNCHANGED <<word, p_locspn, stack>>

loc_spn(p, a, s) == Enter(p, a, s, FALSE)
try_spn(p, a, s) == Enter(p, a, s, TRUE)

\* Any other service call: a critical section under the giant lock.
service_call(p, a) == Enter(p, a, NULL, FALSE)

\* A fault of the next action: the word is read and written in two steps, of
\* which this is the second.
TasLate(p, a) ==
    /\ Executes(p, a) /\ pc[a] = "acquire"
    /\ word' = [word EXCEPT ![Word(a)] = TRUE]
    /\ Proceed(p, a, IF call[a].spn \in Native THEN "got" ELSE "glocked", TRUE)
    /\ UNCHANGED <<p_locspn, stack>>

TasTaken(p, a) ==
    /\ Executes(p, a) /\ pc[a] = "acquire" /\ ~word[Word(a)]
    /\ word' = [word EXCEPT ![Word(a)] = TRUE]
    /\ Proceed(p, a, IF call[a].spn \in Native THEN "got" ELSE "glocked", TRUE)
    /\ UNCHANGED <<p_locspn, stack>>

\* A fault of the next action: the CPU stays locked in the loop.
TasFailedClosed(p, a) ==
    /\ Executes(p, a) /\ pc[a] = "acquire" /\ word[Word(a)]
    /\ IF call[a].try /\ call[a].spn \in Native THEN Return(p, a, FALSE)
                                                ELSE Proceed(p, a, "window", TRUE)
    /\ UNCHANGED <<word, p_locspn, stack>>

\* The lock is not free: open the interrupt window, or give up (try_spn).
TasFailed(p, a) ==
    /\ Executes(p, a) /\ pc[a] = "acquire" /\ word[Word(a)]
    /\ IF call[a].try /\ call[a].spn \in Native THEN Return(p, a, FALSE)
                                                ELSE Proceed(p, a, "window", FALSE)
    /\ UNCHANGED <<word, p_locspn, stack>>

WindowEnds(p, a) ==
    /\ Executes(p, a) /\ pc[a] = "window"
    /\ Proceed(p, a, "acquire", TRUE)
    /\ UNCHANGED <<word, p_locspn, stack>>

----------------------------------------------------------------------------
\* Emulated spin locks: LOCKFLAG is tested and set under the giant lock.

\* A fault of the next action: LOCKFLAG is only read outside the giant lock.
FlagTakenLate(p, a) ==
    /\ Executes(p, a) /\ pc[a] = "glocked" /\ call[a].spn \in Spn
    /\ word' = [word EXCEPT ![call[a].spn] = TRUE]
    /\ Proceed(p, a, "flagged", TRUE)
    /\ UNCHANGED <<p_locspn, stack>>

FlagTaken(p, a) ==
    /\ Executes(p, a) /\ pc[a] = "glocked"
    /\ call[a].spn \in Spn /\ ~word[call[a].spn]
    /\ word' = [word EXCEPT ![call[a].spn] = TRUE]
    /\ Proceed(p, a, "flagged", TRUE)
    /\ UNCHANGED <<p_locspn, stack>>

FlagReleasesGlock(p, a) ==
    /\ Executes(p, a) /\ pc[a] = "flagged"
    /\ word' = [word EXCEPT ![GLOCK] = FALSE]
    /\ Proceed(p, a, "got", TRUE)
    /\ UNCHANGED <<p_locspn, stack>>

FlagFailed(p, a) ==
    /\ Executes(p, a) /\ pc[a] = "glocked"
    /\ call[a].spn \in Spn /\ word[call[a].spn]
    /\ word' = [word EXCEPT ![GLOCK] = FALSE]
    /\ IF call[a].try THEN Return(p, a, FALSE) ELSE Proceed(p, a, "poll", FALSE)
    /\ UNCHANGED <<p_locspn, stack>>

\* The loop on LOCKFLAG outside the giant lock.
PollEnds(p, a) ==
    /\ Executes(p, a) /\ pc[a] = "poll" /\ ~word[call[a].spn]
    /\ Proceed(p, a, "acquire", TRUE)
    /\ UNCHANGED <<word, p_locspn, stack>>

\* The lock is taken; the processor is read only now (get_my_pcb).
SetLocspn(p, a) ==
    /\ Executes(p, a) /\ pc[a] = "got"
    /\ p_locspn' = [p_locspn EXCEPT ![p] = call[a].spn]
    /\ Return(p, a, TRUE)
    /\ UNCHANGED <<word, stack>>

----------------------------------------------------------------------------
\* unl_spn, in two steps: p_locspn is cleared before the lock is returned.

unl_spn(p, a) ==
    /\ Executes(p, a) /\ pc[a] = "out" /\ p_locspn[p] # NULL
    /\ call' = [call EXCEPT ![a] = [spn |-> p_locspn[p], try |-> FALSE]]
    /\ p_locspn' = [p_locspn EXCEPT ![p] = NULL]
    /\ pc' = [pc EXCEPT ![a] = "unlock"]
    /\ UNCHANGED <<word, cpulock, stack>>

ReturnSpn(p, a) ==
    /\ Executes(p, a) /\ pc[a] = "unlock"
    /\ word' = [word EXCEPT ![call[a].spn] = FALSE]
    /\ Return(p, a, FALSE)
    /\ UNCHANGED <<p_locspn, stack>>

loc_cpu(p, a) ==
    /\ Executes(p, a) /\ pc[a] = "out" /\ ~cpulock[p]
    /\ Return(p, a, TRUE)
    /\ UNCHANGED <<word, p_locspn, stack>>

\* A fault of the next action: a spin lock does not keep the CPU locked.
unl_cpu_always(p, a) ==
    /\ Executes(p, a) /\ pc[a] = "out" /\ cpulock[p]
    /\ Return(p, a, FALSE)
    /\ UNCHANGED <<word, p_locspn, stack>>

unl_cpu(p, a) ==
    /\ Executes(p, a) /\ pc[a] = "out" /\ cpulock[p] /\ p_locspn[p] = NULL
    /\ Return(p, a, FALSE)
    /\ UNCHANGED <<word, p_locspn, stack>>

\* The lock words after force_unlock_spin on p.
ForceUnlockSpin(p) ==
    IF p_locspn[p] = NULL THEN word ELSE [word EXCEPT ![p_locspn[p]] = FALSE]

----------------------------------------------------------------------------
\* The end of the other calls, and the end of a task.

EndServiceCall(p, a) ==
    /\ Executes(p, a) /\ pc[a] = "glocked" /\ call[a].spn = NULL
    /\ word' = [word EXCEPT ![GLOCK] = FALSE]
    /\ Return(p, a, FALSE)
    /\ UNCHANGED <<p_locspn, stack>>

\* A fault of the next action: a spin lock stays locked when its owner exits.
ext_tsk_keeps(p, t) ==
    /\ stack[p] = <<t>> /\ t \in Tsk /\ pc[t] = "out"
    /\ Goto(p, t, "acquire", TRUE)
    /\ call' = [call EXCEPT ![t] = [spn |-> EXIT, try |-> FALSE]]
    /\ UNCHANGED <<word, p_locspn, stack>>

\* ext_tsk, also from the CPU locked state and with a spin lock.
ext_tsk(p, t) ==
    /\ stack[p] = <<t>> /\ t \in Tsk /\ pc[t] = "out"
    /\ word' = ForceUnlockSpin(p)
    /\ p_locspn' = [p_locspn EXCEPT ![p] = NULL]
    /\ Goto(p, t, "acquire", TRUE)
    /\ call' = [call EXCEPT ![t] = [spn |-> EXIT, try |-> FALSE]]
    /\ UNCHANGED stack

EndExtTsk(p, t) ==
    /\ Executes(p, t) /\ pc[t] = "glocked" /\ call[t].spn = EXIT
    /\ word' = [word EXCEPT ![GLOCK] = FALSE]
    /\ Return(p, t, FALSE)
    /\ stack' = [stack EXCEPT ![p] = << >>]
    /\ UNCHANGED p_locspn

----------------------------------------------------------------------------
\* The dispatcher and the interrupts.

\* A task that no processor executes goes on, or is started.
Dispatch(p, t) ==
    /\ stack[p] = << >> /\ ~cpulock[p]
    /\ \A q \in Prc : t \notin Range(stack[q])
    /\ stack' = [stack EXCEPT ![p] = <<t>>]
    /\ UNCHANGED <<word, p_locspn, cpulock, pc, call>>

\* A task is preempted where interrupts are accepted, in its code or in a wait.
Preempt(p) ==
    /\ Len(stack[p]) = 1 /\ Head(stack[p]) \in Tsk /\ ~cpulock[p]
    /\ stack' = [stack EXCEPT ![p] = << >>]
    /\ UNCHANGED <<word, p_locspn, cpulock, pc, call>>

\* Interrupt handlers on a processor, whatever they interrupted.
Nest(p) == Len(stack[p]) - (IF stack[p] # << >> /\ Head(stack[p]) \in Tsk THEN 1 ELSE 0)

Interrupt(p) ==
    /\ ~cpulock[p] /\ Nest(p) < MaxNest
    /\ stack' = [stack EXCEPT ![p] = Append(@, <<p, Nest(p) + 1>>)]
    /\ UNCHANGED <<word, p_locspn, cpulock, pc, call>>

\* The handler returns; the interrupt exit releases what it left locked.
InterruptReturn(p, a) ==
    /\ Executes(p, a) /\ a \in Handler /\ pc[a] = "out"
    /\ word' = ForceUnlockSpin(p)
    /\ p_locspn' = [p_locspn EXCEPT ![p] = NULL]
    /\ cpulock' = [cpulock EXCEPT ![p] = FALSE]
    /\ stack' = [stack EXCEPT ![p] = Front(@)]
    /\ UNCHANGED <<pc, call>>

----------------------------------------------------------------------------
\* What a call that is under way does next.
Continue(p, a) ==
    \/ TasTaken(p, a) \/ TasFailed(p, a) \/ WindowEnds(p, a)
    \/ FlagTaken(p, a) \/ FlagReleasesGlock(p, a)
    \/ FlagFailed(p, a) \/ PollEnds(p, a)
    \/ SetLocspn(p, a) \/ ReturnSpn(p, a)
    \/ EndServiceCall(p, a) \/ EndExtTsk(p, a)

Begin(p, a) ==
    \/ \E s \in Spn : loc_spn(p, a, s) \/ try_spn(p, a, s)
    \/ service_call(p, a) \/ unl_spn(p, a)
    \/ loc_cpu(p, a) \/ unl_cpu(p, a) \/ ext_tsk(p, a)

Next ==
    \E p \in Prc :
        \/ \E a \in Agent : Continue(p, a) \/ Begin(p, a) \/ InterruptReturn(p, a)
        \/ \E t \in Tsk : Dispatch(p, t)
        \/ Preempt(p) \/ Interrupt(p)

Spec == Init /\ [][Next]_vars

\* A processor executes the call it is in, and no code keeps the CPU locked
\* for ever: a handler returns, and a task ends its critical section, if only
\* by ext_tsk.
Fairness ==
    \A p \in Prc :
        /\ WF_vars(\E a \in Agent : Continue(p, a))
        /\ \A a \in Handler : WF_vars(InterruptReturn(p, a))
        /\ \A t \in Tsk : WF_vars(cpulock[p] /\ ext_tsk(p, t))

FairSpec == Spec /\ Fairness

----------------------------------------------------------------------------
\* Properties

\* The processor p has the lock l: what executes there is between the
\* test-and-set and the release.
Holds(p, l) ==
    /\ stack[p] # << >>
    /\ LET a == Last(stack[p])
       IN  IF l = GLOCK THEN pc[a] \in {"glocked", "flagged"}
           ELSE \/ p_locspn[p] = l
                \/ pc[a] \in {"flagged", "got", "unlock"} /\ call[a].spn = l

\* A lock word is set exactly while one processor is between taking the lock
\* and returning it, whatever interrupted, preempted or ended the activities in
\* between (spin_lock.c:190-221, :318-341, core_kernel_impl.h:455-507).
LockExclusive ==
    \A l \in Spn \cup {GLOCK} :
        /\ word[l] <=> \E p \in Prc : Holds(p, l)
        /\ \A p, q \in Prc : Holds(p, l) /\ Holds(q, l) => p = q

\* A processor that has a lock is in the CPU locked state, and it has one spin
\* lock at most: nothing that runs on it can wait for the lock it has
\* (spin_lock.c:201-204, sys_manage.c:572).
HolderUninterrupted ==
    \A p \in Prc :
        /\ \A l \in Spn \cup {GLOCK} : Holds(p, l) => cpulock[p]
        /\ \A l, m \in Spn : Holds(p, l) /\ Holds(p, m) => l = m

\* An activity that is not executing has no lock and waits at a place where
\* interrupts are accepted, so it can go on on any processor
\* (core_kernel_impl.h:462-466, spin_lock.c:207-216).
InterruptedHoldsNothing ==
    \A a \in Agent :
        (\A p \in Prc : ~Executes(p, a)) => pc[a] \in {"out", "window", "poll"}

\* The spin locks are abstract locks: what happens to one of them is an
\* acquisition by a processor that has none, or its release (spin_lock.c).
Owner == [l \in Spn |->
    IF \E p \in Prc : Holds(p, l) THEN CHOOSE p \in Prc : Holds(p, l) ELSE NULL]

AbstractLocks == INSTANCE Locks WITH Lock <- Spn, owner <- Owner

ImplementsLocks == AbstractLocks!LocksSpec

\* No lock is kept for ever, even by a handler or a task that ends without
\* returning it (spin_lock.c:162, task_term.c:129, core_support.S:553).
LockReleased == \A l \in Spn \cup {GLOCK} : word[l] ~> ~word[l]

\* A processor that waits for a lock goes on accepting interrupts, however
\* long others use the lock (core_kernel_impl.h:462-466).
InterruptsAccepted == \A p \in Prc : cpulock[p] ~> ~cpulock[p]
================================================================================
