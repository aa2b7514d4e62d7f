------------------------------- MODULE TimeEvent -------------------------------
(***************************************************************************)
(* Time events and the system time (kernel/time_event.c, time_manage.c).   *)
(* Each time event processor has a heap of events and a timer of its own;  *)
(* the current event time and the counter of the high resolution timer are *)
(* shared.  A service call is one step, under the giant lock; signal_time  *)
(* is one step from each place where it has the lock to the next one where *)
(* a callback releases it.                                                 *)
(*                                                                         *)
(* Real time passes in ticks of the counter (Tick).  An interrupt that has *)
(* been requested is taken within Latency ticks, and so is the lock after  *)
(* a callback: nothing is promised to applications that mask interrupts    *)
(* for longer.                                                             *)
(***************************************************************************)
EXTENDS Heap

CONSTANTS
    Prc,              \* the processors
    Tepp,             \* the time event processors (TOPPERS_TEPP_PRC)
    TM,               \* the time master processor
    NULL,             \* no event, no timer interrupt, no heap
    TCYC_HRTCNT,      \* the counter of the timer counts modulo this
    TSTEP_HRTCNT, HRTCNT_BOUND, BOUNDARY_MARGIN, TMAX_RELTIM, TMAX_ADJTIM,
    Latency,          \* a bound for the delay of interrupts, in ticks
    RelTimes,         \* the relative times used in an instance
    Calls             \* the calls that an instance makes

AllCalls == {"enqueue", "remote", "dequeue", "cyclic", "adj_tim", "set_tim", "get_tim", "mig_tsk"}

TimeAssumption ==
    /\ IsFiniteSet(Prc) /\ Tepp \subseteq Prc /\ TM \in Tepp
    /\ NULL \notin Ev /\ NULL \notin Nat
    /\ {TCYC_HRTCNT, TSTEP_HRTCNT, HRTCNT_BOUND, BOUNDARY_MARGIN, TMAX_RELTIM} \subseteq Nat \ {0}
    /\ TMAX_ADJTIM \in Nat /\ Latency \in Nat
    /\ RelTimes \subseteq 0 .. TMAX_RELTIM
    /\ Calls \subseteq AllCalls
    \* time_event.c:63-81, kernel.h:691, time_event.h:60
    /\ HRTCNT_BOUND < TCYC_HRTCNT /\ TCYC_HRTCNT <= EVT
    /\ TMAX_RELTIM + TSTEP_HRTCNT + 2 * TMAX_ADJTIM + BOUNDARY_MARGIN < EVT

\* Of an instance in which OnTime follows from Latency: the margin covers the
\* delays of all events together, and the adjustments.
MarginCovers == (Cardinality(Ev) + 1) * Latency + TMAX_ADJTIM <= BOUNDARY_MARGIN

VARIABLES
    tim,        \* the shared variables of the time
    evttim,     \* the time in each event block
    tmevt_heap, \* the heap of each time event processor
    running,    \* the event whose callback signal_time executes; in_signal_time
    hrt,        \* the ticks until the timer interrupt of each processor
    request,    \* request_set_hrt_event has interrupted the processor
    late,       \* for how many ticks an interrupt or the lock has been pending
    due         \* the real time until each event, for the properties

vars == <<tim, evttim, tmevt_heap, running, hrt, request, late, due>>

EvtTim == 0 .. EVT - 1

\* elapsed is the real time since current_hrtcnt was read: the counter itself
\* is used only to know that.  systim_offset is of 64 bits: 2 * EVT stands
\* for 2^64.
TIM == [current_evttim: EvtTim, monotonic_evttim: EvtTim, systim_offset: 0 .. 2 * EVT - 1,
        elapsed: Nat]

TypeOK ==
    /\ tim \in TIM
    /\ evttim \in [Ev -> EvtTim]
    /\ tmevt_heap \in [Tepp -> Seq(Ev)]
    /\ running \in [Tepp -> Ev \cup {NULL}]
    /\ hrt \in [Tepp -> 0 .. HRTCNT_BOUND \cup {NULL}]
    /\ request \in [Tepp -> BOOLEAN]
    /\ late \in [Tepp -> 0 .. Latency]
    /\ due \in [Ev -> Int]

\* initialize_tmevt, and the start of the timers in sta_ker.
Init ==
    /\ tim = [current_evttim |-> 0, monotonic_evttim |-> 0, systim_offset |-> 0, elapsed |-> 0]
    /\ evttim = [e \in Ev |-> 0]
    /\ tmevt_heap = [p \in Tepp |-> << >>]
    /\ running = [p \in Tepp |-> NULL]
    /\ hrt = [p \in Tepp |-> IF p = TM THEN HRTCNT_BOUND ELSE NULL]
    /\ request = [p \in Tepp |-> FALSE]
    /\ late = [p \in Tepp |-> 0]
    /\ due = [e \in Ev |-> 0]

in_signal_time(p) == running[p] # NULL
Queued(e) == \E p \in Tepp : e \in Range(tmevt_heap[p])
Used(e) == Queued(e) \/ \E p \in Tepp : running[p] = e

boundary_evttim(t) == (t.current_evttim - BOUNDARY_MARGIN) % EVT

----------------------------------------------------------------------------
\* A fault of the next operator: no carry into the offset.
Advance_no_carry(t, d) ==
    LET new == (t.current_evttim + d) % EVT
    IN  [t EXCEPT !.current_evttim = new,
                  !.monotonic_evttim = IF (@ - t.current_evttim) % EVT < d THEN new ELSE @]

\* The current event time advances; the carry of the most advanced event time
\* goes to the offset of the system time.
Advance(t, d) ==
    LET new    == (t.current_evttim + d) % EVT
        ahead  == (t.monotonic_evttim - t.current_evttim) % EVT < d
    IN  [t EXCEPT !.current_evttim = new,
                  !.monotonic_evttim = IF ahead THEN new ELSE @,
                  !.systim_offset = IF ahead /\ new < t.monotonic_evttim
                                      THEN (@ + EVT) % (2 * EVT) ELSE @]

update_current_evttim(t) ==
    [Advance(t, t.elapsed % TCYC_HRTCNT) EXCEPT !.elapsed = 0]

\* A fault of the next operator: the time master sets no timer for an empty heap.
HrtEvent_empty(p, h, ev, t) ==
    IF h = << >> THEN NULL
    ELSE IF EVTTIM_LE(ev[h[1]], t.current_evttim, boundary_evttim(t)) THEN 0
    ELSE Min({HRTCNT_BOUND, (ev[h[1]] - t.current_evttim) % EVT})

\* set_hrt_event on the processor p: the value the timer is set to.
HrtEvent(p, h, ev, t) ==
    IF h = << >> THEN IF p = TM THEN HRTCNT_BOUND ELSE NULL
    ELSE IF EVTTIM_LE(ev[h[1]], t.current_evttim, boundary_evttim(t)) THEN 0
    ELSE Min({HRTCNT_BOUND, (ev[h[1]] - t.current_evttim) % EVT})

\* A fault of the next operator: the other processors are not interrupted.
set_hrt_event_own(self, set, heaps, ev, t) ==
    /\ hrt' = [p \in Tepp |-> IF p = self /\ p \in set
                                THEN HrtEvent(p, heaps[p], ev, t) ELSE hrt[p]]
    /\ UNCHANGED request

\* set_hrt_event by self for the processors of set: the other ones are
\* interrupted, to do it themselves.
set_hrt_event(self, set, heaps, ev, t) ==
    /\ hrt' = [p \in Tepp |-> IF p = self /\ p \in set
                                THEN HrtEvent(p, heaps[p], ev, t) ELSE hrt[p]]
    /\ request' = [p \in Tepp |-> request[p] \/ (p # self /\ p \in set)]

\* The processor whose heap has the events of p.
HeapOwner(p) == IF p \in Tepp THEN p ELSE TM

\* The time of a block that is not registered any more has no meaning.
Forget(set) ==
    /\ evttim' = [e \in Ev |-> IF e \in set THEN 0 ELSE evttim[e]]
    /\ due' = [e \in Ev |-> IF e \in set THEN 0 ELSE due[e]]

----------------------------------------------------------------------------
\* tmevtb_enqueue_reltim, executed by self, with the events of p.
tmevtb_enqueue_reltim(self, p, e, time) ==
    LET t     == update_current_evttim(tim)
        q     == HeapOwner(p)
        ev    == [evttim EXCEPT ![e] = (t.current_evttim + TSTEP_HRTCNT + time) % EVT]
        heaps == [tmevt_heap EXCEPT ![q] = tmevtb_insert(@, e, ev, boundary_evttim(t))]
    IN  /\ ~Used(e)
        /\ tim' = t /\ evttim' = ev /\ tmevt_heap' = heaps
        /\ set_hrt_event(self, IF ~in_signal_time(q) /\ heaps[q][1] = e THEN {q} ELSE {},
                         heaps, ev, t)
        /\ due' = [due EXCEPT ![e] = TSTEP_HRTCNT + time]
        /\ UNCHANGED <<running, late>>

\* tmevtb_dequeue
tmevtb_dequeue(self, q, e) ==
    LET top   == tmevt_heap[q][1] = e /\ ~in_signal_time(q)
        t     == IF top THEN update_current_evttim(tim) ELSE tim
        heaps == [tmevt_heap EXCEPT ![q] = tmevtb_delete(@, e, evttim, boundary_evttim(tim))]
    IN  /\ e \in Range(tmevt_heap[q])
        /\ tim' = t /\ tmevt_heap' = heaps
        /\ set_hrt_event(self, IF top THEN {q} ELSE {}, heaps, evttim, t)
        /\ Forget({e})
        /\ UNCHANGED <<running, late>>

\* A fault of the next operator: the event is not removed from the first heap.
mig_tsk_twice(self, p, e) ==
    LET q == HeapOwner(self)
        r == HeapOwner(p)
    IN  /\ q # r /\ e \in Range(tmevt_heap[q]) \ Range(tmevt_heap[r])
        /\ tmevt_heap' = [tmevt_heap EXCEPT ![r] = tmevtb_insert(@, e, evttim, boundary_evttim(tim))]
        /\ request' = [request EXCEPT ![r] = @ \/ tmevt_heap'[r][1] = e]
        /\ UNCHANGED <<tim, evttim, hrt, running, late, due>>

\* mig_tsk of a task that waits with a time-out: tmevtb_dequeue from the heap
\* of self, tmevtb_enqueue into the heap of another processor.  Only the first
\* may update the current event time.
mig_tsk(self, p, e) ==
    LET q     == HeapOwner(self)
        r     == HeapOwner(p)
        top   == tmevt_heap[q][1] = e /\ ~in_signal_time(q)
        t     == IF top THEN update_current_evttim(tim) ELSE tim
        rest  == [tmevt_heap EXCEPT ![q] = tmevtb_delete(@, e, evttim, boundary_evttim(tim))]
        heaps == [rest EXCEPT ![r] = tmevtb_insert(@, e, evttim, boundary_evttim(t))]
        first == ~in_signal_time(r) /\ heaps[r][1] = e
    IN  /\ q # r /\ e \in Range(tmevt_heap[q])
        /\ tim' = t /\ tmevt_heap' = heaps
        /\ set_hrt_event(self, {s \in Tepp : (s = q /\ top) \/ (s = r /\ first)}, heaps, evttim, t)
        /\ UNCHANGED <<evttim, running, late, due>>

\* A fault of the next operator: late events do not matter.
check_adjtim_only_back(self, adjtim, t) ==
    adjtim < 0 /\ (t.monotonic_evttim - t.current_evttim) % EVT >= TMAX_ADJTIM

\* check_adjtim: the time must not be adjusted any more.
check_adjtim(self, adjtim, t) ==
    IF adjtim > 0
      THEN /\ tmevt_heap[self] # << >>
           /\ EVTTIM_LE((evttim[tmevt_heap[self][1]] + TMAX_ADJTIM) % EVT, t.current_evttim,
                        boundary_evttim(t))
      ELSE (t.monotonic_evttim - t.current_evttim) % EVT >= TMAX_ADJTIM

\* adj_tim by a time event processor; check_adjtim uses p_tevtcb, which the
\* other ones do not have.
adj_tim(self, adjtim) ==
    LET t0 == update_current_evttim(tim)
        t  == IF adjtim > 0 THEN Advance(t0, adjtim)
              ELSE [t0 EXCEPT !.current_evttim = (@ + adjtim) % EVT]
    IN  /\ IF check_adjtim(self, adjtim, t0)
             THEN tim' = t0 /\ UNCHANGED <<hrt, request, due>>
             ELSE /\ tim' = t
                  /\ set_hrt_event(self, {p \in Tepp : ~in_signal_time(p)}, tmevt_heap, evttim, t)
                  /\ due' = [e \in Ev |-> IF Queued(e) THEN due[e] - adjtim ELSE due[e]]
        /\ UNCHANGED <<evttim, tmevt_heap, running, late>>

Systim(t) == (t.systim_offset + t.monotonic_evttim) % (2 * EVT)

set_tim(systim) ==
    LET t == update_current_evttim(tim)
    IN  /\ tim' = [t EXCEPT !.systim_offset = (systim - t.monotonic_evttim) % (2 * EVT)]
        /\ UNCHANGED <<evttim, tmevt_heap, running, hrt, request, late, due>>

\* get_tim and tmevt_lefttim
get_tim ==
    /\ tim' = update_current_evttim(tim)
    /\ UNCHANGED <<evttim, tmevt_heap, running, hrt, request, late, due>>

\* The interrupt for request_set_hrt_event, also within a callback.
set_hrt_event_handler(p) ==
    /\ request[p]
    /\ request' = [request EXCEPT ![p] = FALSE]
    /\ hrt' = [hrt EXCEPT ![p] = HrtEvent(p, tmevt_heap[p], evttim, tim)]
    /\ late' = [late EXCEPT ![p] = 0]
    /\ UNCHANGED <<tim, evttim, tmevt_heap, running, due>>

----------------------------------------------------------------------------
\* signal_time

IsDue(p, t) ==
    /\ tmevt_heap[p] # << >>
    /\ EVTTIM_LE(evttim[tmevt_heap[p][1]], t.current_evttim, boundary_evttim(t))

\* The first event is taken and its callback called; that of a cyclic
\* notification registers it again, before the lock is released
\* (tmevtb_register in call_cyclic).
Callback(p, t) ==
    LET e    == tmevt_heap[p][1]
        rest == tmevtb_delete_top(tmevt_heap[p], evttim, boundary_evttim(t))
    IN  /\ running' = [running EXCEPT ![p] = e]
        /\ tim' = t
        /\ \/ /\ tmevt_heap' = [tmevt_heap EXCEPT ![p] = rest]
              /\ Forget({e})
           \/ \E cyctim \in RelTimes \ {0} :
                 /\ "cyclic" \in Calls
                 /\ evttim' = [evttim EXCEPT ![e] = (@ + cyctim) % EVT]
                 /\ due' = [due EXCEPT ![e] = @ + cyctim]
                 /\ tmevt_heap' = [tmevt_heap EXCEPT ![p] =
                                      tmevtb_insert(rest, e, evttim', boundary_evttim(t))]
        /\ UNCHANGED request

\* A fault of the next action: in_signal_time is reset before the timer is set,
\* and the timer only if it is not set.
Finish_keeps(p, t) ==
    /\ running' = [running EXCEPT ![p] = NULL]
    /\ tim' = t
    /\ hrt' = [hrt EXCEPT ![p] = IF @ = NULL THEN HrtEvent(p, tmevt_heap[p], evttim, t) ELSE @]
    /\ late' = [late EXCEPT ![p] = 0]
    /\ UNCHANGED <<evttim, tmevt_heap, request, due>>

Finish(p, t) ==
    /\ running' = [running EXCEPT ![p] = NULL]
    /\ tim' = t
    /\ hrt' = [hrt EXCEPT ![p] = HrtEvent(p, tmevt_heap[p], evttim, t)]
    /\ late' = [late EXCEPT ![p] = 0]
    /\ UNCHANGED <<evttim, tmevt_heap, request, due>>

\* The timer interrupt; the request of the timer is gone.
SignalTime(p) ==
    LET t == update_current_evttim(tim)
    IN  /\ hrt[p] = 0 /\ ~in_signal_time(p)
        /\ IF IsDue(p, t)
             THEN Callback(p, t) /\ hrt' = [hrt EXCEPT ![p] = NULL]
                                 /\ late' = [late EXCEPT ![p] = 0]
             ELSE Finish(p, t)

\* After the callback: the inner loop with the current event time as it is,
\* else the outer loop, since a callback was called.
SignalTimeContinues(p) ==
    LET t == IF IsDue(p, tim) THEN tim ELSE update_current_evttim(tim)
    IN  /\ in_signal_time(p)
        /\ IF IsDue(p, t) THEN Callback(p, t) /\ late' = [late EXCEPT ![p] = 0]
                               /\ UNCHANGED hrt
                          ELSE Finish(p, t)

Pending(p) == hrt[p] = 0 \/ request[p] \/ in_signal_time(p)

\* Bound of the model: lateness is not counted beyond this.
MaxLate == EVT

\* One tick of the timer.
Tick ==
    /\ \A p \in Tepp : Pending(p) => late[p] < Latency
    /\ tim' = [tim EXCEPT !.elapsed = @ + 1]
    /\ hrt' = [p \in Tepp |-> IF hrt[p] \in {0, NULL} THEN hrt[p] ELSE hrt[p] - 1]
    /\ late' = [p \in Tepp |-> IF Pending(p) THEN late[p] + 1 ELSE 0]
    /\ due' = [e \in Ev |-> IF Queued(e) THEN Max({due[e] - 1, -MaxLate}) ELSE due[e]]
    /\ UNCHANGED <<evttim, tmevt_heap, running, request>>

----------------------------------------------------------------------------
Next ==
    \/ Tick
    \/ \E p \in Tepp : SignalTime(p) \/ SignalTimeContinues(p) \/ set_hrt_event_handler(p)
    \/ \E self \in Prc, e \in Ev :
          \/ \E p \in Prc, time \in RelTimes :
                /\ \/ "enqueue" \in Calls /\ p = self
                   \/ "remote" \in Calls /\ p # self /\ p \in Tepp
                /\ tmevtb_enqueue_reltim(self, p, e, time)
          \/ "dequeue" \in Calls /\ \E q \in Tepp : tmevtb_dequeue(self, q, e)
          \/ "mig_tsk" \in Calls /\ \E p \in Prc : mig_tsk(self, p, e)
    \/ \E self \in Tepp, adjtim \in {TMAX_ADJTIM, -TMAX_ADJTIM} :
          "adj_tim" \in Calls /\ adj_tim(self, adjtim)
    \/ "set_tim" \in Calls /\ \E systim \in {0, EVT - 1} : set_tim(systim)
    \/ "get_tim" \in Calls /\ get_tim

Spec == Init /\ [][Next]_vars

\* Time passes, and interrupts are taken.
FairSpec ==
    /\ Spec /\ WF_vars(Tick)
    /\ \A p \in Tepp : /\ WF_vars(SignalTime(p)) /\ WF_vars(SignalTimeContinues(p))
                       /\ WF_vars(set_hrt_event_handler(p))

----------------------------------------------------------------------------
\* The heaps are ordered by the real time of the events, although only the
\* times modulo EVT are compared, and an event is in one heap at most
\* (time_event.c:99-104, :181-368).
RealOrder ==
    /\ \A p \in DOMAIN tmevt_heap :
          /\ IsInjective(tmevt_heap[p])
          /\ \A n \in DOMAIN tmevt_heap[p] \ {1} :
                due[tmevt_heap[p][PARENT(n)]] <= due[tmevt_heap[p][n]]
    /\ \A p, q \in DOMAIN tmevt_heap :
          p # q => Range(tmevt_heap[p]) \cap Range(tmevt_heap[q]) = {}

\* Nothing is called before its time has come (time_event.c:742).
HappensInTime == \A p \in Tepp :
    running'[p] \notin {NULL, running[p]} => due[running'[p]] <= 0
NeverEarly == [][HappensInTime]_vars

\* The timer of a processor occurs in time for the first event of its heap,
\* whatever was registered and removed by whom, also while signal_time runs;
\* it may be late by the delay of the interrupt that sets it
\* (time_event.c:421-478, :558-562, :602-606, :641-645, :762-767).
TimerInTime ==
    \A p \in Tepp : tmevt_heap[p] # << >> /\ ~in_signal_time(p) /\ ~request[p] =>
        /\ hrt[p] # NULL
        /\ hrt[p] <= Latency + Max({0, due[tmevt_heap[p][1]]})

\* Interrupts are taken in time: the counter never goes once round between two
\* readings, since the time master reads it at least every HRTCNT_BOUND
\* (time_event.c:445-450, :381-392), and no event is late by more than the margin
\* of the boundary event time (time_event.c:99-104, time_event.h:58-61).
OnTime ==
    /\ tim.elapsed < TCYC_HRTCNT
    /\ \A e \in Ev : Queued(e) => due[e] >= -BOUNDARY_MARGIN

\* The system time never steps back and never steps by a carry too much or too
\* few, whatever adj_tim does to the current event time: it goes on by the real
\* time since it was read and one adjustment at most
\* (time_event.c:395-403, time_manage.c:176-187).
\* It is set by set_tim only.
SystimStep == (Systim(tim') - Systim(tim)) % (2 * EVT) <= tim.elapsed + TMAX_ADJTIM
SystimSteps == [][SystimStep]_vars

\* The time is not adjusted forward while an event is late by as much as one
\* adjustment (time_event.c:656-661).
LateStep == \A e \in Ev :
    Queued(e) /\ due[e] <= -TMAX_ADJTIM /\ Queued(e)' /\ tim'.elapsed = 0 => due'[e] >= due[e]
LateRefused == [][LateStep]_vars

\* A registered event happens, unless it is removed (time_event.c:720-770).
EventHappens == \A e \in Ev : Queued(e) ~> (~Queued(e) \/ \E p \in Tepp : running[p] = e)
================================================================================
