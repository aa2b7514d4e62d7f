------------------------------ MODULE MCTimeEvent ------------------------------
(***************************************************************************)
(* Instances of TimeEvent and of TimeHeap for TLC; a run chooses one of    *)
(* its cases at the start.  The times are small, with the order of the     *)
(* real ones: 2^32 event times, relative times up to 4000 seconds, a       *)
(* margin of 200 seconds, adjustments of 1 second.                         *)
(***************************************************************************)
EXTENDS TimeEvent, TimeHeap, TLC

CONSTANTS
    Cases,           \* the cases of a run
    P, Q,
    e1, e2           \* time events

VARIABLE case

CallsOf(c) ==
    CASE c = "main"    -> {"enqueue", "remote", "dequeue", "cyclic", "get_tim"}
         \* Events are further ahead than a timer can be set (HRTCNT_BOUND).
      [] c = "bound"   -> {"enqueue", "remote", "dequeue", "cyclic"}
         \* The time is adjusted, on the only time event processor.
      [] c = "adjust"  -> {"enqueue", "dequeue", "cyclic", "adj_tim", "get_tim"}
         \* The system time is set, which moves no event.
      [] c = "set"     -> {"enqueue", "set_tim"}
         \* A task migrates with its time-out; interrupts are not delayed.
      [] c = "move"    -> {"enqueue", "mig_tsk"}
         \* The same with delayed interrupts.
      [] c = "migrate" -> {"enqueue", "mig_tsk"}

\* The margin covers the delay of interrupts and the adjustments; where events
\* move, also the delay of an event that is registered late.
Time(c) == INSTANCE TimeEvent WITH
    Ev              <- {e1, e2},
    EVT             <- CASE c = "adjust" -> 11 [] c = "move" -> 9 [] OTHER -> 7,
    Prc             <- IF c \in {"adjust", "set"} THEN {P} ELSE {P, Q},
    Tepp            <- IF c \in {"adjust", "set"} THEN {P} ELSE {P, Q},
    TM              <- P,
    TCYC_HRTCNT     <- 6,
    TSTEP_HRTCNT    <- 1,
    HRTCNT_BOUND    <- IF c = "bound" THEN 1 ELSE 3,
    BOUNDARY_MARGIN <- IF c \in {"adjust", "move"} THEN 4 ELSE 3,
    TMAX_RELTIM     <- 2,
    TMAX_ADJTIM     <- IF c = "adjust" THEN 1 ELSE 0,
    Latency         <- IF c = "move" THEN 0 ELSE 1,
    RelTimes        <- {0, 2},
    Calls           <- CallsOf(c)

\* The constants of the cfg are those of the heap alone, with so many events
\* that a deletion has to move an event up into another branch of the heap.
Kind(c) == case = c /\ c # "heap"

ASSUME Assumptions ==
    /\ \A c \in Cases \ {"heap"} : Time(c)!TimeAssumption /\ Time(c)!MarginCovers /\ Time(c)!HeapAssumption
    /\ TimeAssumption /\ HeapAssumption /\ TimesAssumption

MCInit ==
    /\ case \in Cases /\ HeapInit
    /\ \/ \E c \in Cases : Kind(c) /\ Time(c)!Init
       \/ /\ case = "heap"
          /\ tim = NULL /\ evttim = << >> /\ tmevt_heap = << >> /\ running = NULL
          /\ hrt = NULL /\ request = NULL /\ late = NULL /\ due = NULL

MCNext ==
    /\ UNCHANGED case
    /\ \/ \E c \in Cases : Kind(c) /\ Time(c)!Next /\ UNCHANGED heap_vars
       \/ case = "heap" /\ HeapNext /\ UNCHANGED vars

MCSpec == MCInit /\ [][MCNext]_<<case, vars, heap_vars>>

----------------------------------------------------------------------------
\* RealOrder (TimeEvent) and ImplementsQueue (TimeHeap) are checked as they are:
\* they speak of the variables, with the heaps empty in the other cases.

\* Time!TimerInTime and Time!OnTime: the timer of a processor occurs in time for
\* its first event, often enough to count the time, and no event is so late that
\* the order modulo 2^32 is not that of time any more
\* (time_event.c:421-478, :762-767, :381-392, :99-104).  The first is false in the
\* case "move", which the case "migrate" shows in a run of its own.
InTime ==
    \A c \in Cases : /\ Kind(c) /\ c # "move" => Time(c)!TimerInTime
                     /\ Kind(c) /\ c # "migrate" => Time(c)!OnTime

\* Time!NeverEarly, Time!SystimSteps and Time!LateRefused, of each step: no
\* event happens early, the system time goes on without gaps, and it is not
\* adjusted forward while events are late
\* (time_event.c:742, :395-403, :656-661, time_manage.c:176-187).
TimeGoesOn ==
    [][\A c \in Cases : Kind(c) =>
          /\ Time(c)!HappensInTime
          /\ c # "set" => Time(c)!SystimStep
          /\ c = "adjust" => Time(c)!LateStep]_<<case, vars, heap_vars>>

\* The two events are alike; only safety is checked.
Alike == Permutations({e1, e2})
================================================================================
