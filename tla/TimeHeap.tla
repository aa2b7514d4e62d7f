------------------------------- MODULE TimeHeap -------------------------------
(***************************************************************************)
(* The heap of one processor (kernel/time_event.c) on its own, with the    *)
(* boundary event time fixed: any sequence of its operations on many       *)
(* events, while module TimeEvent has few events and all of the time.      *)
(***************************************************************************)
EXTENDS Heap

CONSTANTS
    Boundary,    \* the boundary event time
    Times        \* the times of the events in an instance

TimesAssumption == Boundary \in 0 .. EVT - 1 /\ Times \subseteq 0 .. EVT - 1

VARIABLES
    heap,        \* the heap with its last_index
    evttim_of    \* the time in each event block

heap_vars == <<heap, evttim_of>>

HeapInit == heap = << >> /\ evttim_of = [e \in Ev |-> 0]

insert(e, t) ==
    /\ e \notin Range(heap)
    /\ evttim_of' = [evttim_of EXCEPT ![e] = t]
    /\ heap' = tmevtb_insert(heap, e, evttim_of', Boundary)

\* The time of a block that is not registered has no meaning, and is set to 0.
delete(e) ==
    /\ e \in Range(heap)
    /\ heap' = tmevtb_delete(heap, e, evttim_of, Boundary)
    /\ evttim_of' = [evttim_of EXCEPT ![e] = 0]

delete_top ==
    /\ heap # << >>
    /\ heap' = tmevtb_delete_top(heap, evttim_of, Boundary)
    /\ evttim_of' = [evttim_of EXCEPT ![heap[1]] = 0]

HeapNext ==
    \/ \E e \in Ev : delete(e) \/ \E t \in Times : insert(e, t)
    \/ delete_top

HeapSpec == HeapInit /\ [][HeapNext]_heap_vars

----------------------------------------------------------------------------
\* The heap implements the queue of events: an operation adds or removes one
\* event and loses none, and the top is an earliest event in the order modulo
\* EVT (time_event.c:181-368).
Events == INSTANCE EventQueue WITH
    Time <- 0 .. EVT - 1,
    NotLater <- LAMBDA t1, t2 : EVTTIM_LE(t1, t2, Boundary),
    queued <- Range(heap),
    time <- evttim_of,
    first <- IF heap = << >> THEN CHOOSE e \in Ev : TRUE ELSE heap[1]

ImplementsQueue == Events!QueueSpec

\* Every event is in one place, and no event is before its parent: the order
\* that the next operations rely on.
HeapOrder ==
    /\ IsInjective(heap)
    /\ \A n \in DOMAIN heap \ {1} :
          EVTTIM_LE(evttim_of[heap[PARENT(n)]], evttim_of[heap[n]], Boundary)
================================================================================
