--------------------------------- MODULE Heap ---------------------------------
(***************************************************************************)
(* The heap of the time events (kernel/time_event.c): a sequence h of      *)
(* event blocks, with the node 1 at the top and the children of the node n *)
(* at 2n and 2n+1.  The times are compared relative to the boundary event  *)
(* time, modulo EVT.  The field index of an event block is its place in    *)
(* the sequence: whatever moves a block sets it.                           *)
(***************************************************************************)
EXTENDS Integers, Sequences, SequencesExt, FiniteSetsExt

CONSTANTS
    Ev,       \* the time event blocks
    EVT       \* the number of event times: 2^32

HeapAssumption == IsFiniteSet(Ev) /\ EVT \in Nat \ {0}

EVTTIM_LT(t1, t2, boundary) == (t1 - boundary) % EVT < (t2 - boundary) % EVT

\* A fault of the next operator: the times are compared as numbers.
EVTTIM_LE_plain(t1, t2, boundary) == t1 <= t2

EVTTIM_LE(t1, t2, boundary) == (t1 - boundary) % EVT <= (t2 - boundary) % EVT

PARENT(n) == n \div 2

\* The nodes from n up to the top: what every set with n has that has the parents of
\* its nodes.
WithParents(S) == \A k \in S \ {1} : PARENT(k) \in S
Up(n) == {k \in 1 .. n : \A S \in SUBSET (1 .. n) : n \in S /\ WithParents(S) => k \in S}

\* tmevt_up: the place for an event of the time t, from the empty node n up.
tmevt_up(h, n, t, evttim, boundary) ==
    Max({k \in Up(n) : k = 1 \/ EVTTIM_LE(evttim[h[PARENT(k)]], t, boundary)})

EarlierChild(h, n, evttim, boundary) ==
    IF 2 * n + 1 <= Len(h) /\ EVTTIM_LT(evttim[h[2 * n + 1]], evttim[h[2 * n]], boundary)
      THEN 2 * n + 1 ELSE 2 * n

\* The nodes on the way from n down that takes the earlier child of each node.
EarlierDown(h, n, evttim, boundary) ==
    {k \in DOMAIN h : /\ n \in Up(k)
                      /\ \A m \in Up(k) : m > n =>
                            m = EarlierChild(h, PARENT(m), evttim, boundary)}

\* tmevt_down: the place for an event of the time t, from the empty node n down.
tmevt_down(h, n, t, evttim, boundary) ==
    Min({k \in EarlierDown(h, n, evttim, boundary) :
            \/ 2 * k > Len(h)
            \/ EVTTIM_LE(t, evttim[h[EarlierChild(h, k, evttim, boundary)]], boundary)})

\* The event e gets the place to; the events on the path from the empty node
\* from, above or below it, move one node along the path.
MoveUp(h, from, to, e) ==
    LET path == Up(from)
    IN  [n \in DOMAIN h |-> IF n = to THEN e
                            ELSE IF n \in path /\ n > to THEN h[PARENT(n)] ELSE h[n]]
MoveDown(h, from, to, e) ==
    LET path == Up(to)
    IN  [n \in DOMAIN h |-> IF n = to THEN e
                            ELSE IF n \in path /\ n >= from
                              THEN h[CHOOSE k \in path : PARENT(k) = n] ELSE h[n]]

tmevtb_insert(h, e, evttim, boundary) ==
    LET last == Append(h, e)
    IN  MoveUp(last, Len(last), tmevt_up(last, Len(last), evttim[e], evttim, boundary), e)

\* The place of an event; it is in the heap.
index(h, e) == CHOOSE n \in DOMAIN h : h[n] = e

\* A fault of the next operator: the last event is never moved up.
tmevtb_delete_down(h, e, evttim, boundary) ==
    LET n    == index(h, e)
        last == h[Len(h)]
        rest == Front(h)
        t    == evttim[last]
    IN  IF rest = << >> \/ n = Len(h) THEN rest
        ELSE MoveDown(rest, n, tmevt_down(rest, n, t, evttim, boundary), last)

\* tmevtb_delete: the last event takes the place of e and moves up or down.
tmevtb_delete(h, e, evttim, boundary) ==
    LET n    == index(h, e)
        last == h[Len(h)]
        rest == Front(h)
        t    == evttim[last]
    IN  IF rest = << >> \/ n = Len(h) THEN rest
        ELSE IF n > 1 /\ EVTTIM_LT(t, evttim[h[PARENT(n)]], boundary)
          THEN MoveUp(rest, n, tmevt_up(rest, PARENT(n), t, evttim, boundary), last)
          ELSE MoveDown(rest, n, tmevt_down(rest, n, t, evttim, boundary), last)

tmevtb_delete_top(h, evttim, boundary) ==
    LET last == h[Len(h)]
        rest == Front(h)
    IN  IF rest = << >> THEN rest
        ELSE MoveDown(rest, 1, tmevt_down(rest, 1, evttim[last], evttim, boundary), last)
================================================================================
