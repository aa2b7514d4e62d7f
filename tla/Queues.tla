------------------------------- MODULE Queues -------------------------------
(***************************************************************************)
(* The doubly linked queues of the kernel (include/queue.h) as sequences   *)
(* of the entries that follow the head.                                    *)
(***************************************************************************)
EXTENDS Naturals, SequencesExt

\* queue_delete of an entry, wherever it is.
QueueDelete(q, t) == RemoveAt(q, CHOOSE i \in DOMAIN q : q[i] = t)

\* queue_insert_prev and queue_insert_next at the head of the queue: the
\* new entry becomes the last or the first.
QueueInsertPrev(q, t) == Append(q, t)
QueueInsertNext(q, t) == <<t>> \o q

\* The first of the positions in at, or the end of the queue.
FirstOrEnd(q, at) == CHOOSE i \in at \cup {Len(q) + 1} : \A j \in at : i <= j

\* The queue without its entries in S: the n-th of the others is at the position
\* up to which there are n of them.
Without(q, S) ==
    LET kept == {i \in DOMAIN q : q[i] \notin S}
    IN  [n \in 1 .. Cardinality(kept) |->
            q[CHOOSE i \in kept : Cardinality({j \in kept : j <= i}) = n]]

\* The queues of some of the entries of a set, in any order.
Arrangements(S) ==
    {q \in UNION {[1 .. n -> S] : n \in 0 .. Cardinality(S)} : IsInjective(q)}

=============================================================================
