----------------------------- MODULE NotifyProofs -----------------------------
(***************************************************************************)
(* The notifications are correct for every number of notifications,        *)
(* processors and handlers: an event is registered where its control block *)
(* says, event blocks in use are whole, and the notifications implement    *)
(* what module Notifications promises.                                     *)
(***************************************************************************)
EXTENDS Notify, QueuesProofs

----------------------------------------------------------------------------
\* The inductive invariant, in named parts

\* The free lists hold the unused notifications, each once.
FreeList ==
    \A k \in {"cyc", "alm"} : IsInjective(free[k])
                              /\ Range(free[k]) = {x \in Obj : Kind(x) = k /\ ~Exists(x)}

\* An existing notification has its callback, another is not started.
BlockOk == \A x \in Obj : IF Exists(x) THEN cb[x].callback = "call" ELSE ~cb[x].sta

NotifyInv == TypeOK /\ FreeList /\ StartedIsRegistered /\ OwnerHandlesEvents /\ BlockOk

LEMMA NotifyInvParts ==
    ASSUME NotifyInv
    PROVE  /\ TypeOK /\ FreeList /\ StartedIsRegistered /\ OwnerHandlesEvents /\ BlockOk
           /\ EventBlockIntact
<1>1. TypeOK /\ FreeList /\ StartedIsRegistered /\ OwnerHandlesEvents /\ BlockOk
  BY DEF NotifyInv
<1>2. DOMAIN free = {"cyc", "alm"}
  BY <1>1 DEF TypeOK
<1>3. ASSUME NEW p \in Tepp, NEW x \in tmevt_heap[p]
      PROVE  Exists(x) /\ cb[x].callback = "call"
  <2>1. x \in Obj
    BY <1>1 DEF TypeOK
  <2>2. QED
    BY <1>1, <2>1 DEF StartedIsRegistered, BlockOk
<1>4. QED
  BY <1>1, <1>2, <1>3 DEF FreeList, EventBlockIntact

----------------------------------------------------------------------------
\* A step on one notification x: what is to show of it, and of the others.

Others(x) ==
    /\ \A y \in Obj : y # x => cb'[y] = cb[y]
    /\ \A y \in Obj, p \in Tepp : y # x => (y \in tmevt_heap'[p] <=> y \in tmevt_heap[p])

Itself(x) ==
    /\ \A p \in Tepp : x \in tmevt_heap'[p] <=> cb'[x].sta /\ cb'[x].p_pcb = p
    /\ IF Exists(x)' THEN cb'[x].p_pcb \in Tepp /\ cb'[x].callback = "call" ELSE ~cb'[x].sta

LEMMA OneChanged ==
    ASSUME NotifyInv, TypeOK', NEW x \in Obj, Others(x), Itself(x), FreeList'
    PROVE  NotifyInv'
<1>1. StartedIsRegistered'
  <2>. SUFFICES ASSUME NEW y \in Obj, NEW p \in Tepp
                PROVE  y \in tmevt_heap'[p] <=> cb'[y].sta /\ cb'[y].p_pcb = p
    BY DEF StartedIsRegistered
  <2>1. CASE y = x
    BY <2>1 DEF Itself
  <2>2. CASE y # x
    BY <2>2 DEF Others, NotifyInv, StartedIsRegistered
  <2>3. QED
    BY <2>1, <2>2
<1>2. OwnerHandlesEvents'
  BY DEF Others, Itself, NotifyInv, OwnerHandlesEvents, Exists
<1>3. BlockOk'
  BY DEF Others, Itself, NotifyInv, BlockOk, Exists
<1>4. QED
  BY <1>1, <1>2, <1>3 DEF NotifyInv

\* The free lists stay as they are if no notification is created or deleted.
LEMMA FreeKept ==
    ASSUME NotifyInv, NEW x \in Obj, Others(x), Exists(x)' <=> Exists(x), free' = free
    PROVE  FreeList'
<1>1. \A y \in Obj : Exists(y)' <=> Exists(y)
  BY DEF Others, Exists
<1>2. QED
  BY <1>1 DEF NotifyInv, FreeList, Kind

\* The heaps without the event of x, whether it is started or not.
LEMMA WithdrawnFacts ==
    ASSUME NotifyInv, NEW x \in Obj, Exists(x)
    PROVE  /\ Withdrawn(x) \in [Tepp -> SUBSET Obj]
           /\ \A p \in Tepp : Withdrawn(x)[p] = tmevt_heap[p] \ {x}
<1>1. tmevt_heap \in [Tepp -> SUBSET Obj] /\ cb[x].p_pcb \in Tepp
  BY DEF NotifyInv, TypeOK, OwnerHandlesEvents
<1>2. \A p \in Tepp : x \in tmevt_heap[p] <=> cb[x].sta /\ cb[x].p_pcb = p
  BY DEF NotifyInv, StartedIsRegistered
<1>3. QED
  BY <1>1, <1>2 DEF Withdrawn, Dequeued

\* What the notification x is afterwards, in the eyes of module Notifications.
StatusOf(x) == IF ~Exists(x) THEN "none" ELSE IF cb[x].sta THEN cb[x].p_pcb ELSE "stopped"

Becomes(x, s) == Status' = [Status EXCEPT ![x] = s]

LEMMA ExistsStatus ==
    ASSUME NotifyInv, NEW x \in Obj, Exists(x)
    PROVE  StatusOf(x) # "none"
<1>1. cb[x].p_pcb \in Tepp
  BY DEF NotifyInv, OwnerHandlesEvents
<1>2. QED
  BY <1>1, NotifyAssumption DEF StatusOf

LEMMA StatusStep ==
    ASSUME NEW x \in Obj, Others(x), NEW s, s = StatusOf(x)'
    PROVE  Becomes(x, s) /\ Status[x] = StatusOf(x)
<1>1. /\ Status = [y \in Obj |-> StatusOf(y)]
      /\ Status' = [y \in Obj |-> StatusOf(y)']
  BY DEF Status, StatusOf
<1>2. \A y \in Obj : y # x => StatusOf(y)' = StatusOf(y)
  BY DEF Others, StatusOf, Exists
<1>3. QED
  BY <1>1, <1>2 DEF Becomes

----------------------------------------------------------------------------
\* The service calls

\* What the creation of x from the free list k makes of it.
LEMMA CreateStep ==
    ASSUME NotifyInv, NEW k \in {"cyc", "alm"}, NEW atr \in {"TA_NULL", "TA_STA"},
           NEW hdr \in Nfyhdr, Create(k, atr, hdr)
    PROVE  NotifyInv' /\ \E x \in Obj, s \in {"stopped"} \cup Tepp :
                             Status[x] = "none" /\ Becomes(x, s)
<1>. DEFINE b == Block(atr, atr = "TA_STA", MASTER, hdr)
<1>1. /\ free[k] \in Seq(Obj) /\ IsInjective(free[k]) /\ free[k] # << >>
      /\ Range(free[k]) = {y \in Obj : Kind(y) = k /\ ~Exists(y)}
  BY DEF Create, NotifyInv, TypeOK, FreeList
<1>2. PICK x \in Obj :
         /\ x = Head(free[k]) /\ Kind(x) = k /\ ~Exists(x)
         /\ Tail(free[k]) \in Seq(Obj) /\ IsInjective(Tail(free[k]))
         /\ Range(Tail(free[k])) = Range(free[k]) \ {x}
  BY <1>1, TailFacts
<1>3. /\ cb' = [cb EXCEPT ![x] = b] /\ free' = [free EXCEPT ![k] = Tail(@)]
      /\ tmevt_heap' = IF atr = "TA_STA" THEN Enqueued(tmevt_heap, x, cb'[x].p_pcb)
                       ELSE tmevt_heap
      /\ run' = run
  BY <1>2 DEF Create, NewBlock
<1>4. MASTER \in Tepp /\ MASTER \in Prc
  BY NotifyAssumption
<1>5. /\ b \in CB /\ b.atr = atr /\ b.sta = (atr = "TA_STA") /\ b.p_pcb = MASTER
      /\ b.callback = "call" /\ b.atr # "TA_NOEXS" /\ (b.sta <=> atr = "TA_STA")
  BY <1>4 DEF Block, CB
<1>. HIDE DEF b
<1>6. cb'[x] = b /\ (\A y \in Obj : y # x => cb'[y] = cb[y]) /\ cb' \in [Obj -> CB]
  BY <1>2, <1>3, <1>5 DEF NotifyInv, TypeOK
<1>7. \A p \in Tepp : x \notin tmevt_heap[p]
  BY <1>2 DEF NotifyInv, StartedIsRegistered, BlockOk
<1>8. tmevt_heap \in [Tepp -> SUBSET Obj]
  BY DEF NotifyInv, TypeOK
<1>9. /\ tmevt_heap' \in [Tepp -> SUBSET Obj]
      /\ \A p \in Tepp : tmevt_heap'[p] = IF atr = "TA_STA" /\ p = MASTER
                                            THEN tmevt_heap[p] \cup {x} ELSE tmevt_heap[p]
  <2>1. tmevt_heap' = IF atr = "TA_STA" THEN Enqueued(tmevt_heap, x, MASTER) ELSE tmevt_heap
    <3>1. cb'[x].p_pcb = MASTER
      BY <1>5, <1>6
    <3>2. QED
      BY <3>1, <1>3
  <2>2. /\ Enqueued(tmevt_heap, x, MASTER) \in [Tepp -> SUBSET Obj]
        /\ \A p \in Tepp : Enqueued(tmevt_heap, x, MASTER)[p]
                            = IF p = MASTER THEN tmevt_heap[p] \cup {x} ELSE tmevt_heap[p]
    BY <1>4, <1>8 DEF Enqueued
  <2>3. CASE atr = "TA_STA"
    <3>1. tmevt_heap' = Enqueued(tmevt_heap, x, MASTER)
      BY <2>1, <2>3
    <3>2. QED
      BY <2>2, <2>3, <3>1
  <2>4. CASE atr # "TA_STA"
    <3>1. tmevt_heap' = tmevt_heap
      BY <2>1, <2>4
    <3>2. QED
      BY <2>4, <3>1, <1>8
  <2>5. QED
    BY <2>3, <2>4
<1>10. TypeOK'
  <2>1. free' \in [{"cyc", "alm"} -> Seq(Obj)]
    BY <1>2, <1>3 DEF NotifyInv, TypeOK
  <2>2. QED
    BY <2>1, <1>3, <1>6, <1>9 DEF NotifyInv, TypeOK
<1>11. Others(x)
  BY <1>6, <1>9 DEF Others
<1>12. Itself(x)
  <2>1. cb'[x].sta <=> atr = "TA_STA"
    BY <1>5, <1>6
  <2>2. cb'[x].p_pcb = MASTER /\ cb'[x].callback = "call" /\ cb'[x].atr # "TA_NOEXS"
    BY <1>5, <1>6
  <2>3. \A p \in Tepp : x \in tmevt_heap'[p] <=> atr = "TA_STA" /\ p = MASTER
    BY <1>7, <1>9
  <2>4. QED
    BY <2>1, <2>2, <2>3, <1>4 DEF Itself, Exists
<1>13. FreeList'
  <2>1. Exists(x)' /\ \A y \in Obj : y # x => (Exists(y)' <=> Exists(y))
    <3>1. cb'[x].atr # "TA_NOEXS"
      BY <1>5, <1>6
    <3>2. QED
      BY <3>1, <1>6 DEF Exists
  <2>2. free'[k] = Tail(free[k]) /\ \A j \in {"cyc", "alm"} : j # k => free'[j] = free[j]
    BY <1>3 DEF NotifyInv, TypeOK
  <2>3. ASSUME NEW j \in {"cyc", "alm"}
        PROVE  IsInjective(free'[j])
               /\ Range(free'[j]) = {y \in Obj : Kind(y) = j /\ ~Exists(y)'}
    <3>1. CASE j = k
      BY <3>1, <1>1, <1>2, <2>1, <2>2
    <3>2. CASE j # k
      BY <3>2, <1>2, <2>1, <2>2 DEF NotifyInv, FreeList
    <3>3. QED
      BY <3>1, <3>2
  <2>4. QED
    BY <2>3 DEF FreeList, Kind
<1>14. Status[x] = "none" /\ Becomes(x, IF atr = "TA_STA" THEN MASTER ELSE "stopped")
  <2>1. cb'[x].atr # "TA_NOEXS" /\ (cb'[x].sta <=> atr = "TA_STA") /\ cb'[x].p_pcb = MASTER
    BY <1>5, <1>6
  <2>2. StatusOf(x)' = IF atr = "TA_STA" THEN MASTER ELSE "stopped"
    BY <2>1 DEF StatusOf, Exists
  <2>3. QED
    BY <1>2, <1>11, <2>2, StatusStep DEF StatusOf
<1>15. NotifyInv'
  BY <1>2, <1>10, <1>11, <1>12, <1>13, OneChanged
<1>16. QED
  BY <1>4, <1>14, <1>15

LEMMA DeleteStep ==
    ASSUME NotifyInv, NEW x \in Obj, Delete(x)
    PROVE  NotifyInv' /\ Status[x] # "none" /\ Becomes(x, "none")
<1>1. /\ Exists(x) /\ tmevt_heap' = Withdrawn(x) /\ run' = run
      /\ cb' = [cb EXCEPT ![x].atr = "TA_NOEXS", ![x].sta = FALSE, ![x].callback = "link"]
      /\ free' = [free EXCEPT ![Kind(x)] = Append(@, x)]
  BY DEF Delete
<1>2. /\ tmevt_heap' \in [Tepp -> SUBSET Obj]
      /\ \A p \in Tepp : tmevt_heap'[p] = tmevt_heap[p] \ {x}
  BY <1>1, WithdrawnFacts
<1>. DEFINE b == [cb[x] EXCEPT !.atr = "TA_NOEXS", !.sta = FALSE, !.callback = "link"]
            k == Kind(x)
<1>3. cb \in [Obj -> CB] /\ cb[x] \in CB
  BY DEF NotifyInv, TypeOK
<1>4. b \in CB /\ b.atr = "TA_NOEXS" /\ b.sta = FALSE
  BY <1>3 DEF CB
<1>5. cb' = [cb EXCEPT ![x] = b]
  BY <1>1, <1>3
<1>6. k \in {"cyc", "alm"}
  BY DEF Kind
<1>. HIDE DEF b, k
<1>7. cb'[x] = b /\ (\A y \in Obj : y # x => cb'[y] = cb[y]) /\ cb' \in [Obj -> CB]
  BY <1>3, <1>4, <1>5
<1>8. /\ free[k] \in Seq(Obj) /\ IsInjective(free[k]) /\ x \notin Range(free[k])
      /\ Range(free[k]) = {y \in Obj : Kind(y) = k /\ ~Exists(y)}
  BY <1>1, <1>6 DEF NotifyInv, TypeOK, FreeList
<1>9. /\ Append(free[k], x) \in Seq(Obj) /\ IsInjective(Append(free[k], x))
      /\ Range(Append(free[k], x)) = Range(free[k]) \cup {x}
  BY <1>8, LastFacts
<1>10. /\ free'[k] = Append(free[k], x)
       /\ \A j \in {"cyc", "alm"} : j # k => free'[j] = free[j]
       /\ free' \in [{"cyc", "alm"} -> Seq(Obj)]
  BY <1>1, <1>6, <1>9 DEF NotifyInv, TypeOK, k
<1>11. TypeOK'
  BY <1>1, <1>2, <1>7, <1>10 DEF NotifyInv, TypeOK
<1>12. Others(x)
  BY <1>2, <1>7 DEF Others
<1>13. Itself(x)
  BY <1>2, <1>4, <1>7 DEF Itself, Exists
<1>14. FreeList'
  <2>1. ~Exists(x)' /\ Kind(x) = k /\ \A y \in Obj : y # x => (Exists(y)' <=> Exists(y))
    BY <1>4, <1>7 DEF Exists, k
  <2>2. ASSUME NEW j \in {"cyc", "alm"}
        PROVE  IsInjective(free'[j])
               /\ Range(free'[j]) = {y \in Obj : Kind(y) = j /\ ~Exists(y)'}
    <3>1. CASE j = k
      BY <3>1, <1>8, <1>9, <1>10, <2>1
    <3>2. CASE j # k
      BY <3>2, <1>10, <2>1 DEF NotifyInv, FreeList
    <3>3. QED
      BY <3>1, <3>2
  <2>3. QED
    BY <2>2 DEF FreeList, Kind
<1>15. Becomes(x, "none") /\ Status[x] = StatusOf(x)
  <2>1. StatusOf(x)' = "none"
    BY <1>4, <1>7 DEF StatusOf, Exists
  <2>2. QED
    BY <1>12, <2>1, StatusStep
<1>16. NotifyInv'
  BY <1>11, <1>12, <1>13, <1>14, OneChanged
<1>17. QED
  BY <1>1, <1>15, <1>16, ExistsStatus

\* A step after which an existing notification x is started on prc, or is
\* stopped.
LEMMA StartedStep ==
    ASSUME NotifyInv, NEW x \in Obj, Exists(x), NEW prc \in Tepp, NEW sta \in BOOLEAN,
           NEW h \in [Tepp -> SUBSET Obj], \A p \in Tepp : h[p] = tmevt_heap[p] \ {x},
           tmevt_heap' = IF sta THEN Enqueued(h, x, prc) ELSE h,
           cb' = [cb EXCEPT ![x] = [@ EXCEPT !.sta = sta, !.p_pcb = prc]],
           free' = free, run' \in [Tepp -> RUN]
    PROVE  /\ NotifyInv' /\ Status[x] # "none" /\ Status[x] = StatusOf(x)
           /\ Becomes(x, IF sta THEN prc ELSE "stopped")
<1>. DEFINE b == [cb[x] EXCEPT !.sta = sta, !.p_pcb = prc]
<1>1. cb \in [Obj -> CB] /\ cb[x] \in CB /\ prc \in Prc
  BY NotifyAssumption DEF NotifyInv, TypeOK
<1>2. /\ b \in CB /\ b.atr = cb[x].atr /\ b.sta = sta /\ b.p_pcb = prc
      /\ b.callback = cb[x].callback
  BY <1>1 DEF CB
<1>. HIDE DEF b
<1>3. cb'[x] = b /\ (\A y \in Obj : y # x => cb'[y] = cb[y]) /\ cb' \in [Obj -> CB]
  BY <1>1, <1>2 DEF b
<1>4. /\ tmevt_heap' \in [Tepp -> SUBSET Obj]
      /\ \A p \in Tepp : tmevt_heap'[p] = IF sta /\ p = prc THEN tmevt_heap[p] \cup {x}
                                          ELSE tmevt_heap[p] \ {x}
  <2>1. CASE sta
    <3>1. tmevt_heap' = Enqueued(h, x, prc)
      BY <2>1
    <3>2. /\ Enqueued(h, x, prc) \in [Tepp -> SUBSET Obj]
          /\ \A p \in Tepp : Enqueued(h, x, prc)[p] = IF p = prc THEN h[p] \cup {x} ELSE h[p]
      BY DEF Enqueued
    <3>3. \A p \in Tepp : tmevt_heap'[p] = IF p = prc THEN h[p] \cup {x} ELSE h[p]
      BY <3>1, <3>2, Zenon
    <3>4. \A p \in Tepp : h[p] \cup {x} = tmevt_heap[p] \cup {x}
      OBVIOUS
    <3>5. QED
      BY <2>1, <3>1, <3>2, <3>3, <3>4
  <2>2. CASE ~sta
    BY <2>2
  <2>3. QED
    BY <2>1, <2>2
<1>5. TypeOK'
  BY <1>3, <1>4 DEF NotifyInv, TypeOK
<1>6. Others(x)
  <2>1. \A y \in Obj, p \in Tepp : y # x => (y \in tmevt_heap'[p] <=> y \in tmevt_heap[p])
    BY <1>4
  <2>2. QED
    BY <1>3, <2>1 DEF Others
<1>7. Exists(x)'
  BY <1>2, <1>3 DEF Exists
<1>8. Itself(x)
  <2>1. cb'[x].sta <=> sta
    BY <1>2, <1>3
  <2>2. cb'[x].p_pcb = prc /\ cb'[x].callback = "call"
    BY <1>2, <1>3 DEF NotifyInv, BlockOk
  <2>3. \A p \in Tepp : x \in tmevt_heap'[p] <=> sta /\ p = prc
    BY <1>4
  <2>4. QED
    BY <2>1, <2>2, <2>3, <1>7 DEF Itself
<1>9. FreeList'
  BY <1>6, <1>7, FreeKept
<1>10. Becomes(x, IF sta THEN prc ELSE "stopped") /\ Status[x] = StatusOf(x)
  <2>1. StatusOf(x)' = IF sta THEN prc ELSE "stopped"
    BY <1>2, <1>3, <1>7 DEF StatusOf
  <2>2. QED
    BY <1>6, <2>1, StatusStep
<1>11. NotifyInv'
  BY <1>5, <1>6, <1>8, <1>9, OneChanged
<1>12. QED
  BY <1>10, <1>11, ExistsStatus

LEMMA BlockOwner ==
    ASSUME NotifyInv, NEW x \in Obj, Exists(x), NEW sta \in BOOLEAN
    PROVE  /\ cb[x].p_pcb \in Tepp /\ run \in [Tepp -> RUN]
           /\ [cb EXCEPT ![x].sta = sta] = [cb EXCEPT ![x] = [@ EXCEPT !.sta = sta, !.p_pcb = cb[x].p_pcb]]
<1>1. cb \in [Obj -> CB] /\ cb[x] \in CB
  BY DEF NotifyInv, TypeOK
<1>2. [cb[x] EXCEPT !.sta = sta] = [cb[x] EXCEPT !.sta = sta, !.p_pcb = cb[x].p_pcb]
  BY <1>1 DEF CB
<1>3. QED
  BY <1>1, <1>2 DEF NotifyInv, TypeOK, OwnerHandlesEvents

LEMMA StartStep ==
    ASSUME NotifyInv, NEW x \in Obj, Start(x)
    PROVE  /\ NotifyInv' /\ Status[x] # "none"
           /\ \E p \in Tepp : Becomes(x, p)
<1>1. /\ Exists(x) /\ tmevt_heap' = Enqueued(Withdrawn(x), x, cb[x].p_pcb)
      /\ cb' = [cb EXCEPT ![x].sta = TRUE] /\ free' = free /\ run' = run
  BY DEF Start
<1>2. /\ cb[x].p_pcb \in Tepp /\ run' \in [Tepp -> RUN]
      /\ cb' = [cb EXCEPT ![x] = [@ EXCEPT !.sta = TRUE, !.p_pcb = cb[x].p_pcb]]
  BY <1>1, BlockOwner
<1>3. /\ Withdrawn(x) \in [Tepp -> SUBSET Obj]
      /\ \A p \in Tepp : Withdrawn(x)[p] = tmevt_heap[p] \ {x}
  BY <1>1, WithdrawnFacts
<1>4. cb[x].p_pcb \in Tepp
  BY <1>1, <1>2
<1>5. tmevt_heap' = IF TRUE THEN Enqueued(Withdrawn(x), x, cb[x].p_pcb) ELSE Withdrawn(x)
  BY <1>1
<1>6. /\ NotifyInv' /\ Status[x] # "none"
      /\ Becomes(x, IF TRUE THEN cb[x].p_pcb ELSE "stopped")
  BY <1>1, <1>2, <1>3, <1>4, <1>5, StartedStep
<1>7. QED
  BY <1>4, <1>6

LEMMA StartOnStep ==
    ASSUME NotifyInv, NEW x \in Obj, NEW prc \in Prc, StartOn(x, prc)
    PROVE  /\ NotifyInv' /\ Status[x] # "none"
           /\ \E p \in Tepp : Becomes(x, p)
<1>1. /\ Exists(x) /\ prc \in Tepp /\ tmevt_heap' = Enqueued(Withdrawn(x), x, prc)
      /\ cb' = [cb EXCEPT ![x].sta = TRUE, ![x].p_pcb = prc] /\ free' = free /\ run' = run
  BY DEF StartOn
<1>2. /\ run' \in [Tepp -> RUN]
      /\ cb' = [cb EXCEPT ![x] = [@ EXCEPT !.sta = TRUE, !.p_pcb = prc]]
  BY <1>1 DEF NotifyInv, TypeOK
<1>3. /\ Withdrawn(x) \in [Tepp -> SUBSET Obj]
      /\ \A p \in Tepp : Withdrawn(x)[p] = tmevt_heap[p] \ {x}
  BY <1>1, WithdrawnFacts
<1>4. prc \in Tepp
  BY <1>1, <1>2
<1>5. tmevt_heap' = IF TRUE THEN Enqueued(Withdrawn(x), x, prc) ELSE Withdrawn(x)
  BY <1>1
<1>6. /\ NotifyInv' /\ Status[x] # "none"
      /\ Becomes(x, IF TRUE THEN prc ELSE "stopped")
  BY <1>1, <1>2, <1>3, <1>4, <1>5, StartedStep
<1>7. QED
  BY <1>4, <1>6

\* An existing notification is stopped, by a task or because its event happens.
LEMMA StoppedStep ==
    ASSUME NotifyInv, NEW x \in Obj, Exists(x), tmevt_heap' = Withdrawn(x),
           cb' = [cb EXCEPT ![x].sta = FALSE], free' = free, run' \in [Tepp -> RUN]
    PROVE  NotifyInv' /\ Status[x] # "none" /\ Becomes(x, "stopped")
<1>1. /\ cb[x].p_pcb \in Tepp
      /\ cb' = [cb EXCEPT ![x] = [@ EXCEPT !.sta = FALSE, !.p_pcb = cb[x].p_pcb]]
  BY BlockOwner
<1>2. /\ Withdrawn(x) \in [Tepp -> SUBSET Obj]
      /\ \A p \in Tepp : Withdrawn(x)[p] = tmevt_heap[p] \ {x}
  BY WithdrawnFacts
<1>3. QED
  BY <1>1, <1>2, StartedStep

LEMMA StopStep ==
    ASSUME NotifyInv, NEW x \in Obj, Stop(x)
    PROVE  NotifyInv' /\ Status[x] # "none" /\ Becomes(x, "stopped")
  BY StoppedStep DEF Stop, NotifyInv, TypeOK

----------------------------------------------------------------------------
\* The handlers

Busy(r) == IF r.at \in {"idle", "return"} THEN {} ELSE {r.obj}

\* A processor goes on in a handler, begins one, or ends it.
LEMMA HandlingStep ==
    ASSUME run \in [Tepp -> RUN], NEW p \in Tepp, NEW r \in RUN, run' = [run EXCEPT ![p] = r]
    PROVE  /\ run' \in [Tepp -> RUN] /\ Handling[p] = Busy(run[p])
           /\ Handling' = [Handling EXCEPT ![p] = Busy(r)]
<1>1. run' \in [Tepp -> RUN] /\ run'[p] = r /\ \A q \in Tepp : q # p => run'[q] = run[q]
  OBVIOUS
<1>2. /\ Handling = [q \in Tepp |-> Busy(run[q])]
      /\ Handling' = [q \in Tepp |-> Busy(run'[q])]
  BY DEF Handling, Busy
<1>3. QED
  BY <1>1, <1>2

\* A notification whose event is registered is started there.
LEMMA RegisteredFacts ==
    ASSUME NotifyInv, NEW p \in Tepp, NEW x \in Obj, x \in tmevt_heap[p]
    PROVE  /\ Exists(x) /\ cb[x].sta = TRUE /\ cb[x].p_pcb = p /\ Status[x] = p
           /\ Dequeued(tmevt_heap, x, p) \in [Tepp -> SUBSET Obj]
           /\ \A q \in Tepp : Dequeued(tmevt_heap, x, p)[q] = tmevt_heap[q] \ {x}
<1>1. \A q \in Tepp : x \in tmevt_heap[q] <=> cb[x].sta /\ cb[x].p_pcb = q
  BY DEF NotifyInv, StartedIsRegistered
<1>2. cb[x].sta = TRUE /\ cb[x].p_pcb = p
  BY <1>1 DEF NotifyInv, TypeOK, CB
<1>3. Exists(x)
  BY <1>2 DEF NotifyInv, BlockOk
<1>4. tmevt_heap \in [Tepp -> SUBSET Obj]
  BY DEF NotifyInv, TypeOK
<1>5. \A q \in Tepp : q # p => x \notin tmevt_heap[q]
  BY <1>1, <1>2
<1>6. QED
  BY <1>2, <1>3, <1>4, <1>5 DEF Dequeued, Status

LEMMA ExpireStep ==
    ASSUME NotifyInv, NEW p \in Tepp, NEW x \in Obj, Expire(p, x)
    PROVE  /\ NotifyInv' /\ Status[x] = p /\ Handling[p] = {}
           /\ Handling' = [Handling EXCEPT ![p] = {x}]
           /\ IF x \in Alm THEN Becomes(x, "stopped") ELSE Status' = Status
<1>. DEFINE r == [at |-> "call", obj |-> x]
<1>1. /\ run[p].at \in {"idle", "return"} /\ x \in tmevt_heap[p] /\ free' = free
      /\ run' = [run EXCEPT ![p] = r] /\ r \in RUN /\ r.at = "call" /\ r.obj = x
      /\ run \in [Tepp -> RUN]
  BY DEF Expire, NotifyInv, TypeOK, RUN
<1>. HIDE DEF r
<1>2. /\ run' \in [Tepp -> RUN] /\ Handling[p] = {}
      /\ Handling' = [Handling EXCEPT ![p] = {x}]
  BY <1>1, HandlingStep DEF Busy
<1>3. /\ Exists(x) /\ cb[x].sta = TRUE /\ cb[x].p_pcb = p /\ Status[x] = p
      /\ Dequeued(tmevt_heap, x, p) \in [Tepp -> SUBSET Obj]
      /\ \A q \in Tepp : Dequeued(tmevt_heap, x, p)[q] = tmevt_heap[q] \ {x}
  BY <1>1, RegisteredFacts, ZenonT(30)
<1>4. \A sta \in BOOLEAN :
         [cb EXCEPT ![x].sta = sta] = [cb EXCEPT ![x] = [@ EXCEPT !.sta = sta, !.p_pcb = p]]
  BY <1>3, BlockOwner
<1>5. CASE call_alarm(p, x)
  <2>1. x \in Alm /\ tmevt_heap' = Withdrawn(x) /\ cb' = [cb EXCEPT ![x].sta = FALSE]
    BY <1>3, <1>5 DEF call_alarm, Withdrawn
  <2>2. NotifyInv' /\ Becomes(x, "stopped")
    BY <2>1, <1>1, <1>2, <1>3, StoppedStep
  <2>3. QED
    BY <2>1, <2>2, <1>2, <1>3
<1>6. CASE call_cyclic(p, x)
  <2>1. x \notin Alm
    BY <1>6, NotifyAssumption DEF call_cyclic
  <2>2. cb' = cb /\ tmevt_heap' = Enqueued(Dequeued(tmevt_heap, x, p), x, p)
    BY <1>3, <1>6 DEF call_cyclic
  <2>3. cb = [cb EXCEPT ![x].sta = TRUE]
    <3>1. cb \in [Obj -> CB]
      BY DEF NotifyInv, TypeOK
    <3>2. cb[x] = [cb[x] EXCEPT !.sta = TRUE]
      BY <3>1, <1>3 DEF CB
    <3>3. QED
      BY <3>1, <3>2
  <2>4. /\ tmevt_heap' = IF TRUE THEN Enqueued(Dequeued(tmevt_heap, x, p), x, p)
                                 ELSE Dequeued(tmevt_heap, x, p)
        /\ cb' = [cb EXCEPT ![x] = [@ EXCEPT !.sta = TRUE, !.p_pcb = p]]
    BY <2>2, <2>3, <1>4
  <2>5. NotifyInv'
    BY <2>4, <1>1, <1>2, <1>3, StartedStep, ZenonT(30)
  <2>6. Status' = Status
    BY <2>2 DEF Status, Exists
  <2>7. QED
    BY <2>1, <2>5, <2>6, <1>2, <1>3
<1>7. QED
  BY <1>5, <1>6 DEF Expire

LEMMA RunStep ==
    ASSUME NotifyInv, NEW p \in Tepp, NEW r \in RUN, run' = [run EXCEPT ![p] = r],
           UNCHANGED <<cb, free, tmevt_heap>>, Busy(r) \in {{}, Busy(run[p])}
    PROVE  /\ NotifyInv' /\ Status' = Status
           /\ Handling' = Handling \/ Handling' = [Handling EXCEPT ![p] = {}]
<1>1. /\ run' \in [Tepp -> RUN] /\ Handling[p] = Busy(run[p])
      /\ Handling' = [Handling EXCEPT ![p] = Busy(r)]
  BY HandlingStep DEF NotifyInv, TypeOK
<1>2. NotifyInv'
  BY <1>1 DEF NotifyInv, TypeOK, FreeList, StartedIsRegistered, OwnerHandlesEvents, BlockOk,
              Exists, Kind
<1>3. Status' = Status
  BY DEF Status, Exists
<1>4. Handling = [Handling EXCEPT ![p] = Handling[p]]
  BY DEF Handling
<1>5. QED
  BY <1>1, <1>2, <1>3, <1>4

\* What a processor does in the handler, and when signal_time returns.
LEMMA HandlerStep ==
    ASSUME NotifyInv, NEW p \in Tepp,
           CallHandler(p) \/ HandlerReturns(p) \/ notify(p) \/ notify_error(p) \/ Return(p)
    PROVE  /\ NotifyInv' /\ Status' = Status
           /\ Handling' = Handling \/ Handling' = [Handling EXCEPT ![p] = {}]
<1>. DEFINE x == run[p].obj
<1>1. /\ run \in [Tepp -> RUN] /\ run[p] \in RUN /\ x \in Obj
  BY DEF NotifyInv, TypeOK, RUN
<1>2. UNCHANGED <<cb, free, tmevt_heap>>
  BY DEF CallHandler, HandlerReturns, notify, notify_error, Return
<1>3. ASSUME NEW at \in {"handler", "notify", "error", "return"},
             run' = [run EXCEPT ![p].at = at], run[p].at \notin {"idle", "return"}
      PROVE  /\ NotifyInv' /\ Status' = Status
             /\ Handling' = Handling \/ Handling' = [Handling EXCEPT ![p] = {}]
  <2>. DEFINE r == [run[p] EXCEPT !.at = at]
  <2>1. r \in RUN /\ r.at = at /\ r.obj = x /\ run' = [run EXCEPT ![p] = r]
    BY <1>1, <1>3 DEF RUN
  <2>. HIDE DEF r
  <2>2. Busy(r) \in {{}, Busy(run[p])}
    BY <2>1, <1>3 DEF Busy
  <2>3. QED
    BY <2>1, <2>2, <1>2, RunStep
<1>4. CASE CallHandler(p)
  <2>1. PICK at \in {"handler", "notify"} :
           run' = [run EXCEPT ![p].at = at] /\ run[p].at = "call"
    BY <1>4 DEF CallHandler
  <2>2. QED
    BY <2>1, <1>3
<1>5. CASE HandlerReturns(p) \/ notify_error(p)
  BY <1>3, <1>5 DEF HandlerReturns, notify_error
<1>6. CASE notify(p)
  <2>1. PICK next \in {"return", "error"} :
           run' = [run EXCEPT ![p].at = next] /\ run[p].at = "notify"
    BY <1>6 DEF notify
  <2>2. QED
    BY <2>1, <1>3
<1>7. CASE Return(p)
  <2>1. Idle \in RUN /\ Idle.at = "idle"
    BY NotifyAssumption DEF Idle, RUN
  <2>2. Busy(Idle) = {}
    BY <2>1 DEF Busy
  <2>3. QED
    BY <2>1, <2>2, <1>2, <1>7, RunStep DEF Return
<1>8. QED
  BY <1>4, <1>5, <1>6, <1>7

----------------------------------------------------------------------------
\* The invariant, and the refinement

LEMMA Initially == Init => NotifyInv /\ Promise!NotificationsInit
<1> SUFFICES ASSUME Init
             PROVE  NotifyInv /\ Promise!NotificationsInit
  OBVIOUS
<1>1. PICK atr \in [Static -> {"TA_NULL", "TA_STA"}], hdr \in [Static -> Nfyhdr] :
         cb = [x \in Obj |-> IF x \in Static
                               THEN Block(atr[x], atr[x] = "TA_STA", iprcid[x], hdr[x])
                               ELSE Unused]
  BY DEF Init
<1>2. ASSUME NEW x \in Static
      PROVE  /\ x \in Obj /\ cb[x] \in CB /\ cb[x].atr \in {"TA_NULL", "TA_STA"}
             /\ cb[x].callback = "call" /\ cb[x].p_pcb = iprcid[x]
             /\ cb[x].p_pcb \in Tepp /\ Exists(x)
  <2>1. x \in Obj /\ iprcid[x] \in Tepp /\ iprcid[x] \in Prc
    BY NotifyAssumption
  <2>2. cb[x] = Block(atr[x], atr[x] = "TA_STA", iprcid[x], hdr[x])
    BY <1>1, <2>1
  <2>3. Block(atr[x], atr[x] = "TA_STA", iprcid[x], hdr[x]) \in CB
    BY <2>1 DEF Block, CB
  <2>4. cb[x].atr \in {"TA_NULL", "TA_STA"} /\ cb[x].callback = "call" /\ cb[x].p_pcb = iprcid[x]
    BY <2>2 DEF Block
  <2>5. QED
    BY <2>1, <2>2, <2>3, <2>4 DEF Exists
<1>3. ASSUME NEW x \in Obj, x \notin Static
      PROVE  cb[x] \in CB /\ ~Exists(x) /\ ~cb[x].sta
  <2>1. MASTER \in Prc
    BY NotifyAssumption
  <2>2. cb[x] = Unused
    BY <1>1, <1>3
  <2>3. Unused \in CB /\ Unused.atr = "TA_NOEXS" /\ Unused.sta = FALSE
    BY <2>1 DEF Unused, Block, CB, Nfyhdr
  <2>4. QED
    BY <2>2, <2>3 DEF Exists
<1>4. cb \in [Obj -> CB]
  <2>1. \A x \in Obj : cb[x] \in CB
    BY <1>2, <1>3
  <2>2. QED
    BY <1>1, <2>1
<1>5. ASSUME NEW k \in {"cyc", "alm"}
      PROVE  /\ free[k] \in Seq(Obj) /\ IsInjective(free[k])
             /\ Range(free[k]) = {x \in Obj : Kind(x) = k /\ ~Exists(x)}
  <2>. DEFINE S == {x \in Obj \ Static : Kind(x) = k}
  <2>1. free[k] = SetToSeq(S)
    BY DEF Init
  <2>2. S \in SUBSET Obj /\ IsFiniteSet(S)
    BY NotifyAssumption, FS_Subset
  <2>3. S = {x \in Obj : Kind(x) = k /\ ~Exists(x)}
    BY <1>2, <1>3
  <2>. HIDE DEF S
  <2>4. QED
    BY <2>1, <2>2, <2>3, SetToSeqFacts
<1>6. FreeList
  BY <1>5 DEF FreeList
<1>7. \A p \in Tepp : tmevt_heap[p] = {x \in Static : cb[x].sta /\ iprcid[x] = p}
  BY DEF Init
<1>8. TypeOK
  <2>1. tmevt_heap \in [Tepp -> SUBSET Obj]
    <3>1. \A p \in Tepp : tmevt_heap[p] \in SUBSET Obj
      BY <1>7, NotifyAssumption
    <3>2. QED
      BY <3>1 DEF Init
  <2>2. free \in [{"cyc", "alm"} -> Seq(Obj)]
    BY <1>5 DEF Init
  <2>3. run \in [Tepp -> RUN]
    BY NotifyAssumption DEF Init, Idle, RUN
  <2>4. QED
    BY <1>4, <2>1, <2>2, <2>3 DEF TypeOK
<1>9. StartedIsRegistered
  <2>. SUFFICES ASSUME NEW x \in Obj, NEW p \in Tepp
                PROVE  x \in tmevt_heap[p] <=> cb[x].sta /\ cb[x].p_pcb = p
    BY DEF StartedIsRegistered
  <2>1. CASE x \in Static
    BY <2>1, <1>2, <1>7
  <2>2. CASE x \notin Static
    BY <2>2, <1>3, <1>7
  <2>3. QED
    BY <2>1, <2>2
<1>10. OwnerHandlesEvents /\ BlockOk
  BY <1>2, <1>3 DEF OwnerHandlesEvents, BlockOk
<1>11. Status \in [Obj -> {"none", "stopped"} \cup Tepp]
  BY <1>10 DEF Status, OwnerHandlesEvents
<1>12. Handling = [p \in Tepp |-> {}]
  BY DEF Init, Handling, Idle
<1>13. QED
  BY <1>6, <1>8, <1>9, <1>10, <1>11, <1>12 DEF NotifyInv, Promise!NotificationsInit, Obj

LEMMA EachStep ==
    ASSUME NotifyInv, [Next]_vars
    PROVE  NotifyInv' /\ [Promise!NotificationsNext]_<<Status, Handling>>
<1>1. ASSUME NEW k \in {"cyc", "alm"}, NEW atr \in {"TA_NULL", "TA_STA"}, NEW hdr \in Nfyhdr,
             Create(k, atr, hdr)
      PROVE  NotifyInv' /\ Promise!NotificationsNext
  <2>1. NotifyInv'
    BY <1>1, CreateStep
  <2>2. PICK x \in Obj, s \in {"stopped"} \cup Tepp : Status[x] = "none" /\ Becomes(x, s)
    BY <1>1, CreateStep
  <2>3. s # "none"
    BY NotifyAssumption
  <2>4. Handling' = Handling
    BY <1>1 DEF Create, Handling
  <2>5. Promise!Create(x, s)
    BY <2>2, <2>3, <2>4 DEF Promise!Create, Promise!Becomes, Becomes
  <2>6. QED
    BY <2>1, <2>5 DEF Promise!NotificationsNext, Obj
<1>2. ASSUME NEW x \in Obj, Delete(x)
      PROVE  NotifyInv' /\ Promise!NotificationsNext
  <2>1. NotifyInv' /\ Status[x] # "none" /\ Becomes(x, "none")
    BY <1>2, DeleteStep
  <2>2. Handling' = Handling
    BY <1>2 DEF Delete, Handling
  <2>3. QED
    BY <2>1, <2>2 DEF Promise!NotificationsNext, Promise!Delete, Promise!Becomes, Becomes, Obj
<1>3. ASSUME NEW x \in Obj, NEW prc \in Prc, Start(x) \/ StartOn(x, prc)
      PROVE  NotifyInv' /\ Promise!NotificationsNext
  <2>1. NotifyInv' /\ Status[x] # "none" /\ \E p \in Tepp : Becomes(x, p)
    BY <1>3, StartStep, StartOnStep
  <2>2. Handling' = Handling
    BY <1>3 DEF Start, StartOn, Handling
  <2>3. QED
    BY <2>1, <2>2 DEF Promise!NotificationsNext, Promise!Start, Promise!Becomes, Becomes, Obj
<1>4. ASSUME NEW x \in Obj, Stop(x)
      PROVE  NotifyInv' /\ Promise!NotificationsNext
  <2>1. NotifyInv' /\ Status[x] # "none" /\ Becomes(x, "stopped")
    BY <1>4, StopStep
  <2>2. Handling' = Handling
    BY <1>4 DEF Stop, Handling
  <2>3. QED
    BY <2>1, <2>2 DEF Promise!NotificationsNext, Promise!Stop, Promise!Becomes, Becomes, Obj
<1>5. ASSUME NEW x \in Obj, NEW p \in Tepp, Expire(p, x)
      PROVE  NotifyInv' /\ Promise!NotificationsNext
  BY <1>5, ExpireStep DEF Promise!NotificationsNext, Promise!Happen, Promise!Becomes, Becomes, Obj
<1>6. ASSUME NEW p \in Tepp,
             CallHandler(p) \/ HandlerReturns(p) \/ notify(p) \/ notify_error(p) \/ Return(p)
      PROVE  NotifyInv' /\ [Promise!NotificationsNext]_<<Status, Handling>>
  BY <1>6, HandlerStep DEF Promise!NotificationsNext, Promise!Return
<1>7. CASE UNCHANGED vars
  <2>1. NotifyInv'
    BY <1>7 DEF vars, NotifyInv, TypeOK, FreeList, StartedIsRegistered, OwnerHandlesEvents,
                BlockOk, Exists, Kind
  <2>2. UNCHANGED <<Status, Handling>>
    BY <1>7 DEF vars, Status, Handling, Exists
  <2>3. QED
    BY <2>1, <2>2
<1>8. CASE Next
  <2>1. ASSUME NEW hdr \in Nfyhdr, NEW atr \in {"TA_NULL", "TA_STA"},
               acre_alm(hdr) \/ acre_cyc(atr, hdr)
        PROVE  NotifyInv' /\ Promise!NotificationsNext
    BY <2>1, <1>1 DEF acre_alm, acre_cyc
  <2>2. ASSUME NEW x \in Obj, del_cyc(x) \/ del_alm(x)
        PROVE  NotifyInv' /\ Promise!NotificationsNext
    BY <2>2, <1>2 DEF del_cyc, del_alm
  <2>3. ASSUME NEW x \in Obj, NEW prc \in Prc,
               sta_cyc(x) \/ sta_alm(x) \/ msta_cyc(x, prc) \/ msta_alm(x, prc)
        PROVE  NotifyInv' /\ Promise!NotificationsNext
    BY <2>3, <1>3 DEF sta_cyc, sta_alm, msta_cyc, msta_alm
  <2>4. ASSUME NEW x \in Obj, stp_cyc(x) \/ stp_alm(x)
        PROVE  NotifyInv' /\ Promise!NotificationsNext
    BY <2>4, <1>4 DEF stp_cyc, stp_alm
  <2>5. MASTER \in Prc
    BY NotifyAssumption
  <2>6. QED
    BY <1>8, <2>1, <2>2, <2>3, <2>4, <2>5, <1>5, <1>6 DEF Next
<1>9. QED
  BY <1>7, <1>8

THEOREM Invariance == Spec => []NotifyInv
<1>1. NotifyInv /\ [Next]_vars => NotifyInv'
  BY EachStep
<1> QED
  BY <1>1, Initially, PTL DEF Spec

\* The control blocks, free lists and heaps keep their types.
THEOREM TypeCorrect == Spec => []TypeOK
<1>1. NotifyInv => TypeOK
  BY NotifyInvParts
<1> QED
  BY <1>1, Invariance, PTL

\* A notification is started exactly when its event is in the heap of the
\* processor in its control block, and in no other heap (alarm.c, cyclic.c).
THEOREM RegisteredCorrect == Spec => []StartedIsRegistered
<1>1. NotifyInv => StartedIsRegistered
  BY NotifyInvParts
<1> QED
  BY <1>1, Invariance, PTL

\* The event block of a registered notification is whole, and the free lists hold
\* the unused notifications, each once (alarm.c:228-234, cyclic.c:248-254).
THEOREM EventBlocksCorrect == Spec => []EventBlockIntact
<1>1. NotifyInv => EventBlockIntact
  BY NotifyInvParts
<1> QED
  BY <1>1, Invariance, PTL

\* The processor of an existing notification handles time events, so the
\* operations may use its heap (cyclic.c:239-246).
THEOREM OwnersCorrect == Spec => []OwnerHandlesEvents
<1>1. NotifyInv => OwnerHandlesEvents
  BY NotifyInvParts
<1> QED
  BY <1>1, Invariance, PTL

\* A handler begins only on the processor on which its notification is started;
\* an alarm is then stopped (module Notifications; alarm.c, cyclic.c).
THEOREM NotificationsImplemented == Spec => ImplementsNotifications
<1>1. NotifyInv /\ [Next]_vars => [Promise!NotificationsNext]_<<Status, Handling>>
  BY EachStep
<1> QED
  BY <1>1, Initially, Invariance, PTL DEF Spec, ImplementsNotifications, Promise!NotificationsSpec

=============================================================================
