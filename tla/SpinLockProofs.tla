--------------------------- MODULE SpinLockProofs ---------------------------
(***************************************************************************)
(* The spin locks are correct for every number of tasks, processors and    *)
(* locks and every depth of nested interrupt handlers: a lock has one      *)
(* holder, a holder is not interrupted, and the spin locks implement       *)
(* abstract locks (module Locks).                                          *)
(***************************************************************************)
EXTENDS SpinLock, TLAPS

----------------------------------------------------------------------------
\* The inductive invariant, in named parts

Top(p) == Last(stack[p])

\* A task, if any, is at the bottom of a stack; above it are the handlers of
\* the processor, by nesting depth.
HasTask(s) == s # << >> /\ s[1] \in Tsk
Depth(s, i) == IF HasTask(s) THEN i - 1 ELSE i

Form(p, s) ==
    /\ \A i \in 1 .. Len(s) : (i = 1 /\ s[1] \in Tsk) \/ s[i] = <<p, Depth(s, i)>>
    /\ Depth(s, Len(s)) <= MaxNest

StackForm == \A p \in Prc : Form(p, stack[p])

\* A task is on one stack at most.
TaskOnce ==
    \A p, q \in Prc :
        HasTask(stack[p]) /\ HasTask(stack[q]) /\ stack[p][1] = stack[q][1] => p = q

StackInv == StackForm /\ TaskOnce

\* What a processor that executes at location l of call c, with the CPU lock b
\* and the spin lock s, may be in; and whether it has lock m.
LocalOk(l, b, c, s) ==
    /\ l \in {"acquire", "glocked", "flagged", "got", "unlock"} => b /\ s = NULL
    /\ l \in {"window", "poll"} => ~b /\ s = NULL
    /\ s # NULL => b
    /\ l = "glocked" => c.spn \notin Native
    /\ l = "flagged" => c.spn \notin Native

HasLock(l, c, s, m) ==
    IF m = GLOCK THEN l \in {"glocked", "flagged"}
    ELSE s = m \/ (l \in {"flagged", "got", "unlock"} /\ c.spn = m)

ProcessorInv ==
    \A p \in Prc :
        IF stack[p] = << >> THEN ~cpulock[p] /\ p_locspn[p] = NULL
        ELSE LocalOk(pc[Top(p)], cpulock[p], call[Top(p)], p_locspn[p])

LockInv == TypeOK /\ StackInv /\ ProcessorInv /\ InterruptedHoldsNothing /\ LockExclusive

----------------------------------------------------------------------------
\* Who executes where

LEMMA TopFacts ==
    ASSUME TypeOK, NEW p \in Prc, stack[p] # << >>
    PROVE  /\ Top(p) \in Agent /\ Len(stack[p]) \in Nat \ {0}
           /\ Top(p) = stack[p][Len(stack[p])]
           /\ \A a : Executes(p, a) <=> a = Top(p)
  BY DEF TypeOK, Top, Last, Executes

LEMMA SamePair == \A a, b, c, d : <<a, b>> = <<c, d>> => a = c /\ b = d
  OBVIOUS

\* Handlers are no tasks.
LEMMA HandlerNoTask == \A p \in Prc, i \in 1 .. MaxNest : <<p, i>> \notin Tsk
  BY LockAssumption

\* The elements of the stacks are different.
LEMMA StackDistinct ==
    ASSUME TypeOK, StackInv, NEW p \in Prc, NEW q \in Prc,
           NEW i \in 1 .. Len(stack[p]), NEW j \in 1 .. Len(stack[q]),
           stack[p][i] = stack[q][j]
    PROVE  p = q /\ i = j
<1>1. /\ stack[p] \in Seq(Agent) /\ stack[q] \in Seq(Agent)
      /\ Len(stack[p]) \in Nat /\ Len(stack[q]) \in Nat /\ MaxNest \in Nat
  BY LockAssumption DEF TypeOK
<1>2. \/ i = 1 /\ stack[p][1] \in Tsk
      \/ /\ stack[p][i] = <<p, Depth(stack[p], i)>>
         /\ Depth(stack[p], i) \in 0 .. MaxNest
         /\ Depth(stack[p], i) # 0
  BY <1>1 DEF StackInv, StackForm, Form, Depth, HasTask
<1>3. \/ j = 1 /\ stack[q][1] \in Tsk
      \/ /\ stack[q][j] = <<q, Depth(stack[q], j)>>
         /\ Depth(stack[q], j) \in 0 .. MaxNest
         /\ Depth(stack[q], j) # 0
  BY <1>1 DEF StackInv, StackForm, Form, Depth, HasTask
<1>4. CASE i = 1 /\ stack[p][1] \in Tsk
  <2>1. j = 1 /\ stack[q][1] \in Tsk
    <3>1. stack[q][j] \in Tsk
      BY <1>4
    <3>2. CASE Depth(stack[q], j) \in 1 .. MaxNest /\ stack[q][j] = <<q, Depth(stack[q], j)>>
      BY <3>1, <3>2, HandlerNoTask
    <3>3. QED
      BY <3>2, <1>3, <1>1
  <2>2. stack[p] # << >> /\ stack[q] # << >>
    BY <1>1
  <2>3. QED
    BY <1>4, <2>1, <2>2 DEF StackInv, TaskOnce, HasTask
<1>5. CASE ~(i = 1 /\ stack[p][1] \in Tsk)
  <2>1. /\ stack[p][i] = <<p, Depth(stack[p], i)>>
        /\ Depth(stack[p], i) \in 1 .. MaxNest
    BY <1>2, <1>5, <1>1
  <2>2. stack[q][j] \notin Tsk
    BY <2>1, HandlerNoTask
  <2>3. stack[q][j] = <<q, Depth(stack[q], j)>> /\ ~(j = 1 /\ stack[q][1] \in Tsk)
    BY <2>2, <1>3
  <2>4. p = q /\ Depth(stack[p], i) = Depth(stack[q], j)
    BY <2>1, <2>3, SamePair, Zenon
  <2>5. QED
    BY <2>4, <1>1 DEF Depth
<1>6. QED
  BY <1>4, <1>5

LEMMA OtherTop ==
    ASSUME TypeOK, StackInv, NEW p \in Prc, NEW q \in Prc, p # q,
           stack[p] # << >>, stack[q] # << >>
    PROVE  Top(p) # Top(q)
<1>1. Len(stack[p]) \in 1 .. Len(stack[p]) /\ Len(stack[q]) \in 1 .. Len(stack[q])
  BY TopFacts
<1>2. Top(p) = stack[p][Len(stack[p])] /\ Top(q) = stack[q][Len(stack[q])]
  BY TopFacts
<1>3. QED
  BY <1>1, <1>2, StackDistinct

----------------------------------------------------------------------------
\* A step of what executes on p: it goes on at location l of call c, with the
\* CPU lock b and the spin lock s.

Lock == Spn \cup {GLOCK}
CallRec == [spn: Spn \cup {NULL, EXIT}, try: BOOLEAN]

GoesOnAt(p, a, l, b, c, s) ==
    /\ pc' = [pc EXCEPT ![a] = l]
    /\ cpulock' = [cpulock EXCEPT ![p] = b]
    /\ call' = [call EXCEPT ![a] = c]
    /\ p_locspn' = [p_locspn EXCEPT ![p] = s]
    /\ stack' = stack
    /\ word' \in [Lock -> BOOLEAN]

\* The parts of the invariant that do not count the holders.
LocalInv == TypeOK /\ StackInv /\ ProcessorInv /\ InterruptedHoldsNothing

LEMMA LocalStep ==
    ASSUME LocalInv, NEW p \in Prc, NEW a, Executes(p, a),
           NEW l \in Locations, NEW b \in BOOLEAN, NEW c \in CallRec, NEW s \in Spn \cup {NULL},
           l \in {"flagged", "poll", "got", "unlock"} => c.spn \in Spn,
           LocalOk(l, b, c, s), GoesOnAt(p, a, l, b, c, s)
    PROVE  /\ LocalInv'
           /\ \A m : Holds(p, m)' <=> HasLock(l, c, s, m)
           /\ \A q \in Prc : \A m : q # p => (Holds(q, m)' <=> Holds(q, m))
<1>1. /\ stack[p] # << >> /\ a = Top(p) /\ a \in Agent
  BY TopFacts DEF Executes, LocalInv
<1>2. TypeOK'
  BY <1>1 DEF TypeOK, LocalInv, GoesOnAt, Lock, CallRec
<1>3. StackInv'
  BY DEF StackInv, StackForm, TaskOnce, Depth, HasTask, GoesOnAt, LocalInv
<1>4. \A q \in Prc : Top(q)' = Top(q) /\ stack'[q] = stack[q]
  BY DEF GoesOnAt, Top
<1>5. pc'[a] = l /\ call'[a] = c /\ cpulock'[p] = b /\ p_locspn'[p] = s
  BY <1>1 DEF TypeOK, LocalInv, GoesOnAt
<1>6. ASSUME NEW q \in Prc, q # p, stack[q] # << >>
      PROVE  /\ Top(q) # a
             /\ pc'[Top(q)] = pc[Top(q)] /\ call'[Top(q)] = call[Top(q)]
             /\ cpulock'[q] = cpulock[q] /\ p_locspn'[q] = p_locspn[q]
  <2>1. Top(q) # a /\ Top(q) \in Agent
    BY <1>1, <1>6, OtherTop, TopFacts DEF LocalInv
  <2>2. QED
    BY <2>1, <1>6 DEF TypeOK, LocalInv, GoesOnAt
<1>7. ProcessorInv'
  <2>. SUFFICES ASSUME NEW q \in Prc
                PROVE  (IF stack[q] = << >> THEN ~cpulock[q] /\ p_locspn[q] = NULL
                        ELSE LocalOk(pc[Top(q)], cpulock[q], call[Top(q)], p_locspn[q]))'
    BY DEF ProcessorInv
  <2>1. CASE q = p
    BY <2>1, <1>1, <1>4, <1>5, Zenon
  <2>2. CASE q # p /\ stack[q] = << >>
    <3>1. cpulock'[q] = cpulock[q] /\ p_locspn'[q] = p_locspn[q]
      BY <2>2 DEF TypeOK, LocalInv, GoesOnAt
    <3>2. QED
      BY <2>2, <3>1, <1>4 DEF LocalInv, ProcessorInv
  <2>3. CASE q # p /\ stack[q] # << >>
    <3>1. LocalOk(pc[Top(q)], cpulock[q], call[Top(q)], p_locspn[q])
      BY <2>3 DEF LocalInv, ProcessorInv
    <3>2. QED
      BY <3>1, <2>3, <1>6, <1>4, Zenon
  <2>4. QED
    BY <2>1, <2>2, <2>3
<1>8. InterruptedHoldsNothing'
  <2>1. \A x \in Agent : x # a => pc'[x] = pc[x]
    BY DEF TypeOK, LocalInv, GoesOnAt
  <2>2. \A q \in Prc : \A x : Executes(q, x)' <=> Executes(q, x)
    BY DEF Executes, GoesOnAt
  <2>3. QED
    BY <2>1, <2>2 DEF InterruptedHoldsNothing, LocalInv
<1>9. \A m : Holds(p, m)' <=> HasLock(l, c, s, m)
  BY <1>1, <1>5 DEF Holds, HasLock, Top, GoesOnAt
<1>10. ASSUME NEW q \in Prc, NEW m, q # p
       PROVE  Holds(q, m)' <=> Holds(q, m)
  <2>1. CASE stack[q] = << >>
    BY <2>1, <1>4 DEF Holds
  <2>2. CASE stack[q] # << >>
    BY <2>2, <1>4, <1>6, <1>10 DEF Holds, Top
  <2>3. QED
    BY <2>1, <2>2
<1>11. QED
  BY <1>2, <1>3, <1>7, <1>8, <1>9, <1>10 DEF LocalInv

----------------------------------------------------------------------------
\* What a step may do to the holders of the locks.

SameLocks == word' = word /\ \A q \in Prc, m \in Lock : Holds(q, m)' <=> Holds(q, m)

Taken(p, k) ==
    /\ ~word[k] /\ word' = [word EXCEPT ![k] = TRUE]
    /\ k \in Spn => \A m \in Spn : ~Holds(p, m)
    /\ \A q \in Prc, m \in Lock : Holds(q, m)' <=> (q = p /\ m = k) \/ Holds(q, m)

Returned(p, k) ==
    /\ Holds(p, k) /\ word' = [word EXCEPT ![k] = FALSE]
    /\ \A q \in Prc, m \in Lock : Holds(q, m)' <=> ~(q = p /\ m = k) /\ Holds(q, m)

LockChange == SameLocks \/ \E p \in Prc, k \in Lock : Taken(p, k) \/ Returned(p, k)

LEMMA ExclusiveKept ==
    ASSUME TypeOK, LockExclusive, LockChange
    PROVE  LockExclusive'
<1>. word \in [Lock -> BOOLEAN]
  BY DEF TypeOK, Lock
<1>1. CASE SameLocks
  BY <1>1, Zenon DEF SameLocks, LockExclusive, Lock
<1>2. ASSUME NEW p \in Prc, NEW k \in Lock, Taken(p, k)
      PROVE  LockExclusive'
  <2>1. \A q \in Prc : ~Holds(q, k)
    BY <1>2, Zenon DEF Taken, LockExclusive, Lock
  <2>2. \A m \in Lock : word'[m] = IF m = k THEN TRUE ELSE word[m]
    BY <1>2, Zenon DEF Taken
  <2>3. \A q \in Prc, m \in Lock : Holds(q, m)' <=> (q = p /\ m = k) \/ Holds(q, m)
    BY <1>2 DEF Taken
  <2>4. SUFFICES ASSUME NEW m \in Lock
                 PROVE  /\ word'[m] <=> \E q \in Prc : Holds(q, m)'
                        /\ \A q, r \in Prc : Holds(q, m)' /\ Holds(r, m)' => q = r
    BY Zenon DEF LockExclusive, Lock
  <2>5. CASE m = k
    <3>1. word'[m] = TRUE
      BY <2>5, <2>2, Zenon
    <3>2. \A q \in Prc : Holds(q, m)' <=> q = p
      BY <2>5, <2>1, <2>3, Zenon
    <3>3. QED
      BY <3>1, <3>2, Zenon
  <2>6. CASE m # k
    <3>1. word'[m] = word[m]
      BY <2>6, <2>2, Zenon
    <3>2. \A q \in Prc : Holds(q, m)' <=> Holds(q, m)
      BY <2>6, <2>3, Zenon
    <3>3. QED
      BY <3>1, <3>2, Zenon DEF LockExclusive, Lock
  <2>7. QED
    BY <2>5, <2>6
<1>3. ASSUME NEW p \in Prc, NEW k \in Lock, Returned(p, k)
      PROVE  LockExclusive'
  <2>1. \A q \in Prc : Holds(q, k) => q = p
    BY <1>3, Zenon DEF Returned, LockExclusive, Lock
  <2>2. \A m \in Lock : word'[m] = IF m = k THEN FALSE ELSE word[m]
    BY <1>3, Zenon DEF Returned
  <2>3. \A q \in Prc, m \in Lock : Holds(q, m)' <=> ~(q = p /\ m = k) /\ Holds(q, m)
    BY <1>3 DEF Returned
  <2>4. SUFFICES ASSUME NEW m \in Lock
                 PROVE  /\ word'[m] <=> \E q \in Prc : Holds(q, m)'
                        /\ \A q, r \in Prc : Holds(q, m)' /\ Holds(r, m)' => q = r
    BY Zenon DEF LockExclusive, Lock
  <2>5. CASE m = k
    <3>1. word'[m] = FALSE
      BY <2>5, <2>2, Zenon
    <3>2. \A q \in Prc : Holds(q, m)' <=> FALSE
      BY <2>5, <2>1, <2>3, Zenon
    <3>3. QED
      BY <3>1, <3>2, Zenon
  <2>6. CASE m # k
    <3>1. word'[m] = word[m]
      BY <2>6, <2>2, Zenon
    <3>2. \A q \in Prc : Holds(q, m)' <=> Holds(q, m)
      BY <2>6, <2>3, Zenon
    <3>3. QED
      BY <3>1, <3>2, Zenon DEF LockExclusive, Lock
  <2>7. QED
    BY <2>5, <2>6
<1>4. QED
  BY <1>1, <1>2, <1>3 DEF LockChange

----------------------------------------------------------------------------
\* Steps that leave the stacks alone: they keep the invariant, and take or
\* return at most one lock.

LEMMA Context ==
    ASSUME LocalInv, NEW p \in Prc, NEW a, Executes(p, a)
    PROVE  /\ a \in Agent /\ stack[p] # << >>
           /\ LocalOk(pc[a], cpulock[p], call[a], p_locspn[p])
           /\ pc[a] \in Locations /\ call[a] \in CallRec /\ p_locspn[p] \in Spn \cup {NULL}
           /\ pc[a] \in {"flagged", "poll", "got", "unlock"} => call[a].spn \in Spn
           /\ word \in [Lock -> BOOLEAN]
           /\ \A m : Holds(p, m) <=> HasLock(pc[a], call[a], p_locspn[p], m)
           /\ p_locspn = [p_locspn EXCEPT ![p] = p_locspn[p]]
           /\ call = [call EXCEPT ![a] = call[a]]
           /\ cpulock = [cpulock EXCEPT ![p] = cpulock[p]]
<1>1. /\ stack[p] # << >> /\ a = Top(p) /\ a \in Agent
  BY TopFacts DEF Executes, LocalInv
<1>2. LocalOk(pc[a], cpulock[p], call[a], p_locspn[p])
  BY <1>1 DEF LocalInv, ProcessorInv
<1>3. \A m : Holds(p, m) <=> HasLock(pc[a], call[a], p_locspn[p], m)
  BY <1>1 DEF Holds, HasLock, Top
<1>4. QED
  BY <1>1, <1>2, <1>3 DEF LocalInv, TypeOK, CallRec, Lock

\* The locks that p has afterwards: the same, one more, or one less.
Keeps(p, a, l, c, s) ==
    \A m \in Lock : HasLock(l, c, s, m) <=> HasLock(pc[a], call[a], p_locspn[p], m)

Adds(p, a, l, c, s, k) ==
    /\ \A m \in Lock : HasLock(l, c, s, m) <=> m = k \/ HasLock(pc[a], call[a], p_locspn[p], m)
    /\ k \in Spn => \A m \in Spn : ~HasLock(pc[a], call[a], p_locspn[p], m)

Removes(p, a, l, c, s, k) ==
    /\ HasLock(pc[a], call[a], p_locspn[p], k)
    /\ \A m \in Lock : HasLock(l, c, s, m) <=> m # k /\ HasLock(pc[a], call[a], p_locspn[p], m)

Sound(l, b, c, s) ==
    /\ l \in Locations /\ b \in BOOLEAN /\ c \in CallRec /\ s \in Spn \cup {NULL}
    /\ l \in {"flagged", "poll", "got", "unlock"} => c.spn \in Spn
    /\ LocalOk(l, b, c, s)

SetWord(k, b) == word' = [word EXCEPT ![k] = b]

LEMMA QuietStep ==
    ASSUME LocalInv, NEW p \in Prc, NEW a, Executes(p, a),
           NEW l, NEW b, NEW c, NEW s, Sound(l, b, c, s), GoesOnAt(p, a, l, b, c, s),
           word' = word, Keeps(p, a, l, c, s)
    PROVE  LocalInv' /\ LockChange
<1>1. LocalInv' /\ \A q \in Prc : \A m : q # p => (Holds(q, m)' <=> Holds(q, m))
  BY LocalStep DEF Sound
<1>2. \A m \in Lock : Holds(p, m)' <=> Holds(p, m)
  BY LocalStep, Context DEF Sound, Keeps, Adds, Removes
<1>3. SameLocks
  BY <1>1, <1>2 DEF SameLocks, Taken, Returned, SetWord
<1>4. QED
  BY <1>1, <1>3 DEF LockChange

LEMMA TakingStep ==
    ASSUME LocalInv, NEW p \in Prc, NEW a, Executes(p, a), NEW k \in Lock,
           NEW l, NEW b, NEW c, NEW s, Sound(l, b, c, s), GoesOnAt(p, a, l, b, c, s),
           ~word[k], SetWord(k, TRUE), Adds(p, a, l, c, s, k)
    PROVE  LocalInv' /\ LockChange
<1>1. LocalInv' /\ \A q \in Prc : \A m : q # p => (Holds(q, m)' <=> Holds(q, m))
  BY LocalStep DEF Sound
<1>2. /\ \A m \in Lock : Holds(p, m)' <=> m = k \/ Holds(p, m)
      /\ k \in Spn => \A m \in Spn : ~Holds(p, m)
  BY LocalStep, Context DEF Sound, Keeps, Adds, Removes
<1>3. Taken(p, k)
  BY <1>1, <1>2 DEF SameLocks, Taken, Returned, SetWord
<1>4. QED
  BY <1>1, <1>3 DEF LockChange

LEMMA ReturningStep ==
    ASSUME LocalInv, NEW p \in Prc, NEW a, Executes(p, a), NEW k \in Lock,
           NEW l, NEW b, NEW c, NEW s, Sound(l, b, c, s), GoesOnAt(p, a, l, b, c, s),
           SetWord(k, FALSE), Removes(p, a, l, c, s, k)
    PROVE  LocalInv' /\ LockChange
<1>1. LocalInv' /\ \A q \in Prc : \A m : q # p => (Holds(q, m)' <=> Holds(q, m))
  BY LocalStep DEF Sound
<1>2. /\ \A m \in Lock : Holds(p, m)' <=> m # k /\ Holds(p, m)
      /\ Holds(p, k)
  BY LocalStep, Context DEF Sound, Keeps, Adds, Removes
<1>3. Returned(p, k)
  BY <1>1, <1>2 DEF SameLocks, Taken, Returned, SetWord
<1>4. QED
  BY <1>1, <1>3 DEF LockChange

LEMMA GlockNoSpn == GLOCK \notin Spn /\ NULL \notin Spn /\ EXIT \notin Spn /\ Native \subseteq Spn
  BY LockAssumption

LEMMA EnterStep ==
    ASSUME LocalInv, NEW p \in Prc, NEW a, NEW n \in Spn \cup {NULL}, NEW try \in BOOLEAN,
           Enter(p, a, n, try)
    PROVE  LocalInv' /\ LockChange
<1>1. Executes(p, a) /\ pc[a] = "out" /\ ~cpulock[p]
  BY DEF Enter
<1>2. /\ GoesOnAt(p, a, "acquire", TRUE, [spn |-> n, try |-> try], p_locspn[p])
      /\ word' = word
  BY <1>1, Context DEF Enter, Goto, Proceed, Return, GoesOnAt, Lock
<1>3. Sound("acquire", TRUE, [spn |-> n, try |-> try], p_locspn[p])
  BY <1>1, Context, GlockNoSpn DEF Sound, LocalOk, CallRec, NoCall, Locations
<1>4. Keeps(p, a, "acquire", [spn |-> n, try |-> try], p_locspn[p])
  BY <1>1, Context, GlockNoSpn DEF Keeps, HasLock, LocalOk, Lock, NoCall, Word
<1>5. QED
  BY <1>1, <1>2, <1>3, <1>4, QuietStep

LEMMA TasNativeStep ==
    ASSUME LocalInv, NEW p \in Prc, NEW a, TasTaken(p, a),
           call[a].spn \in Native
    PROVE  LocalInv' /\ LockChange
<1>1. Executes(p, a) /\ pc[a] = "acquire" /\ ~word[Word(a)]
  BY DEF TasTaken, Word
<1>2. /\ GoesOnAt(p, a, "got", TRUE, call[a], p_locspn[p])
      /\ SetWord(call[a].spn, TRUE)
  BY <1>1, Context DEF TasTaken, Word, Goto, Proceed, Return, GoesOnAt, Lock, SetWord
<1>3. Sound("got", TRUE, call[a], p_locspn[p])
  BY <1>1, Context, GlockNoSpn DEF Sound, LocalOk, CallRec, NoCall, Locations
<1>4. Adds(p, a, "got", call[a], p_locspn[p], call[a].spn) /\ call[a].spn \in Lock /\ ~word[call[a].spn]
  BY <1>1, Context, GlockNoSpn DEF Adds, HasLock, LocalOk, Lock, NoCall, Word
<1>5. QED
  BY <1>1, <1>2, <1>3, <1>4, TakingStep

LEMMA TasGlockStep ==
    ASSUME LocalInv, NEW p \in Prc, NEW a, TasTaken(p, a),
           call[a].spn \notin Native
    PROVE  LocalInv' /\ LockChange
<1>1. Executes(p, a) /\ pc[a] = "acquire" /\ ~word[Word(a)]
  BY DEF TasTaken, Word
<1>2. /\ GoesOnAt(p, a, "glocked", TRUE, call[a], p_locspn[p])
      /\ SetWord(GLOCK, TRUE)
  BY <1>1, Context DEF TasTaken, Word, Goto, Proceed, Return, GoesOnAt, Lock, SetWord
<1>3. Sound("glocked", TRUE, call[a], p_locspn[p])
  BY <1>1, Context, GlockNoSpn DEF Sound, LocalOk, CallRec, NoCall, Locations
<1>4. Adds(p, a, "glocked", call[a], p_locspn[p], GLOCK) /\ GLOCK \in Lock /\ ~word[GLOCK]
  BY <1>1, Context, GlockNoSpn DEF Adds, HasLock, LocalOk, Lock, NoCall, Word
<1>5. QED
  BY <1>1, <1>2, <1>3, <1>4, TakingStep

LEMMA TryFailedStep ==
    ASSUME LocalInv, NEW p \in Prc, NEW a, TasFailed(p, a),
           call[a].try /\ call[a].spn \in Native
    PROVE  LocalInv' /\ LockChange
<1>1. Executes(p, a) /\ pc[a] = "acquire"
  BY DEF TasFailed
<1>2. /\ GoesOnAt(p, a, "out", FALSE, NoCall, p_locspn[p])
      /\ word' = word
  BY <1>1, Context DEF TasFailed, Goto, Proceed, Return, GoesOnAt, Lock
<1>3. Sound("out", FALSE, NoCall, p_locspn[p])
  BY <1>1, Context, GlockNoSpn DEF Sound, LocalOk, CallRec, NoCall, Locations
<1>4. Keeps(p, a, "out", NoCall, p_locspn[p])
  BY <1>1, Context, GlockNoSpn DEF Keeps, HasLock, LocalOk, Lock, NoCall, Word
<1>5. QED
  BY <1>1, <1>2, <1>3, <1>4, QuietStep

LEMMA TasWindowStep ==
    ASSUME LocalInv, NEW p \in Prc, NEW a, TasFailed(p, a),
           ~(call[a].try /\ call[a].spn \in Native)
    PROVE  LocalInv' /\ LockChange
<1>1. Executes(p, a) /\ pc[a] = "acquire"
  BY DEF TasFailed
<1>2. /\ GoesOnAt(p, a, "window", FALSE, call[a], p_locspn[p])
      /\ word' = word
  BY <1>1, Context DEF TasFailed, Goto, Proceed, Return, GoesOnAt, Lock
<1>3. Sound("window", FALSE, call[a], p_locspn[p])
  BY <1>1, Context, GlockNoSpn DEF Sound, LocalOk, CallRec, NoCall, Locations
<1>4. Keeps(p, a, "window", call[a], p_locspn[p])
  BY <1>1, Context, GlockNoSpn DEF Keeps, HasLock, LocalOk, Lock, NoCall, Word
<1>5. QED
  BY <1>1, <1>2, <1>3, <1>4, QuietStep

LEMMA WindowEndsStep ==
    ASSUME LocalInv, NEW p \in Prc, NEW a, WindowEnds(p, a)
    PROVE  LocalInv' /\ LockChange
<1>1. Executes(p, a) /\ pc[a] = "window"
  BY DEF WindowEnds
<1>2. /\ GoesOnAt(p, a, "acquire", TRUE, call[a], p_locspn[p])
      /\ word' = word
  BY <1>1, Context DEF WindowEnds, Goto, Proceed, Return, GoesOnAt, Lock
<1>3. Sound("acquire", TRUE, call[a], p_locspn[p])
  BY <1>1, Context, GlockNoSpn DEF Sound, LocalOk, CallRec, NoCall, Locations
<1>4. Keeps(p, a, "acquire", call[a], p_locspn[p])
  BY <1>1, Context, GlockNoSpn DEF Keeps, HasLock, LocalOk, Lock, NoCall, Word
<1>5. QED
  BY <1>1, <1>2, <1>3, <1>4, QuietStep

LEMMA FlagTakenStep ==
    ASSUME LocalInv, NEW p \in Prc, NEW a, FlagTaken(p, a)
    PROVE  LocalInv' /\ LockChange
<1>1. Executes(p, a) /\ pc[a] = "glocked" /\ call[a].spn \in Spn /\ ~word[call[a].spn]
  BY DEF FlagTaken
<1>2. /\ GoesOnAt(p, a, "flagged", TRUE, call[a], p_locspn[p])
      /\ SetWord(call[a].spn, TRUE)
  BY <1>1, Context DEF FlagTaken, Goto, Proceed, Return, GoesOnAt, Lock, SetWord
<1>3. Sound("flagged", TRUE, call[a], p_locspn[p])
  BY <1>1, Context, GlockNoSpn DEF Sound, LocalOk, CallRec, NoCall, Locations
<1>4. Adds(p, a, "flagged", call[a], p_locspn[p], call[a].spn) /\ call[a].spn \in Lock /\ ~word[call[a].spn]
  BY <1>1, Context, GlockNoSpn DEF Adds, HasLock, LocalOk, Lock, NoCall, Word
<1>5. QED
  BY <1>1, <1>2, <1>3, <1>4, TakingStep

LEMMA FlagReleasesStep ==
    ASSUME LocalInv, NEW p \in Prc, NEW a, FlagReleasesGlock(p, a)
    PROVE  LocalInv' /\ LockChange
<1>1. Executes(p, a) /\ pc[a] = "flagged"
  BY DEF FlagReleasesGlock
<1>2. /\ GoesOnAt(p, a, "got", TRUE, call[a], p_locspn[p])
      /\ SetWord(GLOCK, FALSE)
  BY <1>1, Context DEF FlagReleasesGlock, Goto, Proceed, Return, GoesOnAt, Lock, SetWord
<1>3. Sound("got", TRUE, call[a], p_locspn[p])
  BY <1>1, Context, GlockNoSpn DEF Sound, LocalOk, CallRec, NoCall, Locations
<1>4. Removes(p, a, "got", call[a], p_locspn[p], GLOCK) /\ GLOCK \in Lock
  BY <1>1, Context, GlockNoSpn DEF Removes, HasLock, LocalOk, Lock, NoCall, Word
<1>5. QED
  BY <1>1, <1>2, <1>3, <1>4, ReturningStep

LEMMA FlagPolledStep ==
    ASSUME LocalInv, NEW p \in Prc, NEW a, FlagFailed(p, a),
           call[a].try
    PROVE  LocalInv' /\ LockChange
<1>1. Executes(p, a) /\ pc[a] = "glocked" /\ call[a].spn \in Spn
  BY DEF FlagFailed
<1>2. /\ GoesOnAt(p, a, "out", FALSE, NoCall, p_locspn[p])
      /\ SetWord(GLOCK, FALSE)
  BY <1>1, Context DEF FlagFailed, Goto, Proceed, Return, GoesOnAt, Lock, SetWord
<1>3. Sound("out", FALSE, NoCall, p_locspn[p])
  BY <1>1, Context, GlockNoSpn DEF Sound, LocalOk, CallRec, NoCall, Locations
<1>4. Removes(p, a, "out", NoCall, p_locspn[p], GLOCK) /\ GLOCK \in Lock
  BY <1>1, Context, GlockNoSpn DEF Removes, HasLock, LocalOk, Lock, NoCall, Word
<1>5. QED
  BY <1>1, <1>2, <1>3, <1>4, ReturningStep

LEMMA FlagFailedStep ==
    ASSUME LocalInv, NEW p \in Prc, NEW a, FlagFailed(p, a),
           ~call[a].try
    PROVE  LocalInv' /\ LockChange
<1>1. Executes(p, a) /\ pc[a] = "glocked" /\ call[a].spn \in Spn
  BY DEF FlagFailed
<1>2. /\ GoesOnAt(p, a, "poll", FALSE, call[a], p_locspn[p])
      /\ SetWord(GLOCK, FALSE)
  BY <1>1, Context DEF FlagFailed, Goto, Proceed, Return, GoesOnAt, Lock, SetWord
<1>3. Sound("poll", FALSE, call[a], p_locspn[p])
  BY <1>1, Context, GlockNoSpn DEF Sound, LocalOk, CallRec, NoCall, Locations
<1>4. Removes(p, a, "poll", call[a], p_locspn[p], GLOCK) /\ GLOCK \in Lock
  BY <1>1, Context, GlockNoSpn DEF Removes, HasLock, LocalOk, Lock, NoCall, Word
<1>5. QED
  BY <1>1, <1>2, <1>3, <1>4, ReturningStep

LEMMA PollEndsStep ==
    ASSUME LocalInv, NEW p \in Prc, NEW a, PollEnds(p, a)
    PROVE  LocalInv' /\ LockChange
<1>1. Executes(p, a) /\ pc[a] = "poll"
  BY DEF PollEnds
<1>2. /\ GoesOnAt(p, a, "acquire", TRUE, call[a], p_locspn[p])
      /\ word' = word
  BY <1>1, Context DEF PollEnds, Goto, Proceed, Return, GoesOnAt, Lock
<1>3. Sound("acquire", TRUE, call[a], p_locspn[p])
  BY <1>1, Context, GlockNoSpn DEF Sound, LocalOk, CallRec, NoCall, Locations
<1>4. Keeps(p, a, "acquire", call[a], p_locspn[p])
  BY <1>1, Context, GlockNoSpn DEF Keeps, HasLock, LocalOk, Lock, NoCall, Word
<1>5. QED
  BY <1>1, <1>2, <1>3, <1>4, QuietStep

LEMMA SetLocspnStep ==
    ASSUME LocalInv, NEW p \in Prc, NEW a, SetLocspn(p, a)
    PROVE  LocalInv' /\ LockChange
<1>1. Executes(p, a) /\ pc[a] = "got"
  BY DEF SetLocspn
<1>2. /\ GoesOnAt(p, a, "out", TRUE, NoCall, call[a].spn)
      /\ word' = word
  BY <1>1, Context DEF SetLocspn, Goto, Proceed, Return, GoesOnAt, Lock
<1>3. Sound("out", TRUE, NoCall, call[a].spn)
  BY <1>1, Context, GlockNoSpn DEF Sound, LocalOk, CallRec, NoCall, Locations
<1>4. Keeps(p, a, "out", NoCall, call[a].spn)
  BY <1>1, Context, GlockNoSpn DEF Keeps, HasLock, LocalOk, Lock, NoCall, Word
<1>5. QED
  BY <1>1, <1>2, <1>3, <1>4, QuietStep

LEMMA UnlSpnStep ==
    ASSUME LocalInv, NEW p \in Prc, NEW a, unl_spn(p, a)
    PROVE  LocalInv' /\ LockChange
<1>1. Executes(p, a) /\ pc[a] = "out" /\ p_locspn[p] # NULL
  BY DEF unl_spn
<1>2. /\ GoesOnAt(p, a, "unlock", cpulock[p], [spn |-> p_locspn[p], try |-> FALSE], NULL)
      /\ word' = word
  BY <1>1, Context DEF unl_spn, Goto, Proceed, Return, GoesOnAt, Lock
<1>3. Sound("unlock", cpulock[p], [spn |-> p_locspn[p], try |-> FALSE], NULL)
  BY <1>1, Context, GlockNoSpn DEF Sound, LocalOk, CallRec, NoCall, Locations
<1>4. Keeps(p, a, "unlock", [spn |-> p_locspn[p], try |-> FALSE], NULL)
  BY <1>1, Context, GlockNoSpn DEF Keeps, HasLock, LocalOk, Lock, NoCall, Word
<1>5. QED
  BY <1>1, <1>2, <1>3, <1>4, QuietStep

LEMMA ReturnSpnStep ==
    ASSUME LocalInv, NEW p \in Prc, NEW a, ReturnSpn(p, a)
    PROVE  LocalInv' /\ LockChange
<1>1. Executes(p, a) /\ pc[a] = "unlock"
  BY DEF ReturnSpn
<1>2. /\ GoesOnAt(p, a, "out", FALSE, NoCall, p_locspn[p])
      /\ SetWord(call[a].spn, FALSE)
  BY <1>1, Context DEF ReturnSpn, Goto, Proceed, Return, GoesOnAt, Lock, SetWord
<1>3. Sound("out", FALSE, NoCall, p_locspn[p])
  BY <1>1, Context, GlockNoSpn DEF Sound, LocalOk, CallRec, NoCall, Locations
<1>4. Removes(p, a, "out", NoCall, p_locspn[p], call[a].spn) /\ call[a].spn \in Lock
  BY <1>1, Context, GlockNoSpn DEF Removes, HasLock, LocalOk, Lock, NoCall, Word
<1>5. QED
  BY <1>1, <1>2, <1>3, <1>4, ReturningStep

LEMMA LocCpuStep ==
    ASSUME LocalInv, NEW p \in Prc, NEW a, loc_cpu(p, a)
    PROVE  LocalInv' /\ LockChange
<1>1. Executes(p, a) /\ pc[a] = "out" /\ ~cpulock[p]
  BY DEF loc_cpu
<1>2. /\ GoesOnAt(p, a, "out", TRUE, NoCall, p_locspn[p])
      /\ word' = word
  BY <1>1, Context DEF loc_cpu, Goto, Proceed, Return, GoesOnAt, Lock
<1>3. Sound("out", TRUE, NoCall, p_locspn[p])
  BY <1>1, Context, GlockNoSpn DEF Sound, LocalOk, CallRec, NoCall, Locations
<1>4. Keeps(p, a, "out", NoCall, p_locspn[p])
  BY <1>1, Context, GlockNoSpn DEF Keeps, HasLock, LocalOk, Lock, NoCall, Word
<1>5. QED
  BY <1>1, <1>2, <1>3, <1>4, QuietStep

LEMMA UnlCpuStep ==
    ASSUME LocalInv, NEW p \in Prc, NEW a, unl_cpu(p, a)
    PROVE  LocalInv' /\ LockChange
<1>1. Executes(p, a) /\ pc[a] = "out" /\ p_locspn[p] = NULL
  BY DEF unl_cpu
<1>2. /\ GoesOnAt(p, a, "out", FALSE, NoCall, p_locspn[p])
      /\ word' = word
  BY <1>1, Context DEF unl_cpu, Goto, Proceed, Return, GoesOnAt, Lock
<1>3. Sound("out", FALSE, NoCall, p_locspn[p])
  BY <1>1, Context, GlockNoSpn DEF Sound, LocalOk, CallRec, NoCall, Locations
<1>4. Keeps(p, a, "out", NoCall, p_locspn[p])
  BY <1>1, Context, GlockNoSpn DEF Keeps, HasLock, LocalOk, Lock, NoCall, Word
<1>5. QED
  BY <1>1, <1>2, <1>3, <1>4, QuietStep

LEMMA EndServiceCallStep ==
    ASSUME LocalInv, NEW p \in Prc, NEW a, EndServiceCall(p, a)
    PROVE  LocalInv' /\ LockChange
<1>1. Executes(p, a) /\ pc[a] = "glocked" /\ call[a].spn = NULL
  BY DEF EndServiceCall
<1>2. /\ GoesOnAt(p, a, "out", FALSE, NoCall, p_locspn[p])
      /\ SetWord(GLOCK, FALSE)
  BY <1>1, Context DEF EndServiceCall, Goto, Proceed, Return, GoesOnAt, Lock, SetWord
<1>3. Sound("out", FALSE, NoCall, p_locspn[p])
  BY <1>1, Context, GlockNoSpn DEF Sound, LocalOk, CallRec, NoCall, Locations
<1>4. Removes(p, a, "out", NoCall, p_locspn[p], GLOCK) /\ GLOCK \in Lock
  BY <1>1, Context, GlockNoSpn DEF Removes, HasLock, LocalOk, Lock, NoCall, Word
<1>5. QED
  BY <1>1, <1>2, <1>3, <1>4, ReturningStep

LEMMA ExtTskStep ==
    ASSUME LocalInv, NEW p \in Prc, NEW a, ext_tsk(p, a), p_locspn[p] = NULL
    PROVE  LocalInv' /\ LockChange
<1>1. Executes(p, a) /\ pc[a] = "out"
  BY DEF ext_tsk, ForceUnlockSpin, Executes, Last
<1>2. /\ GoesOnAt(p, a, "acquire", TRUE, [spn |-> EXIT, try |-> FALSE], NULL)
      /\ word' = word
  BY <1>1, Context DEF ext_tsk, ForceUnlockSpin, Executes, Last, Goto, Proceed, Return, GoesOnAt, Lock
<1>3. Sound("acquire", TRUE, [spn |-> EXIT, try |-> FALSE], NULL)
  BY <1>1, Context, GlockNoSpn DEF Sound, LocalOk, CallRec, NoCall, Locations
<1>4. Keeps(p, a, "acquire", [spn |-> EXIT, try |-> FALSE], NULL)
  BY <1>1, Context, GlockNoSpn DEF Keeps, HasLock, LocalOk, Lock, NoCall, Word
<1>5. QED
  BY <1>1, <1>2, <1>3, <1>4, QuietStep

LEMMA ExtTskUnlocksStep ==
    ASSUME LocalInv, NEW p \in Prc, NEW a, ext_tsk(p, a), p_locspn[p] # NULL
    PROVE  LocalInv' /\ LockChange
<1>1. Executes(p, a) /\ pc[a] = "out"
  BY DEF ext_tsk, ForceUnlockSpin, Executes, Last
<1>2. /\ GoesOnAt(p, a, "acquire", TRUE, [spn |-> EXIT, try |-> FALSE], NULL)
      /\ SetWord(p_locspn[p], FALSE)
  BY <1>1, Context DEF ext_tsk, ForceUnlockSpin, Executes, Last, Goto, Proceed, Return, GoesOnAt, Lock, SetWord
<1>3. Sound("acquire", TRUE, [spn |-> EXIT, try |-> FALSE], NULL)
  BY <1>1, Context, GlockNoSpn DEF Sound, LocalOk, CallRec, NoCall, Locations
<1>4. Removes(p, a, "acquire", [spn |-> EXIT, try |-> FALSE], NULL, p_locspn[p]) /\ p_locspn[p] \in Lock
  BY <1>1, Context, GlockNoSpn DEF Removes, HasLock, LocalOk, Lock, NoCall, Word
<1>5. QED
  BY <1>1, <1>2, <1>3, <1>4, ReturningStep

----------------------------------------------------------------------------
\* Steps that change the stack of p, with the CPU lock off afterwards.

LEMMA StackStep ==
    ASSUME LocalInv, NEW p \in Prc, NEW st \in Seq(Agent),
           stack' = [stack EXCEPT ![p] = st], StackInv',
           cpulock' = [cpulock EXCEPT ![p] = FALSE],
           p_locspn' = [p_locspn EXCEPT ![p] = NULL],
           pc' = pc, call' = call, word' \in [Lock -> BOOLEAN],
           stack[p] # << >> => pc[Top(p)] \in {"out", "window", "poll"},
           st # << >> => \A q \in Prc : ~Executes(q, Last(st))
    PROVE  /\ LocalInv'
           /\ \A m \in Lock : ~Holds(p, m)'
           /\ \A q \in Prc : \A m : q # p => (Holds(q, m)' <=> Holds(q, m))
<1>1. /\ stack'[p] = st /\ cpulock'[p] = FALSE /\ p_locspn'[p] = NULL
      /\ \A q \in Prc : q # p => /\ stack'[q] = stack[q] /\ cpulock'[q] = cpulock[q]
                                 /\ p_locspn'[q] = p_locspn[q]
  BY DEF LocalInv, TypeOK
<1>2. TypeOK'
  BY DEF LocalInv, TypeOK, Lock
<1>3. st # << >> => Last(st) \in Agent /\ pc[Last(st)] \in {"out", "window", "poll"}
  <2>1. st # << >> => Last(st) \in Agent
    BY DEF Last
  <2>2. QED
    BY <2>1 DEF LocalInv, InterruptedHoldsNothing
<1>4. ProcessorInv'
  <2>. SUFFICES ASSUME NEW q \in Prc
                PROVE  (IF stack[q] = << >> THEN ~cpulock[q] /\ p_locspn[q] = NULL
                        ELSE LocalOk(pc[Top(q)], cpulock[q], call[Top(q)], p_locspn[q]))'
    BY DEF ProcessorInv
  <2>1. CASE q = p
    BY <2>1, <1>1, <1>3 DEF Top, LocalOk
  <2>2. CASE q # p
    BY <2>2, <1>1 DEF LocalInv, ProcessorInv, Top
  <2>3. QED
    BY <2>1, <2>2
<1>5. InterruptedHoldsNothing'
  <2>. SUFFICES ASSUME NEW x \in Agent, \A q \in Prc : ~Executes(q, x)'
                PROVE  pc[x] \in {"out", "window", "poll"}
    BY DEF InterruptedHoldsNothing
  <2>1. \A q \in Prc : q # p => ~Executes(q, x)
    BY <1>1 DEF Executes
  <2>2. CASE Executes(p, x)
    BY <2>2 DEF Executes, Top
  <2>3. CASE ~Executes(p, x)
    BY <2>1, <2>3 DEF LocalInv, InterruptedHoldsNothing
  <2>4. QED
    BY <2>2, <2>3
<1>6. ASSUME NEW m \in Lock
      PROVE  ~Holds(p, m)'
  BY <1>1, <1>3, <1>6, GlockNoSpn DEF Holds, Lock
<1>7. ASSUME NEW q \in Prc, NEW m, q # p
      PROVE  Holds(q, m)' <=> Holds(q, m)
  BY <1>1, <1>7 DEF Holds
<1>8. QED
  BY <1>2, <1>4, <1>5, <1>6, <1>7 DEF LocalInv

\* With interrupts accepted a processor has no lock.
LEMMA OpenFacts ==
    ASSUME LocalInv, NEW p \in Prc, ~cpulock[p]
    PROVE  /\ p_locspn[p] = NULL
           /\ stack[p] # << >> => pc[Top(p)] \in {"out", "window", "poll"}
           /\ \A m \in Lock : ~Holds(p, m)
           /\ cpulock = [cpulock EXCEPT ![p] = FALSE]
           /\ p_locspn = [p_locspn EXCEPT ![p] = NULL]
<1>1. p_locspn[p] = NULL
  BY DEF LocalInv, ProcessorInv, LocalOk
<1>2. stack[p] # << >> => pc[Top(p)] \in {"out", "window", "poll"}
  BY TopFacts DEF LocalInv, ProcessorInv, LocalOk, TypeOK, Locations
<1>3. \A m \in Lock : ~Holds(p, m)
  BY <1>1, <1>2, GlockNoSpn DEF Holds, Lock, Top
<1>4. cpulock = [cpulock EXCEPT ![p] = FALSE] /\ p_locspn = [p_locspn EXCEPT ![p] = NULL]
  BY <1>1 DEF LocalInv, TypeOK
<1>5. QED
  BY <1>1, <1>2, <1>3, <1>4

LEMMA OpenStep ==
    ASSUME LocalInv, NEW p \in Prc, ~cpulock[p], NEW st \in Seq(Agent),
           stack' = [stack EXCEPT ![p] = st], StackInv',
           UNCHANGED <<word, p_locspn, cpulock, pc, call>>,
           st # << >> => \A q \in Prc : ~Executes(q, Last(st))
    PROVE  LocalInv' /\ LockChange
<1>1. word' \in [Lock -> BOOLEAN]
  BY DEF LocalInv, TypeOK, Lock
<1>2. /\ LocalInv'
      /\ \A m \in Lock : ~Holds(p, m)'
      /\ \A q \in Prc : \A m : q # p => (Holds(q, m)' <=> Holds(q, m))
  BY <1>1, OpenFacts, StackStep
<1>3. SameLocks
  BY <1>2, OpenFacts DEF SameLocks
<1>4. QED
  BY <1>2, <1>3 DEF LockChange

LEMMA DispatchStep ==
    ASSUME LocalInv, NEW p \in Prc, NEW t \in Tsk, Dispatch(p, t)
    PROVE  LocalInv' /\ LockChange
<1>. DEFINE st == <<t>>
<1>1. st \in Seq(Agent) /\ Len(st) = 1 /\ st[1] = t /\ Last(st) = t /\ st # << >>
  BY DEF Agent, Last
<1>2. \A q \in Prc : \A i \in 1 .. Len(stack[q]) : stack[q][i] # t
  BY DEF Dispatch, Range, LocalInv, TypeOK
<1>3. /\ stack'[p] = st
      /\ \A q \in Prc : q # p => stack'[q] = stack[q]
  BY DEF Dispatch, LocalInv, TypeOK
<1>4. StackForm'
  <2>1. Form(p, st)
    BY <1>1, LockAssumption DEF Form, Depth, HasTask
  <2>2. QED
    BY <1>3, <2>1 DEF StackForm, LocalInv, StackInv
<1>5. TaskOnce'
  <2>1. \A q \in Prc : HasTask(stack[q]) => stack[q][1] # t
    BY <1>2 DEF HasTask, LocalInv, TypeOK
  <2>2. QED
    BY <1>1, <1>3, <2>1 DEF TaskOnce, HasTask, LocalInv, StackInv
<1>6. \A q \in Prc : ~Executes(q, t)
  BY <1>2, TopFacts DEF Executes, LocalInv, Top
<1>7. QED
  BY <1>1, <1>4, <1>5, <1>6, OpenStep DEF Dispatch, StackInv

LEMMA PreemptStep ==
    ASSUME LocalInv, NEW p \in Prc, Preempt(p)
    PROVE  LocalInv' /\ LockChange
<1>. DEFINE st == << >>
<1>1. st \in Seq(Agent) /\ Len(st) = 0
  OBVIOUS
<1>2. /\ stack'[p] = st
      /\ \A q \in Prc : q # p => stack'[q] = stack[q]
  BY DEF Preempt, LocalInv, TypeOK
<1>3. StackInv'
  <2>1. Form(p, st)
    BY <1>1, LockAssumption DEF Form, Depth, HasTask
  <2>2. StackForm'
    BY <1>2, <2>1 DEF StackForm, LocalInv, StackInv
  <2>3. TaskOnce'
    BY <1>2 DEF TaskOnce, HasTask, LocalInv, StackInv
  <2>4. QED
    BY <2>2, <2>3 DEF StackInv
<1>4. QED
  BY <1>1, <1>3, OpenStep DEF Preempt

LEMMA InterruptStep ==
    ASSUME LocalInv, NEW p \in Prc, Interrupt(p)
    PROVE  LocalInv' /\ LockChange
<1>. DEFINE n == Nest(p) + 1
            st == Append(stack[p], <<p, n>>)
<1>1. stack[p] \in Seq(Agent) /\ MaxNest \in Nat
  BY LockAssumption DEF LocalInv, TypeOK
<1>2. Nest(p) = Depth(stack[p], Len(stack[p])) /\ Nest(p) \in Nat
  BY <1>1 DEF Nest, Depth, HasTask
<1>3. n \in 1 .. MaxNest
  BY <1>1, <1>2 DEF Interrupt
<1>4. <<p, n>> \in Handler /\ <<p, n>> \notin Tsk
  BY <1>3, HandlerNoTask DEF Handler
<1>5. /\ st \in Seq(Agent) /\ Len(st) = Len(stack[p]) + 1 /\ st # << >>
      /\ st[Len(st)] = <<p, n>> /\ Last(st) = <<p, n>>
      /\ \A i \in 1 .. Len(stack[p]) : st[i] = stack[p][i]
  BY <1>1, <1>4 DEF Agent, Last
<1>6. /\ stack'[p] = st
      /\ \A q \in Prc : q # p => stack'[q] = stack[q]
  BY DEF Interrupt, LocalInv, TypeOK
<1>7. HasTask(st) <=> HasTask(stack[p])
  BY <1>1, <1>4, <1>5 DEF HasTask
<1>8. HasTask(stack[p]) => st[1] = stack[p][1]
  BY <1>1, <1>5 DEF HasTask
<1>. HIDE DEF st
<1>9. StackForm'
  <2>1. \A i \in 1 .. Len(st) : Depth(st, i) = Depth(stack[p], i)
    BY <1>7 DEF Depth
  <2>2. Depth(st, Len(st)) = n
    BY <1>1, <1>2, <1>5, <1>7 DEF Depth
  <2>3. ASSUME NEW i \in 1 .. Len(stack[p])
        PROVE  (i = 1 /\ st[1] \in Tsk) \/ st[i] = <<p, Depth(st, i)>>
    <3>1. i \in 1 .. Len(st) /\ st[i] = stack[p][i] /\ 1 \in 1 .. Len(stack[p])
      BY <1>1, <1>5
    <3>2. (i = 1 /\ stack[p][1] \in Tsk) \/ stack[p][i] = <<p, Depth(stack[p], i)>>
      BY DEF LocalInv, StackInv, StackForm, Form
    <3>3. QED
      BY <3>1, <3>2, <2>1, <1>5
  <2>4. \A i \in 1 .. Len(st) : i \in 1 .. Len(stack[p]) \/ i = Len(st)
    BY <1>1, <1>5
  <2>5. Form(p, st)
    BY <2>2, <2>3, <2>4, <1>3, <1>5 DEF Form
  <2>6. QED
    BY <2>5, <1>6 DEF StackForm, LocalInv, StackInv
<1>10. TaskOnce'
  BY <1>6, <1>7, <1>8 DEF TaskOnce, LocalInv, StackInv, HasTask
<1>11. \A q \in Prc : ~Executes(q, <<p, n>>)
  <2>. SUFFICES ASSUME NEW q \in Prc, stack[q] # << >>, Top(q) = <<p, n>>
                PROVE  FALSE
    BY DEF Executes, Top
  <2>1. Len(stack[q]) \in 1 .. Len(stack[q]) /\ Top(q) = stack[q][Len(stack[q])]
    BY TopFacts DEF LocalInv
  <2>2. \/ Len(stack[q]) = 1 /\ stack[q][1] \in Tsk
        \/ stack[q][Len(stack[q])] = <<q, Depth(stack[q], Len(stack[q]))>>
    BY <2>1 DEF LocalInv, StackInv, StackForm, Form
  <2>3. <<p, n>> = <<q, Depth(stack[q], Len(stack[q]))>>
    BY <2>1, <2>2, <1>4
  <2>4. q = p /\ n = Depth(stack[q], Len(stack[q]))
    BY <2>3, SamePair, Zenon
  <2>5. QED
    BY <2>4, <1>2
<1>12. QED
  BY <1>5, <1>9, <1>10, <1>11, OpenStep DEF Interrupt, StackInv, st

LEMMA InterruptReturnStep ==
    ASSUME LocalInv, NEW p \in Prc, NEW a, InterruptReturn(p, a)
    PROVE  LocalInv' /\ LockChange
<1>. DEFINE st == Front(stack[p])
            n == Len(stack[p])
<1>1. Executes(p, a) /\ pc[a] = "out" /\ pc' = pc /\ call' = call
  BY DEF InterruptReturn
<1>2. /\ stack[p] \in Seq(Agent) /\ n \in Nat \ {0} /\ MaxNest \in Nat
      /\ stack[p] # << >> /\ a = Top(p)
  BY <1>1, TopFacts, LockAssumption DEF LocalInv, TypeOK, Executes
<1>3. /\ st \in Seq(Agent) /\ Len(st) = n - 1
      /\ \A i \in 1 .. Len(st) : st[i] = stack[p][i]
  BY <1>2 DEF Front
<1>4. /\ stack'[p] = st
      /\ \A q \in Prc : q # p => stack'[q] = stack[q]
  BY DEF InterruptReturn, LocalInv, TypeOK
<1>. HIDE DEF st
<1>5. st # << >> => n > 1 /\ st[1] = stack[p][1] /\ (HasTask(st) <=> HasTask(stack[p]))
  BY <1>2, <1>3 DEF HasTask
<1>6. HasTask(st) => HasTask(stack[p]) /\ st[1] = stack[p][1]
  BY <1>5 DEF HasTask
<1>7. StackForm'
  <2>1. CASE st = << >>
    <3>1. Form(p, st)
      BY <2>1, LockAssumption DEF Form, Depth, HasTask
    <3>2. QED
      BY <3>1, <1>4 DEF StackForm, LocalInv, StackInv
  <2>2. CASE st # << >>
    <3>1. \A i : Depth(st, i) = Depth(stack[p], i)
      BY <2>2, <1>5 DEF Depth
    <3>2. /\ Depth(stack[p], n) <= MaxNest
          /\ \A i \in 1 .. n :
                (i = 1 /\ stack[p][1] \in Tsk) \/ stack[p][i] = <<p, Depth(stack[p], i)>>
      BY DEF LocalInv, StackInv, StackForm, Form
    <3>3. Depth(st, Len(st)) <= MaxNest
      BY <3>1, <3>2, <1>2, <1>3 DEF Depth
    <3>4. \A i \in 1 .. Len(st) : (i = 1 /\ st[1] \in Tsk) \/ st[i] = <<p, Depth(st, i)>>
      BY <3>1, <3>2, <2>2, <1>2, <1>3, <1>5, SMTT(30)
    <3>5. Form(p, st)
      BY <3>3, <3>4 DEF Form
    <3>6. QED
      BY <3>5, <1>4 DEF StackForm, LocalInv, StackInv
  <2>3. QED
    BY <2>1, <2>2
<1>8. TaskOnce'
  BY <1>4, <1>6 DEF TaskOnce, LocalInv, StackInv
<1>9. ASSUME st # << >>, NEW q \in Prc
      PROVE  ~Executes(q, Last(st))
  <2>1. Last(st) = stack[p][n - 1] /\ n - 1 \in 1 .. n
    BY <1>2, <1>3, <1>5, <1>9 DEF Last
  <2>2. SUFFICES ASSUME stack[q] # << >>, Top(q) = stack[p][n - 1]
                 PROVE  FALSE
    BY <2>1 DEF Executes, Top
  <2>3. Len(stack[q]) \in 1 .. Len(stack[q]) /\ Top(q) = stack[q][Len(stack[q])]
    BY <2>2, TopFacts DEF LocalInv
  <2>4. \A i \in 1 .. n, j \in 1 .. Len(stack[q]) :
           stack[p][i] = stack[q][j] => p = q /\ i = j
    BY StackDistinct DEF LocalInv
  <2>5. q = p /\ Len(stack[q]) = n - 1
    BY <2>1, <2>2, <2>3, <2>4, Zenon
  <2>6. QED
    BY <2>5, <1>2
<1>10. word' \in [Lock -> BOOLEAN]
  BY DEF InterruptReturn, ForceUnlockSpin, LocalInv, TypeOK, Lock
<1>11. /\ LocalInv'
       /\ \A m \in Lock : ~Holds(p, m)'
       /\ \A q \in Prc : \A m : q # p => (Holds(q, m)' <=> Holds(q, m))
  <2>1. /\ stack' = [stack EXCEPT ![p] = st] /\ cpulock' = [cpulock EXCEPT ![p] = FALSE]
        /\ p_locspn' = [p_locspn EXCEPT ![p] = NULL]
    BY DEF InterruptReturn, st
  <2>2. StackInv'
    BY <1>7, <1>8 DEF StackInv
  <2>3. QED
    BY <2>1, <2>2, <1>1, <1>2, <1>3, <1>9, <1>10, StackStep
<1>12. /\ \A m \in Lock : Holds(p, m) <=> m # GLOCK /\ p_locspn[p] = m
       /\ p_locspn[p] \in Spn \cup {NULL}
  BY <1>1, Context DEF HasLock
<1>13. CASE p_locspn[p] = NULL
  <2>1. word' = word
    BY <1>13 DEF InterruptReturn, ForceUnlockSpin
  <2>2. \A m \in Lock : ~Holds(p, m)
    BY <1>12, <1>13, GlockNoSpn DEF Lock
  <2>3. SameLocks
    BY <2>1, <2>2, <1>11 DEF SameLocks
  <2>4. QED
    BY <2>3, <1>11 DEF LockChange
<1>14. CASE p_locspn[p] # NULL
  <2>. DEFINE k == p_locspn[p]
  <2>1. k \in Lock /\ k # GLOCK /\ Holds(p, k)
    BY <1>12, <1>14, GlockNoSpn DEF Lock
  <2>2. word' = [word EXCEPT ![k] = FALSE]
    BY <1>14 DEF InterruptReturn, ForceUnlockSpin
  <2>3. \A m \in Lock : Holds(p, m) => m = k
    BY <1>12
  <2>4. Returned(p, k)
    BY <2>1, <2>2, <2>3, <1>11 DEF Returned
  <2>5. QED
    BY <2>1, <2>4, <1>11 DEF LockChange
<1>15. QED
  BY <1>13, <1>14

LEMMA EndExtTskStep ==
    ASSUME LocalInv, NEW p \in Prc, NEW a, EndExtTsk(p, a)
    PROVE  LocalInv' /\ LockChange
<1>1. Executes(p, a) /\ pc[a] = "glocked" /\ call[a].spn = EXIT
  BY DEF EndExtTsk
<1>2. /\ a \in Agent /\ a = Top(p) /\ stack[p] # << >> /\ p_locspn[p] = NULL
      /\ \A m \in Lock : Holds(p, m) <=> m = GLOCK
      /\ word \in [Lock -> BOOLEAN] /\ GLOCK \in Lock
  <2>1. a = Top(p)
    BY <1>1, Context, TopFacts DEF LocalInv
  <2>2. \A m \in Lock : Holds(p, m) <=> m = GLOCK
    BY <1>1, Context, GlockNoSpn DEF HasLock, LocalOk, Lock
  <2>3. QED
    BY <1>1, <2>1, <2>2, Context DEF LocalOk, Lock
<1>3. /\ stack'[p] = << >> /\ cpulock'[p] = FALSE /\ p_locspn' = p_locspn
      /\ \A q \in Prc : q # p => stack'[q] = stack[q] /\ cpulock'[q] = cpulock[q]
      /\ pc'[a] = "out"
      /\ \A x \in Agent : x # a => pc'[x] = pc[x] /\ call'[x] = call[x]
      /\ word' = [word EXCEPT ![GLOCK] = FALSE]
  BY <1>2 DEF EndExtTsk, Return, Goto, LocalInv, TypeOK
<1>4. TypeOK'
  <2>1. NoCall \in CallRec /\ "out" \in Locations /\ << >> \in Seq(Agent)
    BY DEF NoCall, CallRec, Locations
  <2>2. /\ pc' \in [Agent -> Locations] /\ call' \in [Agent -> CallRec]
        /\ cpulock' \in [Prc -> BOOLEAN] /\ stack' \in [Prc -> Seq(Agent)]
        /\ word' \in [Spn \cup {GLOCK} -> BOOLEAN] /\ p_locspn' \in [Prc -> Spn \cup {NULL}]
    BY <2>1 DEF EndExtTsk, Return, Goto, LocalInv, TypeOK, CallRec
  <2>3. \A x \in Agent : pc'[x] \in {"flagged", "poll", "got", "unlock"} => call'[x].spn \in Spn
    BY <1>3 DEF LocalInv, TypeOK
  <2>4. QED
    BY <2>2, <2>3 DEF TypeOK, CallRec
<1>5. StackInv'
  <2>1. Form(p, << >>)
    BY LockAssumption DEF Form, Depth, HasTask
  <2>2. StackForm'
    BY <1>3, <2>1 DEF StackForm, LocalInv, StackInv
  <2>3. TaskOnce'
    BY <1>3 DEF TaskOnce, HasTask, LocalInv, StackInv
  <2>4. QED
    BY <2>2, <2>3 DEF StackInv
<1>6. ASSUME NEW q \in Prc, q # p, stack[q] # << >>
      PROVE  /\ Top(q) \in Agent /\ Top(q)' = Top(q) /\ stack'[q] # << >>
             /\ pc'[Top(q)] = pc[Top(q)] /\ call'[Top(q)] = call[Top(q)]
  <2>1. Top(q) \in Agent /\ Top(q) # a
    BY <1>2, <1>6, TopFacts, OtherTop DEF LocalInv
  <2>2. Top(q)' = Top(q)
    BY <1>3, <1>6 DEF Top
  <2>3. QED
    BY <2>1, <2>2, <1>3, <1>6
<1>7. ProcessorInv'
  <2>. SUFFICES ASSUME NEW q \in Prc
                PROVE  (IF stack[q] = << >> THEN ~cpulock[q] /\ p_locspn[q] = NULL
                        ELSE LocalOk(pc[Top(q)], cpulock[q], call[Top(q)], p_locspn[q]))'
    BY DEF ProcessorInv
  <2>1. CASE q = p
    BY <2>1, <1>2, <1>3
  <2>2. CASE q # p /\ stack[q] = << >>
    BY <2>2, <1>3 DEF LocalInv, ProcessorInv
  <2>3. CASE q # p /\ stack[q] # << >>
    <3>1. LocalOk(pc[Top(q)], cpulock[q], call[Top(q)], p_locspn[q])
      BY <2>3 DEF LocalInv, ProcessorInv
    <3>2. cpulock'[q] = cpulock[q] /\ p_locspn'[q] = p_locspn[q]
      BY <2>3, <1>3
    <3>3. QED
      BY <3>1, <3>2, <2>3, <1>6, Zenon
  <2>4. QED
    BY <2>1, <2>2, <2>3
<1>8. InterruptedHoldsNothing'
  <2>. SUFFICES ASSUME NEW x \in Agent, \A q \in Prc : ~Executes(q, x)'
                PROVE  pc'[x] \in {"out", "window", "poll"}
    BY DEF InterruptedHoldsNothing
  <2>1. CASE x = a
    BY <2>1, <1>3
  <2>2. CASE x # a
    <3>1. \A q \in Prc : ~Executes(q, x)
      BY <2>2, <1>2, <1>3 DEF Executes, Top
    <3>2. QED
      BY <3>1, <2>2, <1>3 DEF LocalInv, InterruptedHoldsNothing
  <2>3. QED
    BY <2>1, <2>2
<1>9. \A m : ~Holds(p, m)'
  BY <1>3 DEF Holds
<1>10. ASSUME NEW q \in Prc, NEW m, q # p
       PROVE  Holds(q, m)' <=> Holds(q, m)
  <2>1. CASE stack[q] = << >>
    BY <2>1, <1>3, <1>10 DEF Holds
  <2>2. CASE stack[q] # << >>
    BY <2>2, <1>3, <1>6, <1>10 DEF Holds, Top
  <2>3. QED
    BY <2>1, <2>2
<1>11. Returned(p, GLOCK)
  BY <1>2, <1>3, <1>9, <1>10 DEF Returned
<1>12. QED
  BY <1>2, <1>4, <1>5, <1>7, <1>8, <1>11 DEF LocalInv, LockChange

----------------------------------------------------------------------------
\* The invariant

LEMMA Initially == Init => LockInv
<1> SUFFICES ASSUME Init
             PROVE  LockInv
  OBVIOUS
<1>1. TypeOK
  BY DEF Init, TypeOK, NoCall, Locations
<1>2. \A p \in Prc : stack[p] = << >>
  BY DEF Init
<1>3. StackInv
  <2>1. \A p \in Prc : Form(p, << >>)
    BY LockAssumption DEF Form, Depth, HasTask
  <2>2. QED
    BY <2>1, <1>2 DEF StackInv, StackForm, TaskOnce, HasTask
<1>4. ProcessorInv
  BY <1>2 DEF Init, ProcessorInv
<1>5. InterruptedHoldsNothing
  BY DEF Init, InterruptedHoldsNothing
<1>6. \A p \in Prc : \A m : ~Holds(p, m)
  BY <1>2 DEF Holds
<1>7. LockExclusive
  BY <1>6 DEF LockExclusive, Init
<1>8. QED
  BY <1>1, <1>3, <1>4, <1>5, <1>7 DEF LockInv

LEMMA EachStep ==
    ASSUME LocalInv, [Next]_vars
    PROVE  LocalInv' /\ LockChange
<1>1. ASSUME NEW p \in Prc, NEW a \in Agent, Continue(p, a)
      PROVE  LocalInv' /\ LockChange
  <2>1. CASE TasTaken(p, a)
    BY <2>1, TasNativeStep, TasGlockStep
  <2>2. CASE TasFailed(p, a)
    BY <2>2, TryFailedStep, TasWindowStep
  <2>3. CASE WindowEnds(p, a)
    BY <2>3, WindowEndsStep
  <2>4. CASE FlagTaken(p, a) \/ FlagReleasesGlock(p, a)
    BY <2>4, FlagTakenStep, FlagReleasesStep
  <2>5. CASE FlagFailed(p, a)
    BY <2>5, FlagPolledStep, FlagFailedStep
  <2>6. CASE PollEnds(p, a)
    BY <2>6, PollEndsStep
  <2>7. CASE SetLocspn(p, a) \/ ReturnSpn(p, a)
    BY <2>7, SetLocspnStep, ReturnSpnStep
  <2>8. CASE EndServiceCall(p, a) \/ EndExtTsk(p, a)
    BY <2>8, EndServiceCallStep, EndExtTskStep
  <2>9. QED
    BY <1>1, <2>1, <2>2, <2>3, <2>4, <2>5, <2>6, <2>7, <2>8 DEF Continue
<1>2. ASSUME NEW p \in Prc, NEW a \in Agent, Begin(p, a)
      PROVE  LocalInv' /\ LockChange
  <2>1. ASSUME NEW s \in Spn, loc_spn(p, a, s) \/ try_spn(p, a, s)
        PROVE  LocalInv' /\ LockChange
    BY <2>1, EnterStep DEF loc_spn, try_spn
  <2>2. CASE service_call(p, a)
    BY <2>2, EnterStep DEF service_call
  <2>3. CASE unl_spn(p, a)
    BY <2>3, UnlSpnStep
  <2>4. CASE loc_cpu(p, a) \/ unl_cpu(p, a)
    BY <2>4, LocCpuStep, UnlCpuStep
  <2>5. CASE ext_tsk(p, a)
    BY <2>5, ExtTskStep, ExtTskUnlocksStep
  <2>6. QED
    BY <1>2, <2>1, <2>2, <2>3, <2>4, <2>5 DEF Begin
<1>3. ASSUME NEW p \in Prc, NEW a \in Agent, InterruptReturn(p, a)
      PROVE  LocalInv' /\ LockChange
  BY <1>3, InterruptReturnStep
<1>4. ASSUME NEW p \in Prc, Preempt(p) \/ Interrupt(p) \/ \E t \in Tsk : Dispatch(p, t)
      PROVE  LocalInv' /\ LockChange
  BY <1>4, PreemptStep, InterruptStep, DispatchStep
<1>5. CASE UNCHANGED vars
  <2>1. TypeOK' /\ StackInv' /\ ProcessorInv' /\ InterruptedHoldsNothing'
    BY <1>5 DEF vars, LocalInv, TypeOK, StackInv, StackForm, TaskOnce, ProcessorInv, Top,
                InterruptedHoldsNothing, Executes
  <2>2. \A q \in Prc, m \in Lock : Holds(q, m)' <=> Holds(q, m)
    BY <1>5 DEF vars, Holds
  <2>3. QED
    BY <1>5, <2>1, <2>2 DEF LocalInv, LockChange, SameLocks, vars
<1>6. QED
  BY <1>1, <1>2, <1>3, <1>4, <1>5 DEF Next

LEMMA StepKeepsInv == LockInv /\ [Next]_vars => LockInv' /\ LockChange
<1> SUFFICES ASSUME LockInv, [Next]_vars
             PROVE  LockInv' /\ LockChange
  OBVIOUS
<1>1. LocalInv
  BY DEF LockInv, LocalInv
<1>2. LocalInv' /\ LockChange
  BY <1>1, EachStep
<1>3. LockExclusive'
  BY <1>2, ExclusiveKept DEF LockInv
<1>4. QED
  BY <1>2, <1>3 DEF LockInv, LocalInv

THEOREM Invariance == Spec => []LockInv
<1>1. LockInv /\ [Next]_vars => LockInv'
  BY StepKeepsInv
<1> QED
  BY <1>1, Initially, PTL DEF Spec

\* The variables keep their types; a call that handles a lock word has a lock.
THEOREM TypeCorrect == Spec => []TypeOK
<1>1. LockInv => TypeOK
  BY DEF LockInv
<1> QED
  BY <1>1, Invariance, PTL

\* A spin lock, and the giant lock, is locked exactly while one processor is
\* between taking and returning it (spin_lock.c, core_kernel_impl.h).
THEOREM LocksExclusive == Spec => []LockExclusive
<1>1. LockInv => LockExclusive
  BY DEF LockInv
<1> QED
  BY <1>1, Invariance, PTL

\* What is interrupted or preempted has no lock, and waits where interrupts
\* are accepted (spin_lock.c:207-216).
THEOREM InterruptedCorrect == Spec => []InterruptedHoldsNothing
<1>1. LockInv => InterruptedHoldsNothing
  BY DEF LockInv
<1> QED
  BY <1>1, Invariance, PTL

\* A processor with a lock is in the CPU locked state, and has one spin lock at
\* most (spin_lock.c:201-204).
THEOREM HoldersUninterrupted == Spec => []HolderUninterrupted
<1>1. LockInv => HolderUninterrupted
  <2> SUFFICES ASSUME LockInv, NEW p \in Prc
               PROVE  /\ \A l \in Spn \cup {GLOCK} : Holds(p, l) => cpulock[p]
                      /\ \A l, m \in Spn : Holds(p, l) /\ Holds(p, m) => l = m
    BY DEF HolderUninterrupted
  <2>1. CASE stack[p] = << >>
    BY <2>1 DEF Holds
  <2>2. CASE stack[p] # << >>
    <3>. DEFINE a == Top(p)
    <3>1. LocalOk(pc[a], cpulock[p], call[a], p_locspn[p])
      BY <2>2 DEF LockInv, ProcessorInv
    <3>2. \A l : Holds(p, l) <=> HasLock(pc[a], call[a], p_locspn[p], l)
      BY <2>2 DEF Holds, HasLock, Top
    <3>. HIDE DEF a
    <3>3. QED
      BY <3>1, <3>2, GlockNoSpn DEF LocalOk, HasLock
  <2>3. QED
    BY <2>1, <2>2
<1> QED
  BY <1>1, Invariance, PTL

----------------------------------------------------------------------------
\* The refinement

\* Who owns a spin lock, in a state and in its successor.
LEMMA OwnerFacts ==
    ASSUME LockExclusive, NEW l \in Spn
    PROVE  /\ \A p \in Prc : Owner[l] = p <=> Holds(p, l)
           /\ Owner[l] = NULL <=> \A p \in Prc : ~Holds(p, l)
<1>1. \A p, q \in Prc : Holds(p, l) /\ Holds(q, l) => p = q
  BY DEF LockExclusive
<1>2. NULL \notin Prc
  BY LockAssumption
<1>3. Owner[l] = IF \E p \in Prc : Holds(p, l) THEN CHOOSE p \in Prc : Holds(p, l) ELSE NULL
  BY DEF Owner
<1>4. QED
  BY <1>1, <1>2, <1>3

LEMMA OwnerFactsNext ==
    ASSUME LockExclusive', NEW l \in Spn
    PROVE  /\ \A p \in Prc : Owner'[l] = p <=> Holds(p, l)'
           /\ Owner'[l] = NULL <=> \A p \in Prc : ~Holds(p, l)'
<1>1. \A p, q \in Prc : Holds(p, l)' /\ Holds(q, l)' => p = q
  BY DEF LockExclusive
<1>2. NULL \notin Prc
  BY LockAssumption
<1>3. Owner'[l] = IF \E p \in Prc : Holds(p, l)' THEN CHOOSE p \in Prc : Holds(p, l)' ELSE NULL
  BY DEF Owner
<1>4. QED
  BY <1>1, <1>2, <1>3

LEMMA OwnerIsFunction ==
    /\ Owner = [l \in Spn |-> Owner[l]]
    /\ Owner' = [l \in Spn |-> Owner'[l]]
  BY DEF Owner

LEMMA OwnerStep ==
    ASSUME LockExclusive, LockExclusive', LockChange
    PROVE  [AbstractLocks!LocksNext]_Owner
<1>1. CASE SameLocks
  <2>1. \A l \in Spn : Owner'[l] = Owner[l]
    BY <1>1, OwnerFacts, OwnerFactsNext DEF SameLocks, Lock
  <2>2. QED
    BY <2>1, OwnerIsFunction
<1>2. ASSUME NEW p \in Prc, NEW k \in Spn, Taken(p, k)
      PROVE  AbstractLocks!LocksNext
  <2>1. \A q \in Prc : ~Holds(q, k)
    BY <1>2 DEF Taken, LockExclusive
  <2>2. Owner[k] = NULL
    BY <2>1, OwnerFacts
  <2>3. \A m \in Spn : Owner[m] # p
    BY <1>2, OwnerFacts DEF Taken
  <2>4. Owner'[k] = p
    BY <1>2, OwnerFactsNext DEF Taken, Lock
  <2>5. \A m \in Spn : m # k => Owner'[m] = Owner[m]
    BY <1>2, OwnerFacts, OwnerFactsNext DEF Taken, Lock
  <2>6. Owner' = [Owner EXCEPT ![k] = p]
    BY <2>4, <2>5, OwnerIsFunction
  <2>7. QED
    BY <2>2, <2>3, <2>6 DEF AbstractLocks!LocksNext, AbstractLocks!Acquire
<1>3. ASSUME NEW p \in Prc, NEW k \in Spn, Returned(p, k)
      PROVE  AbstractLocks!LocksNext
  <2>1. Owner[k] = p
    BY <1>3, OwnerFacts DEF Returned
  <2>2. \A q \in Prc : ~Holds(q, k)'
    BY <1>3 DEF Returned, Lock, LockExclusive
  <2>3. Owner'[k] = NULL
    BY <2>2, OwnerFactsNext
  <2>4. \A m \in Spn : m # k => Owner'[m] = Owner[m]
    BY <1>3, OwnerFacts, OwnerFactsNext DEF Returned, Lock
  <2>5. Owner' = [Owner EXCEPT ![k] = NULL]
    BY <2>3, <2>4, OwnerIsFunction
  <2>6. QED
    BY <2>1, <2>5 DEF AbstractLocks!LocksNext, AbstractLocks!Release
<1>4. ASSUME NEW p \in Prc, Taken(p, GLOCK) \/ Returned(p, GLOCK)
      PROVE  Owner' = Owner
  <2>1. \A q \in Prc, m \in Spn : Holds(q, m)' <=> Holds(q, m)
    BY <1>4, GlockNoSpn DEF Taken, Returned, Lock
  <2>2. \A l \in Spn : Owner'[l] = Owner[l]
    BY <2>1, OwnerFacts, OwnerFactsNext
  <2>3. QED
    BY <2>2, OwnerIsFunction
<1>5. QED
  BY <1>1, <1>2, <1>3, <1>4 DEF LockChange, Lock

\* The spin locks, native or emulated under the giant lock, implement abstract
\* locks: each is acquired when free by a processor that has none, and released
\* by its owner (spin_lock.c).
THEOREM LocksImplemented == Spec => ImplementsLocks
<1>1. Init => AbstractLocks!LocksInit
  <2>1. SUFFICES ASSUME Init
                 PROVE  Owner = [l \in Spn |-> NULL]
    BY DEF AbstractLocks!LocksInit, AbstractLocks!Free
  <2>2. \A p \in Prc, l \in Spn : ~Holds(p, l)
    BY <2>1 DEF Init, Holds
  <2>3. QED
    BY <2>2 DEF Owner
<1>2. LockInv /\ LockInv' /\ [Next]_vars => [AbstractLocks!LocksNext]_Owner
  BY StepKeepsInv, OwnerStep DEF LockInv
<1> QED
  BY <1>1, <1>2, Invariance, PTL DEF Spec, ImplementsLocks, AbstractLocks!LocksSpec

=============================================================================
