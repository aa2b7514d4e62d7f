------------------------------- MODULE Eventflag -------------------------------
(***************************************************************************)
(* Event flags (kernel/eventflag.c), with their dynamic creation.  A       *)
(* pattern is the set of the bits that are set.  The wait queue of an      *)
(* event flag has the name of the event flag.                              *)
(***************************************************************************)
EXTENDS Wait

CONSTANTS
    StaticFlg,    \* the event flags the configuration defines
    DynamicFlg,   \* the control blocks for acre_flg
    Bit,          \* the bits of a pattern
    flginib       \* the static event flags: attributes, initial patterns

Flg == StaticFlg \cup DynamicFlg

Pattern == SUBSET Bit

FLGINIB == [tpri: BOOLEAN, wmul: BOOLEAN, clr: BOOLEAN, iflgptn: Pattern]

FlgAssumption ==
    /\ WaitQueue = Flg
    /\ StaticFlg \cap DynamicFlg = {} /\ IsFiniteSet(DynamicFlg)
    /\ flginib \in [StaticFlg -> FLGINIB]

VARIABLES
    flgcb,        \* the control blocks with their initialisation blocks
    free_flgcb,   \* the list of the free control blocks
    winfo         \* waiptn and wfmode of each task; waiptn is also its result

flg_vars == <<ker, flgcb, free_flgcb, winfo>>

FLGCB == [exists: BOOLEAN, flgptn: Pattern, inib: FLGINIB]

WINFO == [waiptn: Pattern, wfmode: {"TWF_ORW", "TWF_ANDW"}]

FlgTypeOK ==
    /\ ker \in KerType
    /\ flgcb \in [Flg -> FLGCB]
    /\ free_flgcb \in Seq(DynamicFlg)
    /\ winfo \in [Tsk -> WINFO]
    /\ \A t \in Tsk : Waiting(t) => winfo[t].waiptn # {}

\* initialize_eventflag
FlgInit ==
    /\ KerInit({f \in StaticFlg : flginib[f].tpri})
    /\ flgcb = [f \in Flg |->
           IF f \in StaticFlg
             THEN [exists |-> TRUE, flgptn |-> flginib[f].iflgptn, inib |-> flginib[f]]
             ELSE [exists |-> FALSE, flgptn |-> {},
                   inib |-> [tpri |-> FALSE, wmul |-> FALSE, clr |-> FALSE, iflgptn |-> {}]]]
    /\ free_flgcb = SetToSeq(DynamicFlg)
    /\ winfo = [t \in Tsk |-> [waiptn |-> {}, wfmode |-> "TWF_ORW"]]

----------------------------------------------------------------------------
\* check_flg_cond: the condition, and the pattern that it leaves.

Satisfies(ptn, w) ==
    \/ w.wfmode = "TWF_ORW" /\ ptn \cap w.waiptn # {}
    \/ w.wfmode = "TWF_ANDW" /\ w.waiptn \subseteq ptn

\* A fault of the next operator: TA_CLR has no effect.
PatternKept(f, ptn) == ptn

PatternLeft(f, ptn) == IF flgcb[f].inib.clr THEN {} ELSE ptn

----------------------------------------------------------------------------
acre_flg(ini) ==
    /\ InTask /\ free_flgcb # << >>
    /\ LET f == Head(free_flgcb)
       IN  /\ flgcb' = [flgcb EXCEPT ![f] =
                  [exists |-> TRUE, flgptn |-> ini.iflgptn, inib |-> ini]]
           /\ ker' = [ker EXCEPT !.wait[f] = << >>,
                                 !.tpri = IF ini.tpri THEN @ \cup {f} ELSE @ \ {f}]
    /\ free_flgcb' = Tail(free_flgcb)
    /\ UNCHANGED winfo

del_flg(f) ==
    /\ InTask /\ f \in DynamicFlg /\ flgcb[f].exists
    /\ ker' = InitWaitQueue(ker, f)
    /\ flgcb' = [flgcb EXCEPT ![f].exists = FALSE]
    /\ free_flgcb' = QueueInsertPrev(free_flgcb, f)
    /\ UNCHANGED winfo

\* The tasks that set_flg releases when it has made the pattern ptn: all that
\* are satisfied; with TA_CLR the first of them, whose release leaves no bit set.
Released(f, ptn) ==
    LET q  == ker.wait[f]
        ok == {i \in DOMAIN q : Satisfies(ptn, winfo[q[i]])}
    IN  {q[i] : i \in IF flgcb[f].inib.clr THEN {i \in ok : \A j \in ok : i <= j} ELSE ok}

\* The tasks rel are released with the pattern ptn, the others keep their order.
SetFlg(f, ptn, rel) ==
    /\ ker' = [ker EXCEPT !.wait[f] = Without(@, rel),
                          !.tcb = [t \in Tsk |-> IF t \in rel THEN EndedTcb(@[t], "E_OK") ELSE @[t]]]
    /\ winfo' = [t \in Tsk |-> IF t \in rel THEN [winfo[t] EXCEPT !.waiptn = ptn] ELSE winfo[t]]
    /\ flgcb' = [flgcb EXCEPT ![f].flgptn = IF rel = {} THEN ptn ELSE PatternLeft(f, ptn)]
    /\ UNCHANGED free_flgcb

\* A fault of the next action: the loop ends with the first task it releases.
set_flg_first(f, setptn) ==
    /\ flgcb[f].exists
    /\ LET ptn == flgcb[f].flgptn \cup setptn
           q   == ker.wait[f]
           ok  == {i \in DOMAIN q : Satisfies(ptn, winfo[q[i]])}
       IN  SetFlg(f, ptn, {q[i] : i \in {i \in ok : \A j \in ok : i <= j}})

\* By a task or an interrupt handler.
set_flg(f, setptn) ==
    /\ flgcb[f].exists
    /\ LET ptn == flgcb[f].flgptn \cup setptn
       IN  SetFlg(f, ptn, Released(f, ptn))

clr_flg(f, clrptn) ==
    /\ InTask /\ flgcb[f].exists
    /\ flgcb' = [flgcb EXCEPT ![f].flgptn = @ \cap clrptn]
    /\ UNCHANGED <<ker, free_flgcb, winfo>>

\* A fault of the next operator: no E_ILUSE for a second task.
MayAskAnyway(f) == flgcb[f].exists

\* wai_flg, pol_flg and twai_flg: E_NOEXS, and E_ILUSE without TA_WMUL.
MayAsk(f) ==
    /\ flgcb[f].exists
    /\ flgcb[f].inib.wmul \/ ker.wait[f] = << >>

\* Their condition holds; the result is the pattern before it is cleared.
GetFlg(t, f, w) ==
    /\ MayAsk(f) /\ Satisfies(flgcb[f].flgptn, w)
    /\ winfo' = [winfo EXCEPT ![t].waiptn = flgcb[f].flgptn]
    /\ flgcb' = [flgcb EXCEPT ![f].flgptn = PatternLeft(f, @)]
    /\ ker' = [ker EXCEPT !.tcb[t].wercd = "E_OK"]
    /\ UNCHANGED free_flgcb

pol_flg(t, f, w) == Executes(t) /\ GetFlg(t, f, w)

WaitFlg(t, f, w, tmout) ==
    /\ MayWait(t)
    /\ \/ GetFlg(t, f, w)
       \/ /\ MayAsk(f) /\ ~Satisfies(flgcb[f].flgptn, w)
          /\ winfo' = [winfo EXCEPT ![t] = w]
          /\ ker' = WobjMakeWait(ker, f, t, tmout)
          /\ UNCHANGED <<flgcb, free_flgcb>>

wai_flg(t, f, w) == WaitFlg(t, f, w, FALSE)
twai_flg(t, f, w) == WaitFlg(t, f, w, TRUE)

ini_flg(f) ==
    /\ InTask /\ flgcb[f].exists
    /\ ker' = InitWaitQueue(ker, f)
    /\ flgcb' = [flgcb EXCEPT ![f].flgptn = flgcb[f].inib.iflgptn]
    /\ UNCHANGED <<free_flgcb, winfo>>

----------------------------------------------------------------------------
\* E_PAR for an empty waiptn
Request == {w \in WINFO : w.waiptn # {}}

FlgNext ==
    \/ \E ini \in FLGINIB : acre_flg(ini)
    \/ \E f \in Flg :
          \/ \E ptn \in Pattern : set_flg(f, ptn) \/ clr_flg(f, ptn)
          \/ ini_flg(f) \/ del_flg(f)
          \/ \E t \in Tsk, w \in Request :
                wai_flg(t, f, w) \/ twai_flg(t, f, w) \/ pol_flg(t, f, w)
    \/ \E t \in Tsk : TaskNext(t) /\ UNCHANGED <<flgcb, free_flgcb, winfo>>

FlgSpec == FlgInit /\ [][FlgNext]_flg_vars

----------------------------------------------------------------------------
\* Nobody waits for a condition that holds, whatever set, cleared or
\* initialised the pattern and in whatever order the tasks wait
\* (eventflag.c:343-357, :451, :612-613).
NoWaitForSatisfied ==
    \A f \in Flg : \A t \in Range(ker.wait[f]) :
        flgcb[f].exists /\ ~Satisfies(flgcb[f].flgptn, winfo[t])

\* Without TA_WMUL at most one task waits, also after the block of an event
\* flag with TA_WMUL has been created again (eventflag.c:447, :502, :552).
SingleWaiter ==
    \A f \in Flg : ~flgcb[f].inib.wmul => Len(ker.wait[f]) <= 1

\* A task whose wait is completed gets a pattern that satisfies its condition;
\* with TA_CLR nobody else gets these bits (eventflag.c:179-187, :350-355).
CompletesWithPattern(t) ==
    LET f == tcb[t].p_wobjcb
    IN  /\ Satisfies(winfo'[t].waiptn, winfo[t])
        /\ flgcb[f].inib.clr =>
              /\ flgcb'[f].flgptn = {}
              /\ \A u \in Range(ker.wait[f]) \ {t} : ker'.tcb[u] = tcb[u]

CompletedWithPattern ==
    \A t \in Tsk :
        Waiting(t) /\ "WAITING" \notin ker'.tcb[t].tstat /\ ker'.tcb[t].wercd = "E_OK"
        => CompletesWithPattern(t)

ReleasedWithPattern == [][CompletedWithPattern]_flg_vars
================================================================================
