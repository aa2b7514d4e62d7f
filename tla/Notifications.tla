----------------------------- MODULE Notifications -----------------------------
(***************************************************************************)
(* What cyclic and alarm notifications promise: one that is started has    *)
(* one event, on one processor, and its handler begins on that processor   *)
(* only while it is started; an alarm is then stopped, a cyclic            *)
(* notification stays started until it is stopped or deleted.              *)
(***************************************************************************)
CONSTANTS
    Cyc, Alm,     \* the cyclic and the alarm notifications
    Tepp          \* the processors that handle time events

VARIABLES
    status,       \* "none", "stopped", or the processor it is started on
    handling      \* the notifications whose handlers each processor executes

\* The static ones exist from the start.
NotificationsInit ==
    /\ status \in [Cyc \cup Alm -> {"none", "stopped"} \cup Tepp]
    /\ handling = [p \in Tepp |-> {}]

Becomes(x, s) == status' = [status EXCEPT ![x] = s]

Create(x, s) == status[x] = "none" /\ s # "none" /\ Becomes(x, s) /\ UNCHANGED handling
Delete(x)    == status[x] # "none" /\ Becomes(x, "none") /\ UNCHANGED handling
Start(x, p)  == status[x] # "none" /\ Becomes(x, p) /\ UNCHANGED handling
Stop(x)      == status[x] # "none" /\ Becomes(x, "stopped") /\ UNCHANGED handling

Happen(x, p) ==
    /\ status[x] = p /\ handling[p] = {}
    /\ handling' = [handling EXCEPT ![p] = {x}]
    /\ IF x \in Alm THEN Becomes(x, "stopped") ELSE UNCHANGED status

Return(p) == handling' = [handling EXCEPT ![p] = {}] /\ UNCHANGED status

NotificationsNext ==
    \/ \E x \in Cyc \cup Alm :
          \/ \E s \in {"stopped"} \cup Tepp : Create(x, s)
          \/ Delete(x) \/ Stop(x)
          \/ \E p \in Tepp : Start(x, p) \/ Happen(x, p)
    \/ \E p \in Tepp : Return(p)

NotificationsSpec ==
    NotificationsInit /\ [][NotificationsNext]_<<status, handling>>
================================================================================
