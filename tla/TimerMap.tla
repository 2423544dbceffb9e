------------------------------ MODULE TimerMap ------------------------------
(***************************************************************************)
(* What NetSurf's core expects of gui_misc_table.schedule: a map from jobs *)
(* (a callback and its parameter) to the tick each is due at.  Arming a    *)
(* job replaces its old due time, cancelling drops it, an armed job runs   *)
(* only once it is due and never before a job that is due earlier, jobs    *)
(* run one at a time, and none starts once the browser is quitting.        *)
(* Scheduler.tla implements it.                                            *)
(***************************************************************************)
EXTENDS Naturals

CONSTANTS
    Jobs,     \* callback/parameter pairs
    None      \* no due time, no running job

VARIABLES
    pending,   \* [Jobs -> Nat \cup {None}]: when each armed job is due
    running,   \* the job whose callback is executing, or None
    clock,     \* TickCount()
    stopped    \* macos9_quitting

mapVars == <<pending, running, clock, stopped>>

MapInit ==
    /\ pending = [j \in Jobs |-> None]
    /\ running = None
    /\ clock = 0
    /\ stopped = FALSE

\* Time passes.
Advance ==
    /\ clock' = clock + 1
    /\ UNCHANGED <<pending, running, stopped>>

\* A job is armed, or re-armed, for a tick that is not in the past.
Arm(j) ==
    /\ pending'[j] \in Nat
    /\ pending'[j] >= clock
    /\ pending' = [pending EXCEPT ![j] = pending'[j]]
    /\ UNCHANGED <<running, clock, stopped>>

\* A job's timer is dropped.
Disarm(j) ==
    /\ pending' = [pending EXCEPT ![j] = None]
    /\ UNCHANGED <<running, clock, stopped>>

\* The earliest armed job is due: its timer is consumed, its callback starts.
Fire(j) ==
    /\ ~stopped
    /\ running = None
    /\ pending[j] # None
    /\ pending[j] <= clock
    /\ \A k \in Jobs : pending[k] # None => pending[j] <= pending[k]
    /\ pending' = [pending EXCEPT ![j] = None]
    /\ running' = j
    /\ UNCHANGED <<clock, stopped>>

\* The callback returns.
Return ==
    /\ running' = None
    /\ UNCHANGED <<pending, clock, stopped>>

Stop ==
    /\ stopped' = TRUE
    /\ UNCHANGED <<pending, running, clock>>

MapNext ==
    \/ Advance
    \/ Return
    \/ Stop
    \/ \E j \in Jobs : Arm(j) \/ Disarm(j) \/ Fire(j)

MapSpec == MapInit /\ [][MapNext]_mapVars
=============================================================================
