----------------------------- MODULE Scheduler -----------------------------
(***************************************************************************)
(* frontends/macos9/schedule.c: the cooperative timer queue behind         *)
(* gui_misc_table.schedule.  One linked list of {time, callback, p}, kept  *)
(* sorted by time; macos9_schedule() re-arms or cancels an entry,          *)
(* macos9_schedule_run() is called once per event-loop pass (main.c) and   *)
(* drives the callbacks that are due.  A callback may itself call          *)
(* macos9_schedule(), so the loop is a step per iteration here and         *)
(* Schedule / Cancel may come between the pop and the callback's return.   *)
(*                                                                         *)
(* Abstractions: a callback and its parameter are one job; TickCount() is  *)
(* an unbounded counter (the 32-bit one wraps after 828 days of uptime).   *)
(***************************************************************************)
EXTENDS Naturals, Sequences, SequencesExt

CONSTANTS
    Jobs,       \* callback/parameter pairs handed to macos9_schedule
    Millis,     \* the non-negative delays callers pass, in milliseconds
    MaxTick,    \* bound on the clock
    None        \* no job is being called

ASSUME MillisAssumption == Millis \subseteq Nat
ASSUME MaxTickAssumption == MaxTick \in Nat
ASSUME NoneAssumption == None \notin Jobs /\ None \notin Nat

VARIABLES
    sched_queue,          \* the list, head first: records [time, job]
    macos9_sched_active,  \* exported: the queue is not empty
    macos9_sched_time,    \* exported: when its head is due
    ticks,                \* TickCount()
    macos9_quitting,      \* set by main() when the event loop has exited
    pc,                   \* where macos9_schedule_run is
    now,                  \* its local: the tick read on entry
    callback,             \* its local: the job being called
    overtaken             \* history: jobs called while a due job waited

exported == <<macos9_sched_active, macos9_sched_time>>
runVars == <<pc, now, callback>>
schedVars == <<sched_queue, exported, ticks, macos9_quitting, runVars, overtaken>>

Entry == [time : Nat, job : Jobs]

SchedTypeOK ==
    /\ sched_queue \in Seq(Entry)
    /\ macos9_sched_active \in BOOLEAN
    /\ macos9_sched_time \in Nat
    /\ ticks \in Nat
    /\ macos9_quitting \in BOOLEAN
    /\ pc \in {"idle", "loop", "callback"}
    /\ now \in Nat
    /\ callback \in Jobs \cup {None}
    /\ overtaken \in [Jobs -> SUBSET Jobs]

SchedInit ==
    /\ sched_queue = <<>>
    /\ macos9_sched_active = FALSE
    /\ macos9_sched_time = 0
    /\ ticks = 0
    /\ macos9_quitting = FALSE
    /\ pc = "idle"
    /\ now = 0
    /\ callback = None
    /\ overtaken = [j \in Jobs |-> {}]

-----------------------------------------------------------------------------
(* 1 tick = 1/60 s; the integer division sends delays below 17 ms to 0.     *)
ToTicks(t) == (t * 60) \div 1000

Queued(q, job) == \E i \in DOMAIN q : q[i].job = job

(* The queue without the entry of this job, if there is one.               *)
sched_remove(q, job) ==
    IF Queued(q, job)
    THEN RemoveAt(q, CHOOSE i \in DOMAIN q : q[i].job = job)
    ELSE q

(* Refresh the exported pair; an empty queue leaves the time alone.        *)
sched_update_state(q) ==
    /\ macos9_sched_active' = (q # <<>>)
    /\ macos9_sched_time' = IF q # <<>> THEN Head(q).time ELSE macos9_sched_time

(* Mutant: new entries go to the front. *)
WalkStopsAtOnce(q, due, n) == n = 0

(* Mutant: the walk stops in front of entries with an equal time. *)
WalkStopsAtEqual(q, due, n) ==
    /\ \A i \in 1..n : q[i].time < due
    /\ n < Len(q) => q[n + 1].time >= due

(* n is where the insertion walk stops: past every leading entry whose     *)
(* time is not after due.                                                  *)
WalkStops(q, due, n) ==
    /\ \A i \in 1..n : q[i].time <= due
    /\ n < Len(q) => q[n + 1].time > due

(* The code that may call macos9_schedule: the rest of the event loop, or  *)
(* the callback macos9_schedule_run is in.                                 *)
MayCall == pc \in {"idle", "callback"}

(* macos9_schedule(t, callback, p), t >= 0.                                *)
Schedule(t, job) ==
    LET q == sched_remove(sched_queue, job)
        due == ticks + ToTicks(t)
    IN  /\ MayCall
        /\ \E n \in 0..Len(q) :
              /\ WalkStops(q, due, n)
              /\ sched_queue' = InsertAt(q, n + 1, [time |-> due, job |-> job])
        /\ sched_update_state(sched_queue')
        /\ overtaken' = [overtaken EXCEPT ![job] = {}]
        /\ UNCHANGED <<ticks, macos9_quitting, runVars>>

(* macos9_schedule(t, callback, p), t >= 0, when malloc fails: the old     *)
(* entry is gone and the exported pair is not refreshed.                   *)
ScheduleNoMem(job) ==
    /\ MayCall
    /\ sched_queue' = sched_remove(sched_queue, job)
    /\ overtaken' = [overtaken EXCEPT ![job] = {}]
    /\ UNCHANGED <<exported, ticks, macos9_quitting, runVars>>

(* macos9_schedule(t, callback, p), t < 0.                                 *)
Cancel(job) ==
    /\ MayCall
    /\ sched_queue' = sched_remove(sched_queue, job)
    /\ sched_update_state(sched_queue')
    /\ overtaken' = [overtaken EXCEPT ![job] = {}]
    /\ UNCHANGED <<ticks, macos9_quitting, runVars>>

-----------------------------------------------------------------------------
(* macos9_schedule_run: entry.  It returns at once when quitting.          *)
RunBegin ==
    /\ pc = "idle"
    /\ ~macos9_quitting
    /\ pc' = "loop"
    /\ now' = ticks
    /\ UNCHANGED <<sched_queue, exported, ticks, macos9_quitting, callback, overtaken>>

(* Mutant: the loop reads the clock each time round. *)
HeadDueRereadsClock == sched_queue # <<>> /\ Head(sched_queue).time <= ticks

(* Mutant: the loop drives whatever is at the head. *)
HeadDueIgnoresTime == sched_queue # <<>>

(* Mutant: the loop drives only what is due at exactly this tick. *)
HeadDueExact == sched_queue # <<>> /\ Head(sched_queue).time = now

HeadIsDue == sched_queue # <<>> /\ Head(sched_queue).time <= now

(* One turn of its loop: unlink the head, then call it.                    *)
RunPop ==
    LET job == Head(sched_queue).job
        waiting == {Tail(sched_queue)[i].job :
                      i \in {k \in DOMAIN Tail(sched_queue) :
                               Tail(sched_queue)[k].time <= ticks}}
    IN  /\ pc = "loop"
        /\ HeadIsDue
        /\ sched_queue' = Tail(sched_queue)
        /\ callback' = job
        /\ pc' = "callback"
        /\ overtaken' = [j \in Jobs |->
                           IF j \in waiting THEN overtaken[j] \cup {job} ELSE {}]
        /\ UNCHANGED <<exported, ticks, macos9_quitting, now>>

(* The callback returns to the loop.                                       *)
CallbackReturn ==
    /\ pc = "callback"
    /\ pc' = "loop"
    /\ callback' = None
    /\ UNCHANGED <<sched_queue, exported, ticks, macos9_quitting, now, overtaken>>

(* Nothing more is due: refresh the exported pair and return.              *)
RunEnd ==
    /\ pc = "loop"
    /\ ~HeadIsDue
    /\ sched_update_state(sched_queue)
    /\ pc' = "idle"
    /\ UNCHANGED <<sched_queue, ticks, macos9_quitting, now, callback, overtaken>>

(* main(): the event loop has exited, netsurf_exit() follows.              *)
Quit ==
    /\ pc = "idle"
    /\ macos9_quitting' = TRUE
    /\ UNCHANGED <<sched_queue, exported, ticks, runVars, overtaken>>

(* TickCount() moves on, whatever the browser is doing.                    *)
TickCountAdvances ==
    /\ ticks < MaxTick
    /\ ticks' = ticks + 1
    /\ UNCHANGED <<sched_queue, exported, macos9_quitting, runVars, overtaken>>

SchedNext ==
    \/ \E job \in Jobs :
          \/ \E t \in Millis : Schedule(t, job)
          \/ ScheduleNoMem(job)
          \/ Cancel(job)
    \/ RunBegin
    \/ RunPop
    \/ CallbackReturn
    \/ RunEnd
    \/ Quit
    \/ TickCountAdvances

SchedSpec == SchedInit /\ [][SchedNext]_schedVars

(* The clock runs, the event loop comes round, and a callback returns      *)
(* (MacSurf is single-threaded: nothing else runs until it does).          *)
Fairness ==
    /\ WF_schedVars(TickCountAdvances)
    /\ WF_schedVars(RunBegin)
    /\ WF_schedVars(RunPop)
    /\ WF_schedVars(CallbackReturn)
    /\ WF_schedVars(RunEnd)

SchedFairSpec == SchedSpec /\ Fairness

-----------------------------------------------------------------------------
(* The list stays in time order, whatever mix of re-arming, cancelling and *)
(* failed allocation the callbacks make (schedule.c: "Insert in            *)
(* time-sorted order"): the run loop looks at the head only.               *)
Sorted ==
    \A i, k \in DOMAIN sched_queue :
        i <= k => sched_queue[i].time <= sched_queue[k].time

(* "There can only be one entry per callback+param pair": a cancel removes *)
(* one entry only, so a second one would survive it and fire into state    *)
(* that is already freed.                                                  *)
OneEntryPerJob ==
    \A i, k \in DOMAIN sched_queue :
        sched_queue[i].job = sched_queue[k].job => i = k

(* The queue is well formed at every step: typed, in time order and with   *)
(* one entry per job, the three facts its loops rely on together.          *)
QueueSound == SchedTypeOK /\ Sorted /\ OneEntryPerJob

(* A job that has been called while another, already due, was waiting is   *)
(* not ahead of it in the list again: fetcher_poll re-arms itself with a   *)
(* delay of 0 ticks and must not starve the other jobs of this run.        *)
NoOvertaking ==
    \A i, k \in DOMAIN sched_queue :
        sched_queue[i].job \in overtaken[sched_queue[k].job] => k < i

(* Every call of macos9_schedule_run ends, even when a callback re-arms    *)
(* itself for the same tick: the loop compares with the tick it read on    *)
(* entry, so the run is over once the clock has moved past it.             *)
RunEnds ==
    \A n \in 0..MaxTick - 1 : (pc # "idle" /\ now = n) ~> (pc = "idle")

(* A job that is due gets called, or is re-armed or cancelled by another   *)
(* callback, unless the browser quits.                                     *)
DueIsServed ==
    \A j \in Jobs, d \in 0..MaxTick - 1 :
        (\E i \in DOMAIN sched_queue : sched_queue[i] = [time |-> d, job |-> j])
            ~> \/ ~\E i \in DOMAIN sched_queue :
                      sched_queue[i] = [time |-> d, job |-> j]
               \/ macos9_quitting

-----------------------------------------------------------------------------
(* The queue as the map from jobs to due ticks that callers have in mind.  *)
DueOf(job) ==
    IF Queued(sched_queue, job)
    THEN sched_queue[CHOOSE i \in DOMAIN sched_queue : sched_queue[i].job = job].time
    ELSE None

Timers == INSTANCE TimerMap WITH
    pending <- [j \in Jobs |-> DueOf(j)],
    running <- callback,
    clock <- ticks,
    stopped <- macos9_quitting

(* schedule.c implements the timer map: jobs run one at a time, when due,  *)
(* earliest first, each at most once per arming, and none after quitting   *)
(* began.                                                                  *)
ImplementsTimerMap == Timers!MapSpec
=============================================================================
