---------------------------- MODULE TimerProofs ----------------------------
(***************************************************************************)
(* Proofs about the browser's two timer queues.  Neither uses the other;   *)
(* both are lists kept in the order of time and edited by the callbacks    *)
(* they drive, and the proofs rest on the same facts about sequences.      *)
(*                                                                         *)
(* schedule.c, for every set of jobs, delays and clock bound: the list is  *)
(* sorted and holds a job once, a job that was called while another was    *)
(* due does not get ahead of it again, and the list implements TimerMap.   *)
(*                                                                         *)
(* macsurf_js_timers.c, for any arena, numbers of heaps and timers, delays *)
(* and clock: arena, list and stashes agree, a timer fires only when it is *)
(* pending and due, and one is lost only in the two known ways.            *)
(***************************************************************************)
EXTENDS Scheduler, JSTimers, SeqLemmas


-----------------------------------------------------------------------------
(* The invariants as predicates of a queue, so that each list operation is *)
(* handled once, whichever action uses it.                                 *)
SortedQ(q) == \A i, k \in DOMAIN q : i <= k => q[i].time <= q[k].time
OneEntryQ(q) == \A i, k \in DOMAIN q : q[i].job = q[k].job => i = k
NoOvertakingQ(q, ov) == \A i, k \in DOMAIN q : q[i].job \in ov[q[k].job] => k < i

(* Only a job that is due has been overtaken.                              *)
WaitersDueQ(q, ov, t) == \A k \in DOMAIN q : ov[q[k].job] # {} => q[k].time <= t

Good(q, ov, t) ==
    /\ q \in Seq(Entry)
    /\ SortedQ(q)
    /\ OneEntryQ(q)
    /\ NoOvertakingQ(q, ov)
    /\ WaitersDueQ(q, ov, t)

(* Unlinking one entry keeps everything, and the job is no longer queued.  *)
LEMMA RemoveGood ==
    ASSUME NEW q, NEW ov \in [Jobs -> SUBSET Jobs], NEW t \in Nat, NEW job \in Jobs,
           Good(q, ov, t)
    PROVE  /\ Good(sched_remove(q, job), ov, t)
           /\ ~Queued(sched_remove(q, job), job)
<1>1. CASE ~Queued(q, job)
  BY <1>1 DEF sched_remove
<1>2. CASE Queued(q, job)
  <2> DEFINE n == CHOOSE i \in DOMAIN q : q[i].job = job
             r == RemoveAt(q, n)
  <2>1. n \in DOMAIN q /\ q[n].job = job
    BY <1>2 DEF Queued
  <2>2. q \in Seq(Entry) /\ DOMAIN q = 1..Len(q) /\ Len(q) \in Nat
    BY LenProperties DEF Good
  <2>3. sched_remove(q, job) = r
    BY <1>2 DEF sched_remove
  <2> HIDE DEF n
  <2>4. /\ r \in Seq(Entry)
        /\ Len(r) = Len(q) - 1
        /\ \A i \in 1..Len(q) - 1 : r[i] = IF i < n THEN q[i] ELSE q[i + 1]
    BY <2>1, <2>2, RemoveAtElements
  <2> HIDE DEF r
  <2> DEFINE old(i) == IF i < n THEN i ELSE i + 1
  <2>5. \A i \in DOMAIN r : old(i) \in DOMAIN q /\ r[i] = q[old(i)] /\ old(i) # n
    BY <2>1, <2>2, <2>4, LenProperties
  <2>6. \A i, k \in DOMAIN r : /\ i <= k => old(i) <= old(k)
                               /\ old(i) = old(k) => i = k
                               /\ old(k) < old(i) => k < i
    BY <2>1, <2>2, <2>4, LenProperties
  <2> HIDE DEF old
  <2>7. SortedQ(r) /\ OneEntryQ(r) /\ NoOvertakingQ(r, ov) /\ WaitersDueQ(r, ov, t)
    <3>1. SortedQ(r) BY <2>5, <2>6 DEF Good, SortedQ
    <3>2. OneEntryQ(r) BY <2>5, <2>6 DEF Good, OneEntryQ
    <3>3. NoOvertakingQ(r, ov) BY <2>5, <2>6 DEF Good, NoOvertakingQ
    <3>4. WaitersDueQ(r, ov, t) BY <2>5 DEF Good, WaitersDueQ
    <3> QED BY <3>1, <3>2, <3>3, <3>4
  <2>8. ~Queued(r, job)
    BY <2>1, <2>5 DEF Queued, Good, OneEntryQ
  <2> QED BY <2>3, <2>4, <2>7, <2>8 DEF Good
<1> QED BY <1>1, <1>2

(* Linking a job that is not queued where the walk stops keeps everything, *)
(* when it is due now or later and nobody has overtaken it yet.            *)
LEMMA InsertGood ==
    ASSUME NEW q, NEW ov \in [Jobs -> SUBSET Jobs], NEW t \in Nat, NEW job \in Jobs,
           NEW due \in Nat, due >= t, NEW n \in 0..Len(q),
           Good(q, ov, t), ~Queued(q, job), ov[job] = {}, WalkStops(q, due, n)
    PROVE  Good(InsertAt(q, n + 1, [time |-> due, job |-> job]), ov, t)
<1> DEFINE e == [time |-> due, job |-> job]
           r == InsertAt(q, n + 1, e)
<1>1. q \in Seq(Entry) /\ DOMAIN q = 1..Len(q) /\ Len(q) \in Nat
  BY LenProperties DEF Good
<1>2. e \in Entry /\ e.time = due /\ e.job = job
  BY DEF Entry
<1> HIDE DEF e
<1>3. /\ r \in Seq(Entry)
      /\ Len(r) = Len(q) + 1
      /\ \A i \in 1..n : r[i] = q[i]
      /\ r[n + 1] = e
      /\ \A i \in n + 1..Len(q) : r[i + 1] = q[i]
  <2>1. q \in Seq(Entry) BY <1>1
  <2>2. e \in Entry BY <1>2
  <2>3. r \in Seq(Entry) BY <2>1, <2>2, InsertAtElements
  <2>4. Len(r) = Len(q) + 1 BY <2>1, <2>2, InsertAtElements
  <2>5. \A i \in 1..n : r[i] = q[i] BY <2>1, <2>2, InsertAtElements
  <2>6. r[n + 1] = e BY <2>1, <2>2, InsertAtElements
  <2>7. \A i \in n + 1..Len(q) : r[i + 1] = q[i] BY <2>1, <2>2, InsertAtElements
  <2> QED BY <2>3, <2>4, <2>5, <2>6, <2>7
<1> HIDE DEF r
<1> DEFINE old(i) == IF i <= n THEN i ELSE i - 1
<1>4. DOMAIN r = 1..Len(q) + 1 /\ n + 1 \in DOMAIN r /\ r[n + 1] = e
  BY <1>1, <1>3, LenProperties
<1>5. ASSUME NEW i \in DOMAIN r, i # n + 1
      PROVE  old(i) \in DOMAIN q /\ r[i] = q[old(i)]
  <2>1. CASE i <= n
    BY <2>1, <1>1, <1>3, <1>4
  <2>2. CASE i > n + 1
    <3>1. i - 1 \in n + 1..Len(q) /\ (i - 1) + 1 = i BY <2>2, <1>1, <1>4
    <3> QED BY <3>1, <2>2, <1>1, <1>3, <1>4
  <2> QED BY <2>1, <2>2, <1>1, <1>4, <1>5
<1>6. \A i, k \in DOMAIN r : i # n + 1 /\ k # n + 1 =>
          /\ i <= k => old(i) <= old(k)
          /\ old(i) = old(k) => i = k
          /\ old(k) < old(i) => k < i
  BY <1>1, <1>4
<1>7. \A i \in DOMAIN r : i < n + 1 => old(i) \in 1..n
  BY <1>1, <1>4
<1>8. \A i \in DOMAIN r : i > n + 1 => n < Len(q) /\ n + 1 \in DOMAIN q /\ n + 1 <= old(i)
  BY <1>1, <1>4
<1> HIDE DEF old
<1>9. \A i \in DOMAIN q : q[i] \in Entry /\ q[i].time \in Nat /\ q[i].job \in Jobs
  <2>1. \A i \in DOMAIN q : q[i] \in Entry BY <1>1, ElementOfSeq
  <2> QED BY <2>1 DEF Entry
<1>10. \A i \in DOMAIN r : i < n + 1 => r[i].time <= due
  BY <1>5, <1>7 DEF WalkStops
<1>11. \A i \in DOMAIN r : i > n + 1 => due < r[i].time
  <2> SUFFICES ASSUME NEW i \in DOMAIN r, i > n + 1 PROVE due < r[i].time
    OBVIOUS
  <2>1. q[n + 1].time > due BY <1>8 DEF WalkStops
  <2>2. q[n + 1].time <= q[old(i)].time BY <1>5, <1>8, <1>4 DEF Good, SortedQ
  <2>3. r[i] = q[old(i)] /\ old(i) \in DOMAIN q BY <1>5, <1>4
  <2> QED BY <2>1, <2>2, <2>3, <1>8, <1>9
<1>12. SortedQ(r)
  <2> SUFFICES ASSUME NEW i \in DOMAIN r, NEW k \in DOMAIN r, i <= k
               PROVE  r[i].time <= r[k].time
    BY DEF SortedQ
  <2>1. CASE i # n + 1 /\ k # n + 1
    BY <2>1, <1>5, <1>6 DEF Good, SortedQ
  <2>2. CASE i = n + 1 /\ k = n + 1
    BY <2>2, <1>2, <1>4
  <2>3. CASE i = n + 1 /\ k # n + 1
    BY <2>3, <1>2, <1>4, <1>11, <1>5, <1>9
  <2>4. CASE i # n + 1 /\ k = n + 1
    BY <2>4, <1>2, <1>4, <1>10
  <2> QED BY <2>1, <2>2, <2>3, <2>4
<1>13. OneEntryQ(r)
  <2> SUFFICES ASSUME NEW i \in DOMAIN r, NEW k \in DOMAIN r, r[i].job = r[k].job
               PROVE  i = k
    BY DEF OneEntryQ
  <2>1. CASE i # n + 1 /\ k # n + 1
    BY <2>1, <1>5, <1>6 DEF Good, OneEntryQ
  <2>2. CASE i = n + 1 \/ k = n + 1
    BY <2>2, <1>2, <1>4, <1>5 DEF Queued
  <2> QED BY <2>1, <2>2
<1>14. NoOvertakingQ(r, ov)
  <2> SUFFICES ASSUME NEW i \in DOMAIN r, NEW k \in DOMAIN r, r[i].job \in ov[r[k].job]
               PROVE  k < i
    BY DEF NoOvertakingQ
  <2>1. CASE i # n + 1 /\ k # n + 1
    BY <2>1, <1>5, <1>6 DEF Good, NoOvertakingQ
  <2>2. CASE k = n + 1
    BY <2>2, <1>2, <1>4
  <2>3. CASE i = n + 1 /\ k # n + 1
    <3>1. r[k].time <= t
      BY <2>3, <1>5 DEF Good, WaitersDueQ
    <3>2. r[k].time \in Nat
      BY <2>3, <1>5, <1>9
    <3>3. ~(k > n + 1)
      BY <3>1, <3>2, <1>11
    <3> QED BY <3>3, <2>3, <1>4, <1>1
  <2> QED BY <2>1, <2>2, <2>3
<1>15. WaitersDueQ(r, ov, t)
  BY <1>2, <1>4, <1>5 DEF Good, WaitersDueQ
<1> QED BY <1>3, <1>12, <1>13, <1>14, <1>15 DEF Good, r, e

(* Unlinking the head and crediting its job to everyone who was due.       *)
LEMMA PopGood ==
    ASSUME NEW q, NEW ov \in [Jobs -> SUBSET Jobs], NEW ov2 \in [Jobs -> SUBSET Jobs],
           NEW t \in Nat, Good(q, ov, t), q # <<>>,
           \A j \in Jobs : ov2[j] \subseteq ov[j] \cup {Head(q).job},
           \A k \in DOMAIN Tail(q) : ov2[Tail(q)[k].job] # {} => Tail(q)[k].time <= t
    PROVE  Good(Tail(q), ov2, t) /\ ~Queued(Tail(q), Head(q).job)
<1> DEFINE r == Tail(q)
<1>1. q \in Seq(Entry) /\ DOMAIN q = 1..Len(q) /\ Len(q) \in Nat
  BY LenProperties DEF Good
<1>2. /\ r \in Seq(Entry)
      /\ Len(r) = Len(q) - 1
      /\ \A i \in 1..Len(r) : r[i] = q[i + 1]
  BY <1>1, HeadTailProperties
<1>3. Len(q) >= 1 /\ Head(q) = q[1]
  BY <1>1, EmptySeq
<1> HIDE DEF r
<1>4. \A i \in DOMAIN r : i \in Nat /\ i + 1 \in DOMAIN q /\ r[i] = q[i + 1] /\ i + 1 # 1
  BY <1>1, <1>2, <1>3, LenProperties
<1>5. \A i \in DOMAIN r : r[i].job # q[1].job /\ r[i].job \in Jobs
  <2>1. \A i \in DOMAIN r : r[i] \in Entry BY <1>2, ElementOfSeq
  <2>2. 1 \in DOMAIN q BY <1>1, <1>3
  <2> QED BY <2>1, <2>2, <1>4 DEF Entry, Good, OneEntryQ
<1>6. SortedQ(r) BY <1>4 DEF Good, SortedQ
<1>7. OneEntryQ(r) BY <1>4 DEF Good, OneEntryQ
<1>8. NoOvertakingQ(r, ov2)
  <2> SUFFICES ASSUME NEW i \in DOMAIN r, NEW k \in DOMAIN r, r[i].job \in ov2[r[k].job]
               PROVE  k < i
    BY DEF NoOvertakingQ
  <2>1. r[i].job \in ov[r[k].job]
    BY <1>3, <1>5
  <2>2. k + 1 < i + 1
    BY <2>1, <1>4 DEF Good, NoOvertakingQ
  <2> QED BY <2>2, <1>4
<1>9. WaitersDueQ(r, ov2, t)
  BY DEF WaitersDueQ, r
<1>10. ~Queued(r, Head(q).job)
  BY <1>3, <1>5 DEF Queued
<1> QED BY <1>2, <1>6, <1>7, <1>8, <1>9, <1>10 DEF Good, r

-----------------------------------------------------------------------------
(* A pass that is in a callback knows which one, reads a clock that does   *)
(* not run backwards, and never starts once the browser is quitting.       *)
RunState ==
    /\ pc = "callback" <=> callback # None
    /\ now <= ticks
    /\ macos9_quitting => pc = "idle"

(* The inductive invariant: WaitersDueQ is what makes NoOvertaking survive *)
(* an insertion, since a new entry is due now or later.                    *)
SchedIInv == SchedTypeOK /\ Good(sched_queue, overtaken, ticks) /\ RunState

LEMMA ToTicksNat == ASSUME NEW t \in Nat PROVE ToTicks(t) \in Nat
BY DEF ToTicks

LEMMA SchedInitIInv == SchedInit => SchedIInv
<1> SUFFICES ASSUME SchedInit PROVE SchedIInv
  OBVIOUS
<1>1. sched_queue \in Seq(Entry) /\ DOMAIN sched_queue = {}
  BY EmptySeq DEF SchedInit
<1>2. Good(sched_queue, overtaken, ticks)
  BY <1>1 DEF Good, SortedQ, OneEntryQ, NoOvertakingQ, WaitersDueQ
<1>3. RunState
  BY NoneAssumption DEF SchedInit, RunState
<1> QED BY <1>1, <1>2, <1>3 DEF SchedInit, SchedIInv, SchedTypeOK

(* Forgetting who overtook a job that is no longer, or newly, queued.      *)
LEMMA ForgetGood ==
    ASSUME NEW q, NEW ov \in [Jobs -> SUBSET Jobs], NEW t \in Nat, NEW job \in Jobs,
           Good(q, ov, t)
    PROVE  Good(q, [ov EXCEPT ![job] = {}], t)
<1> DEFINE ov2 == [ov EXCEPT ![job] = {}]
<1>1. \A j \in Jobs : ov2[j] \subseteq ov[j]
  OBVIOUS
<1>2. q \in Seq(Entry) BY DEF Good
<1>3. \A i \in DOMAIN q : q[i] \in Entry BY <1>2, ElementOfSeq
<1>4. \A i \in DOMAIN q : q[i].job \in Jobs BY <1>3 DEF Entry
<1> HIDE DEF ov2
<1>5. NoOvertakingQ(q, ov2) BY <1>1, <1>4 DEF Good, NoOvertakingQ
<1>6. WaitersDueQ(q, ov2, t) BY <1>1, <1>4 DEF Good, WaitersDueQ
<1> QED BY <1>5, <1>6 DEF Good, ov2

(* The exported pair is typed whatever well-formed queue it is read from.  *)
LEMMA UpdateTyped ==
    ASSUME NEW q \in Seq(Entry), macos9_sched_time \in Nat, sched_update_state(q)
    PROVE  macos9_sched_active' \in BOOLEAN /\ macos9_sched_time' \in Nat
<1>1. q # <<>> => Head(q) \in Entry BY HeadTailProperties
<1> QED BY <1>1 DEF sched_update_state, Entry

LEMMA SchedNextIInv == SchedIInv /\ [SchedNext]_schedVars => SchedIInv'
<1> SUFFICES ASSUME SchedIInv, [SchedNext]_schedVars PROVE SchedIInv'
  OBVIOUS
<1> USE DEF SchedIInv
<1>0. /\ overtaken \in [Jobs -> SUBSET Jobs] /\ ticks \in Nat /\ sched_queue \in Seq(Entry)
      /\ macos9_sched_time \in Nat
  BY DEF SchedTypeOK
<1>1. ASSUME NEW job \in Jobs, NEW t \in Millis, Schedule(t, job) PROVE SchedIInv'
  <2> DEFINE q == sched_remove(sched_queue, job)
             due == ticks + ToTicks(t)
             e == [time |-> due, job |-> job]
             ov == [overtaken EXCEPT ![job] = {}]
  <2>1. PICK n \in 0..Len(q) : WalkStops(q, due, n) /\ sched_queue' = InsertAt(q, n + 1, e)
    BY <1>1 DEF Schedule
  <2>2. due \in Nat /\ due >= ticks
    <3>1. t \in Nat BY MillisAssumption
    <3>2. ToTicks(t) \in Nat BY <3>1, ToTicksNat
    <3> QED BY <1>0, <3>2
  <2>3. Good(q, overtaken, ticks) /\ ~Queued(q, job)
    BY <1>0, RemoveGood
  <2>4. ov \in [Jobs -> SUBSET Jobs] /\ ov[job] = {}
    BY <1>0
  <2> HIDE DEF q, due, ov
  <2>5. Good(q, ov, ticks)
    BY <1>0, <2>3, ForgetGood DEF ov
  <2>6. Good(sched_queue', ov, ticks)
    BY <1>0, <2>1, <2>2, <2>3, <2>4, <2>5, InsertGood
  <2>7. /\ overtaken' = ov
        /\ UNCHANGED <<ticks, macos9_quitting, pc, now, callback>>
        /\ sched_update_state(sched_queue')
    BY <1>1 DEF Schedule, ov, runVars
  <2>8. macos9_sched_active' \in BOOLEAN /\ macos9_sched_time' \in Nat
    BY <2>6, <2>7, <1>0, UpdateTyped DEF Good
  <2> QED BY <2>4, <2>6, <2>7, <2>8 DEF SchedTypeOK, RunState, Good
<1>2. ASSUME NEW job \in Jobs, ScheduleNoMem(job) PROVE SchedIInv'
  <2> DEFINE q == sched_remove(sched_queue, job)
             ov == [overtaken EXCEPT ![job] = {}]
  <2>1. Good(q, overtaken, ticks)
    BY <1>0, RemoveGood
  <2>2. ov \in [Jobs -> SUBSET Jobs]
    BY <1>0
  <2>3. Good(q, ov, ticks)
    BY <1>0, <2>1, ForgetGood
  <2>4. /\ sched_queue' = q /\ overtaken' = ov
        /\ UNCHANGED <<macos9_sched_active, macos9_sched_time, ticks, macos9_quitting, pc, now, callback>>
    BY <1>2 DEF ScheduleNoMem, exported, runVars
  <2> HIDE DEF q, ov
  <2> QED BY <2>2, <2>3, <2>4 DEF SchedTypeOK, RunState, Good
<1>3. ASSUME NEW job \in Jobs, Cancel(job) PROVE SchedIInv'
  <2> DEFINE q == sched_remove(sched_queue, job)
             ov == [overtaken EXCEPT ![job] = {}]
  <2>1. Good(q, overtaken, ticks)
    BY <1>0, RemoveGood
  <2>2. ov \in [Jobs -> SUBSET Jobs]
    BY <1>0
  <2>3. Good(q, ov, ticks)
    BY <1>0, <2>1, ForgetGood
  <2>4. /\ sched_queue' = q /\ overtaken' = ov /\ sched_update_state(sched_queue')
        /\ UNCHANGED <<ticks, macos9_quitting, pc, now, callback>>
    BY <1>3 DEF Cancel, runVars
  <2> HIDE DEF q, ov
  <2>5. macos9_sched_active' \in BOOLEAN /\ macos9_sched_time' \in Nat
    BY <2>3, <2>4, <1>0, UpdateTyped DEF Good
  <2> QED BY <2>2, <2>3, <2>4, <2>5 DEF SchedTypeOK, RunState, Good
<1>4. CASE RunBegin
  BY <1>4 DEF RunBegin, exported, SchedTypeOK, RunState, Good, SortedQ, OneEntryQ, NoOvertakingQ, WaitersDueQ
<1>5. CASE RunPop
  <2> DEFINE job == Head(sched_queue).job
             r == Tail(sched_queue)
             waiting == {r[i].job : i \in {k \in DOMAIN r : r[k].time <= ticks}}
             ov == [j \in Jobs |-> IF j \in waiting THEN overtaken[j] \cup {job} ELSE {}]
  <2>1. /\ pc = "loop" /\ sched_queue # <<>>
        /\ sched_queue' = r /\ callback' = job /\ pc' = "callback" /\ overtaken' = ov
        /\ UNCHANGED <<macos9_sched_active, macos9_sched_time, ticks, macos9_quitting, now>>
    BY <1>5 DEF RunPop, HeadIsDue, exported
  <2>2. Head(sched_queue) \in Entry
    BY <1>0, <2>1, HeadTailProperties
  <2>3. job \in Jobs
    BY <2>2 DEF Entry
  <2>4. r \in Seq(Entry)
    BY <1>0, <2>1, HeadTailProperties
  <2>5. \A k \in DOMAIN r : r[k] \in Entry
    BY <2>4, ElementOfSeq
  <2> HIDE DEF job
  <2>6. ov \in [Jobs -> SUBSET Jobs] /\ \A j \in Jobs : ov[j] \subseteq overtaken[j] \cup {job}
    BY <1>0, <2>3
  <2>7. \A k \in DOMAIN r : ov[r[k].job] # {} => r[k].time <= ticks
    <3> SUFFICES ASSUME NEW k \in DOMAIN r, ov[r[k].job] # {} PROVE r[k].time <= ticks
      OBVIOUS
    <3>1. r[k].job \in Jobs
      BY <2>5 DEF Entry
    <3>2. r[k].job \in waiting
      BY <3>1
    <3>3. PICK i \in DOMAIN r : r[i].time <= ticks /\ r[i].job = r[k].job
      BY <3>2
    <3>4. Len(r) = Len(sched_queue) - 1 /\ \A m \in 1..Len(r) : r[m] = sched_queue[m + 1]
      BY <1>0, <2>1, HeadTailProperties
    <3> HIDE DEF r
    <3>5. DOMAIN r = 1..Len(r) /\ DOMAIN sched_queue = 1..Len(sched_queue) /\ Len(sched_queue) \in Nat
      BY <1>0, <2>4, LenProperties
    <3>6. i + 1 \in DOMAIN sched_queue /\ k + 1 \in DOMAIN sched_queue
      BY <3>4, <3>5
    <3>7. i + 1 = k + 1
      BY <3>3, <3>4, <3>5, <3>6 DEF Good, OneEntryQ
    <3> QED BY <3>3, <3>5, <3>7
  <2> HIDE DEF ov
  <2>8. Good(r, ov, ticks)
    BY <1>0, <2>1, <2>6, <2>7, PopGood DEF job
  <2> QED BY <2>1, <2>3, <2>6, <2>8, NoneAssumption DEF SchedTypeOK, RunState, Good
<1>6. CASE CallbackReturn
  BY <1>6 DEF CallbackReturn, exported, SchedTypeOK, RunState, Good, SortedQ, OneEntryQ, NoOvertakingQ, WaitersDueQ
<1>7. CASE RunEnd
  <2>1. macos9_sched_active' \in BOOLEAN /\ macos9_sched_time' \in Nat
    BY <1>0, <1>7, UpdateTyped DEF RunEnd
  <2> QED BY <1>7, <2>1 DEF RunEnd, SchedTypeOK, RunState
<1>8. CASE Quit
  BY <1>8 DEF Quit, exported, runVars, SchedTypeOK, RunState
<1>9. CASE TickCountAdvances
  <2>1. WaitersDueQ(sched_queue, overtaken, ticks + 1)
    <3>1. \A k \in DOMAIN sched_queue : sched_queue[k] \in Entry
      BY <1>0, ElementOfSeq
    <3>2. \A k \in DOMAIN sched_queue : sched_queue[k].time \in Nat
      BY <3>1 DEF Entry
    <3>3. \A k \in DOMAIN sched_queue : overtaken[sched_queue[k].job] # {} => sched_queue[k].time <= ticks
      BY DEF Good, WaitersDueQ
    <3>4. \A k \in DOMAIN sched_queue : sched_queue[k].time <= ticks => sched_queue[k].time <= ticks + 1
      BY <1>0, <3>2
    <3> QED BY <3>3, <3>4 DEF WaitersDueQ
  <2> QED BY <1>9, <2>1, <1>0 DEF TickCountAdvances, exported, runVars, SchedTypeOK, RunState, Good
<1>10. CASE UNCHANGED schedVars
  BY <1>10 DEF schedVars, exported, runVars, SchedTypeOK, RunState
<1> QED BY <1>1, <1>2, <1>3, <1>4, <1>5, <1>6, <1>7, <1>8, <1>9, <1>10 DEF SchedNext

(* schedule.c's invariants hold in every reachable state.                  *)
THEOREM SchedulerInvariant == SchedSpec => []SchedIInv
BY SchedInitIInv, SchedNextIInv, PTL DEF SchedSpec

(* The queue and the exported state are well formed.                       *)
THEOREM SchedulerTypes == SchedSpec => []SchedTypeOK
<1>1. SchedIInv => SchedTypeOK BY DEF SchedIInv
<1> QED BY SchedulerInvariant, <1>1, PTL

(* The list is well formed: typed, sorted by due tick, and each            *)
(* callback/parameter pair is in it at most once.                          *)
THEOREM SchedulerQueue == SchedSpec => []QueueSound
<1>1. SchedIInv => QueueSound
  BY DEF SchedIInv, Good, SortedQ, OneEntryQ, Sorted, OneEntryPerJob, QueueSound
<1> QED BY SchedulerInvariant, <1>1, PTL

(* A job that re-arms itself from its own callback does not get ahead of a *)
(* job that was due before it, so a 0-tick poller starves nobody.          *)
THEOREM SchedulerNoOvertaking == SchedSpec => []NoOvertaking
<1>1. SchedIInv => NoOvertaking
  BY DEF SchedIInv, Good, NoOvertakingQ, NoOvertaking
<1> QED BY SchedulerInvariant, <1>1, PTL

-----------------------------------------------------------------------------
(* The refinement: the list, read as a map from jobs to due ticks.         *)
Has(q, x) == \E i \in DOMAIN q : q[i] = x

Due(q, job) ==
    IF Queued(q, job) THEN q[CHOOSE i \in DOMAIN q : q[i].job = job].time ELSE None

(* With one entry per job, the map is determined by which entries occur.   *)
LEMMA DueOfEntry ==
    ASSUME NEW q, OneEntryQ(q), NEW x, Has(q, x)
    PROVE  Due(q, x.job) = x.time /\ Queued(q, x.job)
<1> DEFINE c == CHOOSE i \in DOMAIN q : q[i].job = x.job
<1>1. PICK i \in DOMAIN q : q[i] = x BY DEF Has
<1>2. Queued(q, x.job) BY <1>1 DEF Queued
<1>3. c \in DOMAIN q /\ q[c].job = x.job BY <1>1
<1>4. c = i BY <1>1, <1>3 DEF OneEntryQ
<1> HIDE DEF c
<1>5. Due(q, x.job) = q[c].time BY <1>2 DEF Due, c
<1> QED BY <1>1, <1>2, <1>4, <1>5

LEMMA DueOfOther ==
    ASSUME NEW q, NEW job, ~Queued(q, job)
    PROVE  Due(q, job) = None
BY DEF Due

(* Two lists with the same entries for a job map it to the same tick.      *)
LEMMA SameDue ==
    ASSUME NEW q, NEW r, OneEntryQ(q), OneEntryQ(r), NEW job,
           \A x : x.job = job => (Has(q, x) <=> Has(r, x))
    PROVE  Due(q, job) = Due(r, job)
<1>1. CASE Queued(q, job)
  <2>1. PICK i \in DOMAIN q : q[i].job = job BY <1>1 DEF Queued
  <2> DEFINE x == q[i]
  <2>2. Has(q, x) BY <2>1 DEF Has
  <2> HIDE DEF x
  <2>3. x.job = job BY <2>1 DEF x
  <2>4. Has(r, x) BY <2>2, <2>3
  <2>5. Due(q, x.job) = x.time BY <2>2, DueOfEntry
  <2>6. Due(r, x.job) = x.time BY <2>4, DueOfEntry
  <2> QED BY <2>3, <2>5, <2>6
<1>2. CASE ~Queued(q, job)
  <2>1. ~Queued(r, job)
    <3> SUFFICES ASSUME Queued(r, job) PROVE FALSE
      OBVIOUS
    <3>1. PICK i \in DOMAIN r : r[i].job = job BY DEF Queued
    <3>2. Has(r, r[i]) BY DEF Has
    <3>3. Has(q, r[i]) BY <3>1, <3>2
    <3> QED BY <3>1, <3>3, <1>2 DEF Has, Queued
  <2> QED BY <1>2, <2>1, DueOfOther
<1> QED BY <1>1, <1>2

(* What unlinking one job does to the entries.                             *)
LEMMA RemoveEntries ==
    ASSUME NEW q \in Seq(Entry), NEW job \in Jobs, OneEntryQ(q), NEW x, x.job # job
    PROVE  Has(sched_remove(q, job), x) <=> Has(q, x)
<1>1. CASE ~Queued(q, job)
  BY <1>1 DEF sched_remove
<1>2. CASE Queued(q, job)
  <2> DEFINE n == CHOOSE i \in DOMAIN q : q[i].job = job
             r == RemoveAt(q, n)
  <2>1. n \in DOMAIN q /\ q[n].job = job
    BY <1>2 DEF Queued
  <2>2. DOMAIN q = 1..Len(q) /\ Len(q) \in Nat
    BY LenProperties
  <2>3. sched_remove(q, job) = r
    BY <1>2 DEF sched_remove
  <2> HIDE DEF n
  <2>4. /\ r \in Seq(Entry)
        /\ Len(r) = Len(q) - 1
        /\ \A i \in 1..Len(q) - 1 : r[i] = IF i < n THEN q[i] ELSE q[i + 1]
    BY <2>1, <2>2, RemoveAtElements
  <2> HIDE DEF r
  <2>5. DOMAIN r = 1..Len(q) - 1
    BY <2>4, LenProperties
  <2>6. ASSUME Has(r, x) PROVE Has(q, x)
    <3>1. PICK i \in DOMAIN r : r[i] = x BY <2>6 DEF Has
    <3>2. i \in DOMAIN q /\ i + 1 \in DOMAIN q BY <2>2, <2>5
    <3>3. x = q[i] \/ x = q[i + 1] BY <3>1, <2>4, <2>5
    <3> QED BY <3>2, <3>3 DEF Has
  <2>7. ASSUME Has(q, x) PROVE Has(r, x)
    <3>1. PICK i \in DOMAIN q : q[i] = x BY <2>7 DEF Has
    <3>2. i # n BY <3>1, <2>1
    <3>3. CASE i < n
      <4>1. i \in DOMAIN r BY <3>3, <2>1, <2>2, <2>5
      <4>2. r[i] = q[i] BY <4>1, <3>3, <2>4, <2>5
      <4> QED BY <3>1, <4>1, <4>2 DEF Has
    <3>4. CASE i > n
      <4>1. i - 1 \in DOMAIN r /\ ~(i - 1 < n) /\ (i - 1) + 1 = i BY <3>4, <2>1, <2>2, <2>5
      <4>2. r[i - 1] = q[(i - 1) + 1] BY <4>1, <2>4, <2>5
      <4> QED BY <3>1, <4>1, <4>2 DEF Has
    <3> QED BY <3>2, <3>3, <3>4, <2>1, <2>2
  <2> QED BY <2>3, <2>6, <2>7
<1> QED BY <1>1, <1>2

(* What linking a new entry does to the entries.                           *)
LEMMA InsertEntries ==
    ASSUME NEW q \in Seq(Entry), NEW e \in Entry, NEW n \in 0..Len(q), NEW x
    PROVE  Has(InsertAt(q, n + 1, e), x) <=> (x = e \/ Has(q, x))
<1> DEFINE r == InsertAt(q, n + 1, e)
<1>1. r \in Seq(Entry) BY InsertAtElements
<1>2. Len(r) = Len(q) + 1 BY InsertAtElements
<1>3. \A i \in 1..n : r[i] = q[i] BY InsertAtElements
<1>4. r[n + 1] = e BY InsertAtElements
<1>5. \A i \in n + 1..Len(q) : r[i + 1] = q[i] BY InsertAtElements
<1> HIDE DEF r
<1>6. DOMAIN q = 1..Len(q) /\ Len(q) \in Nat /\ DOMAIN r = 1..Len(q) + 1
  BY <1>1, <1>2, LenProperties
<1>7. ASSUME Has(r, x) PROVE x = e \/ Has(q, x)
  <2>1. PICK i \in DOMAIN r : r[i] = x BY <1>7 DEF Has
  <2>2. CASE i <= n
    <3>1. i \in DOMAIN q /\ q[i] = x BY <2>1, <2>2, <1>3, <1>6
    <3> QED BY <3>1 DEF Has
  <2>3. CASE i = n + 1
    BY <2>1, <2>3, <1>4
  <2>4. CASE i > n + 1
    <3>1. i - 1 \in n + 1..Len(q) /\ (i - 1) + 1 = i /\ i - 1 \in DOMAIN q BY <2>4, <1>6
    <3>2. r[(i - 1) + 1] = q[i - 1] BY <3>1, <1>5
    <3> QED BY <2>1, <3>1, <3>2 DEF Has
  <2> QED BY <2>2, <2>3, <2>4, <1>6
<1>8. ASSUME x = e PROVE Has(r, x)
  <2>1. n + 1 \in DOMAIN r BY <1>6
  <2> QED BY <2>1, <1>4, <1>8 DEF Has
<1>9. ASSUME Has(q, x) PROVE Has(r, x)
  <2>1. PICK i \in DOMAIN q : q[i] = x BY <1>9 DEF Has
  <2>2. CASE i <= n
    <3>1. i \in DOMAIN r /\ r[i] = x BY <2>1, <2>2, <1>3, <1>6
    <3> QED BY <3>1 DEF Has
  <2>3. CASE i > n
    <3>1. i \in n + 1..Len(q) /\ i + 1 \in DOMAIN r BY <2>3, <1>6
    <3>2. r[i + 1] = q[i] BY <3>1, <1>5
    <3> QED BY <2>1, <3>1, <3>2 DEF Has
  <2> QED BY <2>2, <2>3, <1>6
<1> QED BY <1>7, <1>8, <1>9 DEF r

(* What unlinking the head does to the entries.                            *)
LEMMA TailEntries ==
    ASSUME NEW q \in Seq(Entry), q # <<>>, NEW x, x.job # Head(q).job
    PROVE  Has(Tail(q), x) <=> Has(q, x)
<1> DEFINE r == Tail(q)
<1>1. /\ r \in Seq(Entry)
      /\ Len(r) = Len(q) - 1
      /\ \A i \in 1..Len(r) : r[i] = q[i + 1]
  BY HeadTailProperties
<1>2. Head(q) = q[1] OBVIOUS
<1> HIDE DEF r
<1>3. DOMAIN q = 1..Len(q) /\ Len(q) \in Nat /\ DOMAIN r = 1..Len(q) - 1
  BY <1>1, LenProperties
<1>4. ASSUME Has(r, x) PROVE Has(q, x)
  <2>1. PICK i \in DOMAIN r : r[i] = x BY <1>4 DEF Has
  <2>2. i + 1 \in DOMAIN q /\ r[i] = q[i + 1] BY <1>1, <1>3
  <2> QED BY <2>1, <2>2 DEF Has
<1>5. ASSUME Has(q, x) PROVE Has(r, x)
  <2>1. PICK i \in DOMAIN q : q[i] = x BY <1>5 DEF Has
  <2>2. i # 1 BY <2>1, <1>2
  <2>3. i - 1 \in DOMAIN r /\ (i - 1) + 1 = i BY <2>2, <1>3
  <2>4. r[i - 1] = q[(i - 1) + 1] BY <2>3, <1>1, <1>3
  <2> QED BY <2>1, <2>3, <2>4 DEF Has
<1> QED BY <1>4, <1>5 DEF r

(* The map after a job has been unlinked: that job alone has no timer.     *)
LEMMA RemoveDue ==
    ASSUME NEW q, NEW ov \in [Jobs -> SUBSET Jobs], NEW t \in Nat, Good(q, ov, t),
           NEW job \in Jobs, NEW j \in Jobs
    PROVE  Due(sched_remove(q, job), j) = IF j = job THEN None ELSE Due(q, j)
<1> DEFINE r == sched_remove(q, job)
<1>1. Good(r, ov, t) /\ ~Queued(r, job) BY RemoveGood
<1>2. q \in Seq(Entry) /\ OneEntryQ(q) BY DEF Good
<1>3. \A x : x.job # job => (Has(r, x) <=> Has(q, x)) BY <1>2, RemoveEntries
<1> HIDE DEF r
<1>4. OneEntryQ(r) BY <1>1 DEF Good
<1>5. CASE j = job BY <1>1, <1>5, DueOfOther DEF r
<1>6. CASE j # job
  <2>1. \A x : x.job = j => (Has(q, x) <=> Has(r, x)) BY <1>3, <1>6
  <2>2. Due(q, j) = Due(r, j) BY <2>1, <1>2, <1>4, SameDue
  <2> QED BY <2>2, <1>6 DEF r
<1> QED BY <1>5, <1>6

LEMMA InitMap == SchedInit => Timers!MapInit
<1> SUFFICES ASSUME SchedInit PROVE Timers!MapInit
  OBVIOUS
<1>1. DOMAIN sched_queue = {} BY DEF SchedInit
<1>2. \A j \in Jobs : DueOf(j) = None BY <1>1 DEF DueOf, Queued
<1> QED BY <1>2 DEF SchedInit, Timers!MapInit

LEMMA NextMap == SchedIInv /\ [SchedNext]_schedVars => [Timers!MapNext]_(Timers!mapVars)
<1> SUFFICES ASSUME SchedIInv, [SchedNext]_schedVars PROVE [Timers!MapNext]_(Timers!mapVars)
  OBVIOUS
<1> DEFINE pend == [j \in Jobs |-> DueOf(j)]
<1>0. /\ overtaken \in [Jobs -> SUBSET Jobs] /\ ticks \in Nat /\ sched_queue \in Seq(Entry)
      /\ Good(sched_queue, overtaken, ticks) /\ OneEntryQ(sched_queue)
  BY DEF SchedTypeOK, SchedIInv, Good
<1>a. SchedIInv' BY SchedNextIInv
<1>b. OneEntryQ(sched_queue') BY <1>a DEF SchedIInv, Good
<1>c. \A j \in Jobs : DueOf(j) = Due(sched_queue, j) /\ DueOf(j)' = Due(sched_queue', j)
  BY DEF DueOf, Due
<1>1. ASSUME NEW job \in Jobs, NEW t \in Millis, Schedule(t, job) PROVE Timers!Arm(job)
  <2> DEFINE q == sched_remove(sched_queue, job)
             due == ticks + ToTicks(t)
             e == [time |-> due, job |-> job]
  <2>1. PICK n \in 0..Len(q) : WalkStops(q, due, n) /\ sched_queue' = InsertAt(q, n + 1, e)
    BY <1>1 DEF Schedule
  <2>2. due \in Nat /\ due >= ticks
    <3>1. t \in Nat BY MillisAssumption
    <3>2. ToTicks(t) \in Nat BY <3>1, ToTicksNat
    <3> QED BY <1>0, <3>2
  <2>3. Good(q, overtaken, ticks) BY <1>0, RemoveGood
  <2>4. \A j \in Jobs : Due(q, j) = IF j = job THEN None ELSE Due(sched_queue, j)
    BY <1>0, RemoveDue
  <2> HIDE DEF q, due
  <2>5. e \in Entry /\ e.job = job /\ e.time = due BY <2>2 DEF Entry
  <2> HIDE DEF e
  <2>6. q \in Seq(Entry) /\ OneEntryQ(q) BY <2>3 DEF Good
  <2>7. \A x : Has(sched_queue', x) <=> (x = e \/ Has(q, x))
    BY <2>1, <2>5, <2>6, InsertEntries
  <2>8. Due(sched_queue', job) = due
    BY <2>5, <2>7, <1>b, DueOfEntry
  <2>9. ASSUME NEW j \in Jobs, j # job PROVE Due(sched_queue', j) = Due(sched_queue, j)
    <3>1. \A x : x.job = j => (Has(q, x) <=> Has(sched_queue', x)) BY <2>5, <2>7, <2>9
    <3>2. Due(q, j) = Due(sched_queue', j) BY <3>1, <2>6, <1>b, SameDue
    <3> QED BY <3>2, <2>4, <2>9
  <2>10. pend' = [pend EXCEPT ![job] = due]
    BY <1>c, <2>8, <2>9
  <2>11. pend'[job] = due BY <2>10
  <2> QED BY <1>1, <2>2, <2>10, <2>11 DEF Schedule, Timers!Arm, runVars
<1>2. ASSUME NEW job \in Jobs, sched_queue' = sched_remove(sched_queue, job),
             UNCHANGED <<ticks, macos9_quitting, callback>>
      PROVE  Timers!Disarm(job)
  <2>1. \A j \in Jobs : Due(sched_queue', j) = IF j = job THEN None ELSE Due(sched_queue, j)
    BY <1>0, <1>2, RemoveDue
  <2>2. pend' = [pend EXCEPT ![job] = None]
    BY <1>c, <2>1
  <2> QED BY <1>2, <2>2 DEF Timers!Disarm
<1>3. ASSUME NEW job \in Jobs, ScheduleNoMem(job) \/ Cancel(job) PROVE Timers!Disarm(job)
  BY <1>2, <1>3 DEF ScheduleNoMem, Cancel, runVars
<1>4. CASE RunPop
  <2> DEFINE h == Head(sched_queue)
             job == h.job
  <2>1. /\ pc = "loop" /\ sched_queue # <<>> /\ h.time <= now
        /\ sched_queue' = Tail(sched_queue) /\ callback' = job
        /\ UNCHANGED <<ticks, macos9_quitting>>
    BY <1>4 DEF RunPop, HeadIsDue
  <2>2. h \in Entry BY <1>0, <2>1, HeadTailProperties
  <2>3. job \in Jobs /\ h.time \in Nat BY <2>2 DEF Entry
  <2>4. 1 \in DOMAIN sched_queue /\ h = sched_queue[1]
    BY <1>0, <2>1, EmptySeq, LenProperties
  <2>5. Has(sched_queue, h) BY <2>4 DEF Has
  <2> HIDE DEF h
  <2>6. Due(sched_queue, job) = h.time BY <2>5, <1>0, DueOfEntry
  <2>7. callback = None /\ ~macos9_quitting /\ h.time <= ticks
    <3>1. now \in Nat /\ now <= ticks /\ callback = None /\ ~macos9_quitting
      BY <2>1 DEF SchedIInv, RunState, SchedTypeOK
    <3> QED BY <3>1, <2>1, <2>3, <1>0
  <2>8. ASSUME NEW k \in Jobs, Due(sched_queue, k) # None
        PROVE  h.time <= Due(sched_queue, k)
    <3>1. Queued(sched_queue, k) BY <2>8, DueOfOther
    <3>2. PICK i \in DOMAIN sched_queue : sched_queue[i].job = k BY <3>1 DEF Queued
    <3>3. Has(sched_queue, sched_queue[i]) BY DEF Has
    <3>4. Due(sched_queue, k) = sched_queue[i].time BY <3>2, <3>3, <1>0, DueOfEntry
    <3>5. 1 <= i BY <1>0, LenProperties
    <3> QED BY <3>4, <3>5, <2>4 DEF SchedIInv, Good, SortedQ
  <2>9. ~Queued(sched_queue', job)
    <3>1. overtaken' \in [Jobs -> SUBSET Jobs] BY <1>a DEF SchedIInv, SchedTypeOK
    <3>2. Len(Tail(sched_queue)) = Len(sched_queue) - 1 /\ Tail(sched_queue) \in Seq(Entry)
          /\ \A i \in 1..Len(Tail(sched_queue)) : Tail(sched_queue)[i] = sched_queue[i + 1]
      BY <1>0, <2>1, HeadTailProperties
    <3> DEFINE r == Tail(sched_queue)
    <3> HIDE DEF r
    <3>3. \A i \in DOMAIN r : i + 1 \in DOMAIN sched_queue /\ i + 1 # 1 /\ r[i] = sched_queue[i + 1]
      BY <3>2, <1>0, LenProperties DEF r
    <3>4. \A i \in DOMAIN r : r[i].job # job
      BY <3>3, <2>4, <1>0 DEF OneEntryQ
    <3> QED BY <3>4, <2>1 DEF Queued, r
  <2>10. Due(sched_queue', job) = None BY <2>9, DueOfOther
  <2>11. ASSUME NEW j \in Jobs, j # job PROVE Due(sched_queue', j) = Due(sched_queue, j)
    <3>1. \A x : x.job # job => (Has(Tail(sched_queue), x) <=> Has(sched_queue, x))
      BY <1>0, <2>1, TailEntries DEF h
    <3>2. \A x : x.job = j => (Has(sched_queue, x) <=> Has(sched_queue', x))
      BY <3>1, <2>1, <2>11
    <3> QED BY <3>2, <1>0, <1>b, SameDue
  <2> HIDE DEF job
  <2>12. pend' = [pend EXCEPT ![job] = None]
    BY <1>c, <2>10, <2>11
  <2>13. pend[job] = h.time /\ h.time # None
    BY <1>c, <2>3, <2>6, NoneAssumption DEF job
  <2>14. \A k \in Jobs : pend[k] # None => pend[job] <= pend[k]
    BY <1>c, <2>8, <2>13
  <2>15. Timers!Fire(job)
    BY <2>1, <2>3, <2>7, <2>12, <2>13, <2>14 DEF Timers!Fire
  <2> QED BY <2>3, <2>15 DEF Timers!MapNext
<1>5. CASE UNCHANGED <<sched_queue, macos9_quitting, ticks, callback>>
  BY <1>5 DEF Timers!mapVars, DueOf, Queued
<1>6. CASE CallbackReturn
  BY <1>6 DEF CallbackReturn, Timers!MapNext, Timers!Return, DueOf, Queued
<1>7. CASE Quit
  BY <1>7 DEF Quit, Timers!MapNext, Timers!Stop, DueOf, Queued, runVars
<1>8. CASE TickCountAdvances
  BY <1>8 DEF TickCountAdvances, Timers!MapNext, Timers!Advance, DueOf, Queued, runVars
<1>9. CASE RunBegin \/ RunEnd \/ UNCHANGED schedVars
  BY <1>5, <1>9 DEF RunBegin, RunEnd, schedVars, runVars
<1> QED BY <1>1, <1>3, <1>4, <1>6, <1>7, <1>8, <1>9 DEF SchedNext, Timers!MapNext

(* schedule.c implements the timer map NetSurf's core relies on.           *)
THEOREM SchedulerImplementsTimerMap == SchedSpec => ImplementsTimerMap
BY InitMap, NextMap, SchedulerInvariant, PTL DEF SchedSpec, ImplementsTimerMap, Timers!MapSpec

-----------------------------------------------------------------------------
(* The script timers.                                                      *)


Listed(s) == Holds(timer_list, s)

(* Ids are given once, so no two slots have one; the callback of a timer   *)
(* is in its own heap's stash and in no other, and a closed heap's stash   *)
(* is empty.                                                               *)
IdsInv ==
    /\ \A s \in Slots : timer_arena[s].id < next_id
    /\ \A s \in Slots : timer_arena[s].live => timer_arena[s].id # 0
    /\ \A s, t \in Slots : timer_arena[s].id = timer_arena[t].id /\ timer_arena[s].id # 0 => s = t
    /\ \A i \in Ids : owner[i] <= made
    /\ \A h \in Heaps : \A i \in stash[h] : owner[i] = h
    /\ \A h \in Heaps \ heaps : stash[h] = {}

(* A live timer is pending, but for a one-shot timer whose callback runs;  *)
(* one that is not live is not pending, and if it is still listed its      *)
(* callback is gone.                                                       *)
FateInv ==
    \A s \in Slots :
       LET t == timer_arena[s] IN
       /\ t.live => \/ fate[t.id] = "pending"
                    \/ s = pump.slot /\ t.id = pump.id /\ ~t.repeating
       /\ ~t.live /\ t.id # 0 => fate[t.id] # "pending"
       /\ ~t.live /\ Listed(s) => \A h \in Heaps : t.id \notin stash[h]

(* The pump is in a heap that exists, and the clock is not behind it.  The *)
(* slot it is at was given to a new timer of this heap if it is listed; if *)
(* no callback was found, nothing has happened to it.                      *)
PumpInv ==
    /\ pump.on => global_heap # NoHeap /\ pump.now <= clock
    /\ pump.slot # NoSlot =>
          LET t == timer_arena[pump.slot] IN
          /\ pump.on /\ pump.id < next_id
          /\ Listed(pump.slot) => t.id # pump.id /\ t.id # 0 /\ owner[t.id] = global_heap
          /\ pump.called /\ t.live /\ t.id = pump.id /\ ~t.repeating => fate[t.id] = "fired"
          /\ ~pump.called => t.id = pump.id /\ t.id \notin stash[global_heap]

IInv == TimersSound /\ IdsInv /\ FateInv /\ PumpInv
-----------------------------------------------------------------------------
(* The slot that timer_alloc gives.                                        *)
LEMMA AllocSlot == TypeOK => timer_alloc \in Slots
<1> SUFFICES ASSUME TypeOK PROVE timer_alloc \in Slots
  OBVIOUS
<1> USE JSTimersAssumption
<1> DEFINE free == {s \in Slots : ~timer_arena[s].live}
           soonest == {s \in Slots : \A t \in Slots :
                          timer_arena[s].expiry <= timer_arena[t].expiry}
           times == {timer_arena[s].expiry : s \in Slots}
<1>1. Slots \subseteq Nat /\ 1 \in Slots
  BY DEF Slots
<1>2. times \in SUBSET Nat /\ times # {}
  BY <1>1 DEF TypeOK, Timer
<1>3. soonest # {}
  <2>1. Min(times) \in times /\ \A y \in times : Min(times) <= y
    <3> HIDE DEF times
    <3> QED BY <1>2, LeastOf
  <2>2. PICK s \in Slots : timer_arena[s].expiry = Min(times)
    BY <2>1
  <2>3. s \in soonest
    BY <2>1, <2>2
  <2> QED BY <2>3
<1> DEFINE T == IF free # {} THEN free ELSE soonest
<1>4. T \in SUBSET Nat /\ T # {} /\ T \subseteq Slots
  BY <1>1, <1>3
<1>5. timer_alloc = Min(T)
  BY DEF timer_alloc
<1> HIDE DEF T
<1> QED BY <1>4, <1>5, LeastOf

-----------------------------------------------------------------------------
(* The list by expiry.                                                     *)
Ordered(list, arena) ==
    \A i, j \in DOMAIN list : i < j => /\ list[i] # list[j]
                                       /\ arena[list[i]].expiry <= arena[list[j]].expiry

(* Such a list has no slot twice.                                          *)
LEMMA OrderedDistinct ==
    ASSUME NEW list \in Seq(Slots), NEW arena, Ordered(list, arena)
    PROVE  Distinct(list)
<1>1. DOMAIN list \subseteq Nat
  BY LenProperties
<1> SUFFICES ASSUME NEW i \in DOMAIN list, NEW j \in DOMAIN list, i # j
             PROVE  list[i] # list[j]
  BY DEF Distinct
<1>2. i < j \/ j < i
  BY <1>1
<1> QED BY <1>2 DEF Ordered

(* Unlinking a slot takes exactly that slot away.                          *)
LEMMA RemoveTimer ==
    ASSUME NEW list \in Seq(Slots), NEW arena, Ordered(list, arena), NEW s
    PROVE  /\ timer_list_remove(list, s) \in Seq(Slots)
           /\ Ordered(timer_list_remove(list, s), arena)
           /\ \A x : Holds(timer_list_remove(list, s), x) <=> Holds(list, x) /\ x # s
<1> DEFINE I == {i \in 1..Len(list) : list[i] = s}
           n == Min(I)
           r == RemoveAt(list, n)
<1>1. DOMAIN list = 1..Len(list) /\ Len(list) \in Nat
  BY LenProperties
<1>2. CASE I = {}
  <2>1. timer_list_remove(list, s) = list
    BY <1>2 DEF timer_list_remove, RemoveFirst
  <2>2. ~Holds(list, s)
    BY <1>1, <1>2 DEF Holds
  <2> QED BY <2>1, <2>2
<1>3. CASE I # {}
  <2>1. I \in SUBSET Nat
    BY <1>1
  <2>2. n \in I
    <3> HIDE DEF I
    <3> QED BY <1>3, <2>1, LeastOf
  <2>3. timer_list_remove(list, s) = r
    BY <1>3 DEF timer_list_remove, RemoveFirst, SelectInSeq
  <2>4. n \in DOMAIN list /\ list[n] = s
    BY <1>1, <2>2
  <2> HIDE DEF n
  <2>5. Distinct(list)
    BY OrderedDistinct
  <2>6. r \in Seq(Slots) /\ \A x : Holds(r, x) <=> Holds(list, x) /\ x # s
    BY <2>4, <2>5, RemoveDistinct
  <2>7. /\ Len(r) = Len(list) - 1
        /\ \A i \in 1..Len(list) - 1 : r[i] = IF i < n THEN list[i] ELSE list[i + 1]
    BY <1>1, <2>4, RemoveAtElements
  <2>8. Ordered(r, arena)
    <3> HIDE DEF r
    <3>1. DOMAIN r = 1..Len(list) - 1
      BY <2>6, <2>7, LenProperties
    <3> SUFFICES ASSUME NEW i \in DOMAIN r, NEW j \in DOMAIN r, i < j
                 PROVE  r[i] # r[j] /\ arena[r[i]].expiry <= arena[r[j]].expiry
      BY DEF Ordered
    <3> DEFINE a == IF i < n THEN i ELSE i + 1
               b == IF j < n THEN j ELSE j + 1
    <3>2. a \in DOMAIN list /\ b \in DOMAIN list /\ a < b
      BY <1>1, <2>4, <3>1
    <3>3. r[i] = list[a] /\ r[j] = list[b]
      BY <2>7, <3>1
    <3> HIDE DEF a, b
    <3> QED BY <3>2, <3>3 DEF Ordered
  <2> QED BY <2>3, <2>6, <2>8
<1> QED BY <1>2, <1>3

(* Inserting adds exactly that slot, wherever it was, at its new expiry.   *)
LEMMA InsertTimer ==
    ASSUME NEW list \in Seq(Slots), NEW arena \in [Slots -> Timer], Ordered(list, arena),
           NEW s \in Slots, NEW new \in [Slots -> Timer],
           \A t \in Slots : t # s => new[t].expiry = arena[t].expiry
    PROVE  /\ timer_list_insert(list, new, s) \in Seq(Slots)
           /\ Ordered(timer_list_insert(list, new, s), new)
           /\ \A x : Holds(timer_list_insert(list, new, s), x) <=> Holds(list, x) \/ x = s
<1> DEFINE q == timer_list_remove(list, s)
           later == {i \in DOMAIN q : new[q[i]].expiry > new[s].expiry}
           at == IF later = {} THEN Len(q) + 1 ELSE Min(later)
           n == at - 1
           r == InsertAt(q, n + 1, s)
<1>1. q \in Seq(Slots) /\ Ordered(q, arena) /\ \A x : Holds(q, x) <=> Holds(list, x) /\ x # s
  BY RemoveTimer
<1>2. timer_list_insert(list, new, s) = InsertAt(q, at, s)
  BY DEF timer_list_insert
<1> HIDE DEF q
<1>3. DOMAIN q = 1..Len(q) /\ Len(q) \in Nat /\ \A i \in DOMAIN q : q[i] \in Slots /\ q[i] # s
  BY <1>1, LenProperties, ElementOfSeq DEF Holds
<1>4. \A t \in Slots : new[t].expiry \in Nat
  BY DEF Timer
<1>5. Ordered(q, new)
  BY <1>1, <1>3 DEF Ordered
<1>6. /\ at \in 1..Len(q) + 1
      /\ at <= Len(q) => at \in later
      /\ \A i \in later : at <= i
  <2>1. CASE later = {}
    <3> DEFINE L == Len(q)
    <3>1. at = L + 1 /\ L \in Nat BY <2>1, <1>3
    <3>2. \A i \in later : at <= i BY <2>1
    <3> HIDE DEF at, later, L
    <3>3. at \in 1..L + 1 /\ ~(at <= L) BY <3>1
    <3>4. at \in 1..L + 1 /\ (at <= L => at \in later) BY <3>1, <3>3
    <3> QED BY <3>2, <3>4 DEF L
  <2>2. CASE later # {}
    <3>1. later \in SUBSET Nat /\ later \subseteq DOMAIN q
      BY <1>3
    <3>2. Min(later) \in later /\ \A i \in later : Min(later) <= i
      <4> HIDE DEF later
      <4> QED BY <2>2, <3>1, LeastOf
    <3>3. at = Min(later)
      BY <2>2
    <3> HIDE DEF at, later
    <3>4. at \in DOMAIN q /\ at \in later BY <3>1, <3>2, <3>3
    <3> QED BY <3>2, <3>3, <3>4, <1>3
  <2> HIDE DEF at, later
  <2> QED BY <2>1, <2>2
<1>7. /\ n \in 0..Len(q) /\ n + 1 = at
      /\ \A i \in 1..n : new[q[i]].expiry <= new[s].expiry
      /\ \A i \in n + 1..Len(q) : new[q[i]].expiry >= new[s].expiry
  <2>1. n \in 0..Len(q) /\ n + 1 = at
    <3> HIDE DEF at
    <3> QED BY <1>3, <1>6
  <2>2. ASSUME NEW i \in 1..n PROVE new[q[i]].expiry <= new[s].expiry
    <3>1. i \in DOMAIN q /\ i \notin later
      <4> HIDE DEF at, later
      <4> QED BY <1>3, <1>6, <2>1
    <3> QED BY <3>1, <1>3, <1>4
  <2>3. ASSUME NEW i \in n + 1..Len(q) PROVE new[q[i]].expiry >= new[s].expiry
    <3>1. at \in later /\ at \in DOMAIN q /\ i \in DOMAIN q /\ at <= i
      <4> HIDE DEF at, later
      <4> QED BY <1>3, <1>6, <2>1
    <3>2. new[q[at]].expiry > new[s].expiry
      <4> HIDE DEF at
      <4> QED BY <3>1
    <3> HIDE DEF at
    <3>3. new[q[at]].expiry <= new[q[i]].expiry
      <4>1. CASE at = i BY <4>1, <3>1, <1>3, <1>4
      <4>2. CASE at < i BY <4>2, <3>1, <1>5 DEF Ordered
      <4> QED BY <4>1, <4>2, <3>1, <1>3
    <3> QED BY <3>1, <3>2, <3>3, <1>3, <1>4
  <2> QED BY <2>1, <2>2, <2>3
<1>8. timer_list_insert(list, new, s) = r
  <2> HIDE DEF n
  <2> QED BY <1>2, <1>7
<1> HIDE DEF at, n
<1>9. /\ r \in Seq(Slots)
      /\ Len(r) = Len(q) + 1
      /\ \A i \in 1..n : r[i] = q[i]
      /\ r[n + 1] = s
      /\ \A i \in n + 1..Len(q) : r[i + 1] = q[i]
  <2> HIDE DEF later
  <2>1. q \in Seq(Slots) /\ n \in 0..Len(q) BY <1>1, <1>7
  <2>2. r \in Seq(Slots) BY <2>1, InsertAtElements
  <2>3. Len(r) = Len(q) + 1 BY <2>1, InsertAtElements
  <2>4. \A i \in 1..n : r[i] = q[i] BY <2>1, InsertAtElements
  <2>5. r[n + 1] = s BY <2>1, InsertAtElements
  <2>6. \A i \in n + 1..Len(q) : r[i + 1] = q[i] BY <2>1, InsertAtElements
  <2> QED BY <2>2, <2>3, <2>4, <2>5, <2>6
<1> HIDE DEF r
<1>10. DOMAIN r = 1..Len(q) + 1
  BY <1>9, LenProperties
<1>11. \A i \in DOMAIN r : i > n + 1 => i - 1 \in n + 1..Len(q) /\ r[i] = q[i - 1]
  <2> SUFFICES ASSUME NEW i \in DOMAIN r, i > n + 1
               PROVE  i - 1 \in n + 1..Len(q) /\ r[i] = q[i - 1]
    OBVIOUS
  <2>1. i - 1 \in n + 1..Len(q) /\ (i - 1) + 1 = i
    BY <1>3, <1>7, <1>10
  <2> QED BY <2>1, <1>9
<1>12. Ordered(r, new)
  <2> SUFFICES ASSUME NEW i \in DOMAIN r, NEW j \in DOMAIN r, i < j
               PROVE  r[i] # r[j] /\ new[r[i]].expiry <= new[r[j]].expiry
    BY DEF Ordered
  <2>0. n \in Nat /\ i \in Nat /\ j \in Nat BY <1>3, <1>7, <1>10
  <2>1. CASE j <= n
    <3>1. i \in 1..n /\ j \in 1..n /\ i \in DOMAIN q /\ j \in DOMAIN q
      BY <2>0, <2>1, <1>3, <1>7, <1>10
    <3>2. r[i] = q[i] /\ r[j] = q[j] BY <3>1, <1>9
    <3> QED BY <3>1, <3>2, <1>5 DEF Ordered
  <2>2. CASE j = n + 1
    <3>1. i \in 1..n /\ i \in DOMAIN q BY <2>0, <2>2, <1>3, <1>7, <1>10
    <3>2. r[i] = q[i] /\ r[j] = s BY <3>1, <2>2, <1>9
    <3> QED BY <3>1, <3>2, <1>3, <1>7
  <2>3. CASE j > n + 1
    <3>1. j - 1 \in n + 1..Len(q) /\ j - 1 \in DOMAIN q /\ r[j] = q[j - 1]
      BY <2>0, <2>3, <1>3, <1>7, <1>11
    <3>2. CASE i <= n
      <4>1. i \in 1..n /\ i \in DOMAIN q /\ i < j - 1 BY <3>2, <2>0, <2>3, <1>3, <1>7, <1>10
      <4>2. r[i] = q[i] BY <4>1, <1>9
      <4> QED BY <4>1, <4>2, <3>1, <1>5 DEF Ordered
    <3>3. CASE i = n + 1
      <4>1. r[i] = s BY <3>3, <1>9
      <4> QED BY <4>1, <3>1, <1>3, <1>4, <1>7
    <3>4. CASE i > n + 1
      <4>1. i - 1 \in DOMAIN q /\ r[i] = q[i - 1] /\ i - 1 < j - 1
        BY <3>4, <2>0, <1>3, <1>7, <1>11
      <4> QED BY <4>1, <3>1, <1>5 DEF Ordered
    <3> QED BY <3>2, <3>3, <3>4, <2>0
  <2> QED BY <2>0, <2>1, <2>2, <2>3
<1>13. ASSUME NEW x PROVE Holds(r, x) <=> Holds(list, x) \/ x = s
  <2>1. ASSUME Holds(r, x) PROVE Holds(q, x) \/ x = s
    <3>1. PICK i \in DOMAIN r : r[i] = x BY <2>1 DEF Holds
    <3>2. CASE i <= n
      <4>1. i \in 1..n /\ i \in DOMAIN q BY <3>2, <1>3, <1>7, <1>10
      <4> QED BY <4>1, <3>1, <1>9 DEF Holds
    <3>3. CASE i = n + 1 BY <3>1, <3>3, <1>9
    <3>4. CASE i > n + 1
      <4>1. i - 1 \in DOMAIN q /\ r[i] = q[i - 1] BY <3>4, <1>3, <1>7, <1>11
      <4> QED BY <4>1, <3>1 DEF Holds
    <3> QED BY <3>2, <3>3, <3>4, <1>7, <1>10
  <2>2. ASSUME Holds(q, x) PROVE Holds(r, x)
    <3>1. PICK i \in DOMAIN q : q[i] = x BY <2>2 DEF Holds
    <3>2. CASE i <= n
      <4>1. i \in 1..n /\ i \in DOMAIN r BY <3>2, <1>3, <1>7, <1>10
      <4> QED BY <4>1, <3>1, <1>9 DEF Holds
    <3>3. CASE i > n
      <4>1. i \in n + 1..Len(q) /\ i + 1 \in DOMAIN r BY <3>3, <1>3, <1>7, <1>10
      <4> QED BY <4>1, <3>1, <1>9 DEF Holds
    <3> QED BY <3>2, <3>3, <1>3, <1>7
  <2>3. Holds(r, s)
    <3>1. n + 1 \in DOMAIN r BY <1>3, <1>7, <1>10
    <3> QED BY <3>1, <1>9 DEF Holds
  <2> QED BY <2>1, <2>2, <2>3, <1>1
<1> QED BY <1>8, <1>9, <1>12, <1>13

-----------------------------------------------------------------------------
(* ListSound in these terms.                                               *)
LiveListed == \A s \in Slots : timer_arena[s].live => Listed(s) \/ s = pump.slot

LEMMA ListSoundRestated == ListSound <=> Ordered(timer_list, timer_arena) /\ LiveListed
  BY DEF ListSound, Ordered, LiveListed, Listed, Holds, Range

LEMMA ListSoundRestatedNext ==
    ListSound' <=> Ordered(timer_list', timer_arena') /\ LiveListed'
  BY DEF ListSound, Ordered, LiveListed, Listed, Holds, Range

LEMMA HeapsTyped == TypeOK => heaps \subseteq Heaps
<1> SUFFICES ASSUME TypeOK, NEW h \in heaps PROVE h \in Heaps
  OBVIOUS
<1>1. h \in 1..made /\ made \in 0..MaxHeaps
  BY DEF TypeOK
<1> QED BY <1>1, JSTimersAssumption DEF Heaps

(* A timer is set, in a slot that may be that of another timer, or of the  *)
(* one running.                                                            *)
LEMMA CreateStep ==
    ASSUME IInv, NEW h \in Heaps, NEW repeating \in BOOLEAN, NEW delay \in Delays,
           timer_create(h, repeating, delay)
    PROVE  IInv'
<1> USE JSTimersAssumption
<1> DEFINE s == timer_alloc
           old == timer_arena[s]
           dropped == IF old.live THEN {old.id} ELSE {}
           new == [id |-> next_id, expiry |-> clock + delay, repeating |-> repeating,
                   interval |-> delay, live |-> TRUE]
<1>1. TypeOK /\ ListSound /\ CallbackHeld /\ NoLeaks /\ IdsInv /\ FateInv /\ PumpInv
  BY DEF IInv, TimersSound
<1>2. s \in Slots
  BY <1>1, AllocSlot
<1>3. /\ MayRun(h) /\ next_id \in Ids
      /\ timer_arena' = [timer_arena EXCEPT ![s] = new]
      /\ timer_list' = timer_list_insert(timer_list, timer_arena', s)
      /\ next_id' = next_id + 1
      /\ stash' = [stash EXCEPT ![h] = (@ \ dropped) \cup {next_id}]
      /\ owner' = [owner EXCEPT ![next_id] = h]
      /\ fate' = [i \in Ids |-> IF i = next_id THEN "pending"
                                ELSE IF i \in dropped /\ fate[i] = "pending" THEN "evicted"
                                ELSE fate[i]]
      /\ strayed' = strayed \cup {i \in dropped : owner[i] # h}
      /\ UNCHANGED <<heaps, made, global_heap, clock, pump>>
  BY <1>1 DEF timer_create, Strays, TypeOK, Ids
<1>4. /\ new \in Timer /\ new.id = next_id /\ new.expiry = clock + delay
      /\ new.repeating = repeating /\ new.live = TRUE
  BY <1>1, <1>3 DEF TypeOK, Timer, Ids
<1>5. old \in Timer /\ (old.live => old.id \in 1..next_id - 1)
  BY <1>1, <1>2 DEF TypeOK, Timer, IdsInv
<1>6. dropped \subseteq Ids /\ next_id \notin dropped /\ dropped \subseteq {old.id}
  <2>1. CASE old.live
    <3>1. old.id \in 1..next_id - 1 /\ next_id \in 1..MaxId
      BY <2>1, <1>3, <1>5 DEF Ids
    <3>2. old.id \in Ids /\ old.id # next_id
      BY <3>1 DEF Ids
    <3> QED BY <2>1, <3>2, Zenon
  <2>2. CASE ~old.live
    BY <2>2, Zenon
  <2> QED BY <2>1, <2>2
<1> HIDE DEF s, new
<1>7. /\ timer_arena' \in [Slots -> Timer] /\ timer_arena'[s] = new
      /\ \A t \in Slots : t # s => timer_arena'[t] = timer_arena[t]
  BY <1>1, <1>2, <1>3, <1>4 DEF TypeOK
<1>8. /\ timer_list' \in Seq(Slots)
      /\ Ordered(timer_list', timer_arena')
      /\ \A x : Listed(x)' <=> Listed(x) \/ x = s
  <2>1. timer_list \in Seq(Slots) /\ Ordered(timer_list, timer_arena)
    BY <1>1, ListSoundRestated DEF TypeOK
  <2>2. timer_arena \in [Slots -> Timer]
    BY <1>1 DEF TypeOK
  <2>3. \A t \in Slots : t # s => timer_arena'[t].expiry = timer_arena[t].expiry
    BY <1>7
  <2> QED BY <1>2, <1>3, <1>7, <2>1, <2>2, <2>3, InsertTimer DEF Listed
<1>9. h \in heaps /\ (pump.slot # NoSlot => h = global_heap /\ pump.called)
  BY <1>1, <1>3 DEF MayRun, InCallback, PumpInv
<1>10. /\ \A g \in Heaps : g # h => stash'[g] = stash[g]
       /\ stash'[h] = (stash[h] \ dropped) \cup {next_id}
       /\ \A i \in Ids : i # next_id => owner'[i] = owner[i]
       /\ owner'[next_id] = h
       /\ fate'[next_id] = "pending"
       /\ \A i \in Ids : i # next_id => fate'[i] = fate[i] \/ (i \in dropped /\ fate'[i] = "evicted")
       /\ \A i \in Ids : i # next_id /\ i \notin dropped => fate'[i] = fate[i]
       /\ \A i \in Ids : i \in dropped => fate'[i] # "pending"
  <2>1. fate \in [Ids -> {"unmade", "pending", "fired", "cleared", "evicted", "lost"}]
        /\ stash \in [Heaps -> SUBSET (1..(next_id - 1))]
        /\ owner \in [Ids -> Heaps \cup {NoHeap}]
    BY <1>1 DEF TypeOK
  <2> HIDE DEF dropped
  <2>2. \A g \in Heaps : stash'[g] = IF g = h THEN (stash[h] \ dropped) \cup {next_id} ELSE stash[g]
    BY <1>3, <2>1
  <2>3. \A i \in Ids : owner'[i] = IF i = next_id THEN h ELSE owner[i]
    BY <1>3, <2>1
  <2>4. \A i \in Ids : fate'[i] = IF i = next_id THEN "pending"
                                ELSE IF i \in dropped /\ fate[i] = "pending" THEN "evicted"
                                ELSE fate[i]
    BY <1>3
  <2> QED BY <1>3, <1>6, <2>2, <2>3, <2>4
<1>11. \A t \in Slots : t # s => timer_arena[t].id \in 0..next_id - 1
                                 /\ (timer_arena[t].id # 0 => timer_arena[t].id # old.id)
                                 /\ timer_arena[t].id \notin dropped
  BY <1>1, <1>2, <1>5, SMTT(60) DEF TypeOK, Timer, IdsInv
<1>12. \A i \in dropped : i = old.id /\ old.live
  OBVIOUS
<1> HIDE DEF dropped, old
<1>13. TypeOK'
  <2>1. stash' \in [Heaps -> SUBSET (1..(next_id' - 1))]
    <3>1. stash \in [Heaps -> SUBSET (1..(next_id - 1))] /\ next_id \in Nat \ {0}
      BY <1>1 DEF TypeOK
    <3>2. \A g \in Heaps : stash'[g] \subseteq 1..next_id
      BY <3>1, <1>10
    <3>3. next_id' - 1 = next_id BY <3>1, <1>3
    <3> QED BY <1>3, <3>1, <3>2, <3>3
  <2>2. next_id' \in 1..MaxId + 1 BY <1>3 DEF Ids
  <2>3. owner' \in [Ids -> Heaps \cup {NoHeap}] BY <1>1, <1>3 DEF TypeOK
  <2>4. fate' \in [Ids -> {"unmade", "pending", "fired", "cleared", "evicted", "lost"}]
    BY <1>1, <1>3 DEF TypeOK
  <2>5. strayed' \subseteq Ids BY <1>1, <1>3, <1>6 DEF TypeOK
  <2> QED BY <1>1, <1>3, <1>7, <1>8, <2>1, <2>2, <2>3, <2>4, <2>5 DEF TypeOK
<1>14. ListSound'
  <2>1. LiveListed'
    BY <1>1, <1>3, <1>7, <1>8, ListSoundRestated DEF LiveListed
  <2> QED BY <2>1, <1>8, ListSoundRestatedNext
<1>15. CallbackHeld'
  <2> SUFFICES ASSUME NEW t \in Slots, timer_arena'[t].live, owner'[timer_arena'[t].id] \in heaps'
               PROVE  timer_arena'[t].id \in stash'[owner'[timer_arena'[t].id]]
    BY DEF CallbackHeld
  <2>1. CASE t = s
    BY <2>1, <1>4, <1>7, <1>10
  <2>2. CASE t # s
    <3>1. timer_arena'[t] = timer_arena[t] /\ timer_arena[t].id \in Ids
          /\ timer_arena[t].id # next_id /\ timer_arena[t].id \notin dropped
      BY <2>2, <1>1, <1>3, <1>7, <1>11, SMTT(60) DEF IdsInv, Ids, TypeOK
    <3>2. owner'[timer_arena[t].id] = owner[timer_arena[t].id]
      BY <3>1, <1>10
    <3>3. timer_arena[t].id \in stash[owner[timer_arena[t].id]]
      BY <3>1, <3>2, <1>1, <1>3 DEF CallbackHeld
    <3>4. owner[timer_arena[t].id] \in Heaps
      <4>1. owner[timer_arena[t].id] \in heaps BY <3>1, <3>2, <1>3
      <4> QED BY <4>1, <1>1, HeapsTyped
    <3> QED BY <3>1, <3>2, <3>3, <3>4, <1>10
  <2> QED BY <2>1, <2>2
<1>16. NoLeaks'
  <2> SUFFICES ASSUME NEW g \in heaps, NEW i \in stash'[g], i \notin strayed'
               PROVE  \E t \in Slots : timer_arena'[t].live /\ timer_arena'[t].id = i
    BY <1>3 DEF NoLeaks
  <2>0. g \in Heaps BY <1>1 DEF TypeOK, Heaps
  <2>1. CASE i = next_id
    BY <2>1, <1>2, <1>4, <1>7
  <2>2. CASE i # next_id
    <3>1. i \in stash[g] BY <2>0, <2>2, <1>10
    <3>2. i \notin strayed BY <1>3
    <3>3. PICK t \in Slots : timer_arena[t].live /\ timer_arena[t].id = i
      BY <3>1, <3>2, <1>1 DEF NoLeaks
    <3>4. t # s
      <4> SUFFICES ASSUME t = s PROVE FALSE OBVIOUS
      <4>1. i \in dropped BY <3>3 DEF dropped, old
      <4>2. owner[i] = h BY <4>1, <1>3
      <4>3. owner[i] = g BY <2>0, <3>1, <1>1 DEF IdsInv
      <4> QED BY <4>1, <4>2, <4>3, <2>2, <1>10
    <3> QED BY <3>3, <3>4, <1>7
  <2> QED BY <2>1, <2>2
<1>17. IdsInv'
  <2>0. next_id \in Nat \ {0} /\ next_id \in Ids BY <1>1, <1>3 DEF TypeOK
  <2>1. \A t \in Slots : timer_arena'[t].id < next_id'
    BY <2>0, <1>1, <1>3, <1>4, <1>7, <1>11
  <2>2. \A t \in Slots : timer_arena'[t].live => timer_arena'[t].id # 0
    BY <2>0, <1>1, <1>4, <1>7 DEF IdsInv
  <2>3. \A t, u \in Slots : timer_arena'[t].id = timer_arena'[u].id /\ timer_arena'[t].id # 0 => t = u
    BY <2>0, <1>1, <1>4, <1>7, <1>11 DEF IdsInv
  <2>4. \A i \in Ids : owner'[i] <= made'
    <3>1. h <= made BY <1>1, <1>9 DEF TypeOK
    <3> QED BY <3>1, <1>1, <1>3, <1>10 DEF IdsInv
  <2>5. \A g \in Heaps : \A i \in stash'[g] : owner'[i] = g
    <3> SUFFICES ASSUME NEW g \in Heaps, NEW i \in stash'[g] PROVE owner'[i] = g OBVIOUS
    <3>1. CASE i = next_id
      <4>1. g = h
        <5> SUFFICES ASSUME g # h PROVE FALSE OBVIOUS
        <5>1. i \in stash[g] /\ stash[g] \subseteq 1..(next_id - 1) BY <1>1, <1>10 DEF TypeOK
        <5> QED BY <5>1, <3>1, <2>0
      <4> QED BY <4>1, <3>1, <1>10
    <3>2. CASE i # next_id
      <4>1. i \in stash[g] BY <3>2, <1>10
      <4>2. i \in Ids BY <4>1, <2>0, <1>1 DEF TypeOK, Ids
      <4> QED BY <4>1, <4>2, <3>2, <1>1, <1>10 DEF IdsInv
    <3> QED BY <3>1, <3>2
  <2>6. \A g \in Heaps \ heaps' : stash'[g] = {}
    BY <1>1, <1>3, <1>9, <1>10 DEF IdsInv
  <2> QED BY <2>1, <2>2, <2>3, <2>4, <2>5, <2>6 DEF IdsInv
<1>18. FateInv'
  <2> SUFFICES ASSUME NEW t \in Slots
               PROVE  LET u == timer_arena'[t] IN
                      /\ u.live => \/ fate'[u.id] = "pending"
                                   \/ t = pump'.slot /\ u.id = pump'.id /\ ~u.repeating
                      /\ ~u.live /\ u.id # 0 => fate'[u.id] # "pending"
                      /\ ~u.live /\ Listed(t)' => \A g \in Heaps : u.id \notin stash'[g]
    BY DEF FateInv
  <2>1. CASE t = s
    BY <2>1, <1>4, <1>7, <1>10
  <2>2. CASE t # s
    <3>1. timer_arena'[t] = timer_arena[t] /\ timer_arena[t].id \in 0..next_id - 1
          /\ timer_arena[t].id \notin dropped /\ timer_arena[t].id # next_id
      BY <2>2, <1>1, <1>3, <1>7, <1>11 DEF TypeOK
    <3>2. timer_arena[t].id # 0 => timer_arena[t].id \in Ids
      BY <3>1, <1>1, <1>3 DEF Ids, TypeOK
    <3>3. timer_arena[t].id # 0 => fate'[timer_arena[t].id] = fate[timer_arena[t].id]
      BY <3>1, <3>2, <1>10
    <3>4. timer_arena[t].live => timer_arena[t].id # 0
      BY <1>1 DEF IdsInv
    <3>5. Listed(t)' => Listed(t)
      BY <2>2, <1>8
    <3>6. \A g \in Heaps : timer_arena[t].id \in stash'[g] => timer_arena[t].id \in stash[g]
      BY <3>1, <1>10
    <3> QED BY <3>1, <3>3, <3>4, <3>5, <3>6, <1>1, <1>3 DEF FateInv
  <2> QED BY <2>1, <2>2
<1>19. PumpInv'
  <2>0. next_id \in Nat \ {0} BY <1>1 DEF TypeOK
  <2>1. pump'.on => global_heap' # NoHeap /\ pump'.now <= clock'
    BY <1>1, <1>3 DEF PumpInv
  <2>2. ASSUME pump'.slot # NoSlot
        PROVE  LET t == timer_arena'[pump'.slot] IN
               /\ pump'.on /\ pump'.id < next_id'
               /\ Holds(timer_list', pump'.slot) => t.id # pump'.id /\ t.id # 0 /\ owner'[t.id] = global_heap'
               /\ pump'.called /\ t.live /\ t.id = pump'.id /\ ~t.repeating => fate'[t.id] = "fired"
               /\ ~pump'.called => t.id = pump'.id /\ t.id \notin stash'[global_heap']
    <3>1. /\ pump' = pump /\ pump.on /\ pump.id < next_id /\ pump.id \in Nat /\ pump.called
          /\ h = global_heap /\ global_heap' = global_heap /\ pump.slot \in Slots
      BY <2>2, <1>1, <1>3, <1>9 DEF PumpInv, TypeOK
    <3>2. CASE pump.slot = s
      <4>1. timer_arena'[pump'.slot] = new /\ new.id = next_id /\ next_id # pump.id /\ pump.id < next_id'
        BY <3>1, <3>2, <2>0, <1>3, <1>4, <1>7
      <4> QED BY <2>0, <3>1, <4>1, <1>10
    <3>3. CASE pump.slot # s
      <4>1. timer_arena'[pump'.slot] = timer_arena[pump.slot] /\ pump.id < next_id'
        BY <3>1, <3>3, <2>0, <1>3, <1>7
      <4> DEFINE i == timer_arena[pump.slot].id
      <4>2. i # 0 => i \in Ids /\ i # next_id /\ i \notin dropped
        BY <3>1, <3>3, <2>0, <1>1, <1>3, <1>11 DEF Ids, TypeOK
      <4>3. i # 0 => fate'[i] = fate[i] /\ owner'[i] = owner[i]
        BY <4>2, <1>10
      <4>4. Holds(timer_list', pump'.slot) => Listed(pump.slot)
        BY <3>1, <3>3, <1>8 DEF Listed
      <4>5. timer_arena[pump.slot].live => i # 0
        BY <3>1, <1>1 DEF IdsInv
      <4> QED BY <2>2, <3>1, <4>1, <4>3, <4>4, <4>5, <1>1 DEF PumpInv
    <3> QED BY <3>2, <3>3
  <2> QED BY <2>1, <2>2 DEF PumpInv, Listed
<1> QED BY <1>13, <1>14, <1>15, <1>16, <1>17, <1>18, <1>19 DEF IInv, TimersSound

-----------------------------------------------------------------------------
(* A timer ends, by clearTimeout or after its callback, in the heap h: its *)
(* slot is freed, and h forgets its callback.                              *)
Ends(s, h) ==
    LET id == timer_arena[s].id IN
    /\ timer_arena' = [timer_arena EXCEPT ![s].live = FALSE]
    /\ stash' = [stash EXCEPT ![h] = @ \ {id}]
    /\ strayed' = strayed \cup {i \in {id} \cap Ids : owner[i] # h}
    /\ UNCHANGED <<next_id, owner, heaps, made, global_heap, clock>>

LEMMA EndKeeps ==
    ASSUME IInv, NEW s \in Slots, NEW h \in heaps, Ends(s, h)
    PROVE  /\ timer_arena' \in [Slots -> Timer]
           /\ stash' \in [Heaps -> SUBSET (1..(next_id' - 1))]
           /\ strayed' \subseteq Ids
           /\ \A t \in Slots : t # s => timer_arena'[t] = timer_arena[t]
           /\ ~timer_arena'[s].live
           /\ timer_arena'[s].id = timer_arena[s].id
           /\ \A t \in Slots : timer_arena'[t].expiry = timer_arena[t].expiry
           /\ \A g \in Heaps : stash'[g] = IF g = h THEN stash[g] \ {timer_arena[s].id} ELSE stash[g]
           /\ CallbackHeld' /\ NoLeaks' /\ IdsInv'
<1> USE JSTimersAssumption
<1> DEFINE id == timer_arena[s].id
<1>1. TypeOK /\ CallbackHeld /\ NoLeaks /\ IdsInv
  BY DEF IInv, TimersSound
<1>2. h \in Heaps /\ heaps \subseteq Heaps
  BY <1>1, HeapsTyped
<1>3. timer_arena \in [Slots -> Timer] /\ stash \in [Heaps -> SUBSET (1..(next_id - 1))]
  BY <1>1 DEF TypeOK
<1>4. \A t \in Slots : /\ timer_arena[t].id \in 0..MaxId /\ timer_arena[t].expiry \in Nat
                       /\ timer_arena[t].live \in BOOLEAN
  BY <1>3 DEF Timer
<1>5. /\ timer_arena' = [timer_arena EXCEPT ![s].live = FALSE]
      /\ stash' = [stash EXCEPT ![h] = @ \ {id}]
      /\ strayed' = strayed \cup {i \in {id} \cap Ids : owner[i] # h}
      /\ next_id' = next_id /\ owner' = owner /\ heaps' = heaps /\ made' = made
  BY DEF Ends
<1>6. /\ timer_arena' \in [Slots -> Timer]
      /\ \A t \in Slots : t # s => timer_arena'[t] = timer_arena[t]
      /\ ~timer_arena'[s].live /\ timer_arena'[s].id = id
      /\ timer_arena'[s].expiry = timer_arena[s].expiry
  BY <1>3, <1>5 DEF Timer
<1>7. stash' \in [Heaps -> SUBSET (1..(next_id' - 1))]
      /\ \A g \in Heaps : stash'[g] = IF g = h THEN stash[g] \ {id} ELSE stash[g]
  BY <1>2, <1>3, <1>5
<1>8. strayed' \subseteq Ids
  BY <1>1, <1>5 DEF TypeOK
<1>9. \A t \in Slots : timer_arena'[t].id = timer_arena[t].id
                       /\ (timer_arena'[t].live => timer_arena[t].live /\ t # s)
  BY <1>6
<1>10. CallbackHeld'
  <2> SUFFICES ASSUME NEW t \in Slots, timer_arena'[t].live, owner'[timer_arena'[t].id] \in heaps'
               PROVE  timer_arena'[t].id \in stash'[owner'[timer_arena'[t].id]]
    BY DEF CallbackHeld
  <2>1. t # s /\ timer_arena[t].live /\ timer_arena'[t].id = timer_arena[t].id
        /\ timer_arena[t].id # 0 /\ timer_arena[t].id # id
    BY <1>1, <1>9 DEF IdsInv
  <2>2. owner[timer_arena[t].id] \in heaps /\ owner[timer_arena[t].id] \in Heaps
    BY <2>1, <1>2, <1>5
  <2>3. timer_arena[t].id \in stash[owner[timer_arena[t].id]]
    BY <2>1, <2>2, <1>1 DEF CallbackHeld
  <2> QED BY <2>1, <2>2, <2>3, <1>5, <1>7
<1>11. NoLeaks'
  <2> SUFFICES ASSUME NEW g \in heaps, NEW i \in stash'[g], i \notin strayed'
               PROVE  \E t \in Slots : timer_arena'[t].live /\ timer_arena'[t].id = i
    BY <1>5 DEF NoLeaks
  <2>1. g \in Heaps /\ i \in stash[g] /\ i \notin strayed /\ i \in 1..next_id - 1
    BY <1>2, <1>3, <1>5, <1>7
  <2>2. PICK t \in Slots : timer_arena[t].live /\ timer_arena[t].id = i
    BY <2>1, <1>1 DEF NoLeaks
  <2>3. t # s
    <3> SUFFICES ASSUME i = id PROVE FALSE BY <2>2
    <3>1. i \in Ids BY <2>1, <1>1 DEF TypeOK, Ids
    <3>2. owner[i] = h BY <3>1, <1>5
    <3>3. owner[i] = g BY <2>1, <1>1 DEF IdsInv
    <3> QED BY <3>2, <3>3, <2>1, <1>7
  <2> QED BY <2>2, <2>3, <1>6
<1>12. IdsInv'
  <2>1. \A t \in Slots : timer_arena'[t].id < next_id' BY <1>1, <1>5, <1>9 DEF IdsInv
  <2>2. \A t \in Slots : timer_arena'[t].live => timer_arena'[t].id # 0 BY <1>1, <1>9 DEF IdsInv
  <2>3. \A t, u \in Slots : timer_arena'[t].id = timer_arena'[u].id /\ timer_arena'[t].id # 0 => t = u
    BY <1>1, <1>9 DEF IdsInv
  <2>4. \A i \in Ids : owner'[i] <= made' BY <1>1, <1>5 DEF IdsInv
  <2>5. \A g \in Heaps : \A i \in stash'[g] : owner'[i] = g BY <1>1, <1>5, <1>7 DEF IdsInv
  <2>6. \A g \in Heaps \ heaps' : stash'[g] = {} BY <1>1, <1>5, <1>7 DEF IdsInv
  <2> QED BY <2>1, <2>2, <2>3, <2>4, <2>5, <2>6 DEF IdsInv
<1>13. \A t \in Slots : timer_arena'[t].expiry = timer_arena[t].expiry
  BY <1>6
<1> QED BY <1>6, <1>7, <1>8, <1>10, <1>11, <1>12, <1>13

(* clearTimeout, from a script of any window or from a callback, of the    *)
(* timer running too.                                                      *)
LEMMA ClearStep ==
    ASSUME IInv, NEW h \in Heaps, NEW id \in Ids, macsurf_js_cleartimeout(h, id)
    PROVE  IInv'
<1> USE JSTimersAssumption
<1>1. TypeOK /\ ListSound /\ IdsInv /\ FateInv /\ PumpInv
  BY DEF IInv, TimersSound
<1>2. PICK s \in Slots :
         /\ MayRun(h)
         /\ timer_arena[s].live /\ timer_arena[s].id = id
         /\ timer_list' = timer_list_remove(timer_list, s)
         /\ stash' = [stash EXCEPT ![h] = @ \ {id}]
         /\ timer_arena' = [timer_arena EXCEPT ![s].live = FALSE]
         /\ fate' = [fate EXCEPT ![id] = IF @ = "pending" THEN "cleared" ELSE @]
         /\ Strays(h, {id})
         /\ UNCHANGED <<next_id, owner, heaps, made, global_heap, clock, pump>>
  BY DEF macsurf_js_cleartimeout
<1>3. h \in heaps /\ (pump.slot # NoSlot => h = global_heap /\ pump.called)
  BY <1>1, <1>2 DEF MayRun, InCallback, PumpInv
<1>4. Ends(s, h)
  BY <1>2 DEF Ends, Strays
<1>5. /\ timer_arena' \in [Slots -> Timer]
      /\ stash' \in [Heaps -> SUBSET (1..(next_id' - 1))]
      /\ strayed' \subseteq Ids
      /\ \A t \in Slots : t # s => timer_arena'[t] = timer_arena[t]
      /\ ~timer_arena'[s].live
      /\ timer_arena'[s].id = id
      /\ \A t \in Slots : timer_arena'[t].expiry = timer_arena[t].expiry
      /\ \A g \in Heaps : stash'[g] = IF g = h THEN stash[g] \ {id} ELSE stash[g]
      /\ CallbackHeld' /\ NoLeaks' /\ IdsInv'
  BY <1>2, <1>3, <1>4, EndKeeps
<1>6. /\ timer_list' \in Seq(Slots)
      /\ Ordered(timer_list', timer_arena)
      /\ \A x : Listed(x)' <=> Listed(x) /\ x # s
  <2>1. timer_list \in Seq(Slots) /\ Ordered(timer_list, timer_arena)
    BY <1>1, ListSoundRestated DEF TypeOK
  <2> QED BY <2>1, <1>2, RemoveTimer DEF Listed
<1>7. fate \in [Ids -> {"unmade", "pending", "fired", "cleared", "evicted", "lost"}]
  BY <1>1 DEF TypeOK
<1>8. /\ fate' \in [Ids -> {"unmade", "pending", "fired", "cleared", "evicted", "lost"}]
      /\ \A i \in Ids : i # id => fate'[i] = fate[i]
      /\ fate'[id] # "pending"
  BY <1>2, <1>7
<1>9. TypeOK'
  BY <1>1, <1>2, <1>5, <1>6, <1>8 DEF TypeOK
<1>10. ListSound'
  <2>1. Ordered(timer_list', timer_arena')
    <3>1. \A i \in DOMAIN timer_list' : timer_list'[i] \in Slots
      BY <1>6, ElementOfSeq, LenProperties
    <3> QED BY <3>1, <1>5, <1>6 DEF Ordered
  <2>2. LiveListed'
    BY <1>1, <1>2, <1>5, <1>6, ListSoundRestated DEF LiveListed
  <2> QED BY <2>1, <2>2, ListSoundRestatedNext
<1>11. \A t \in Slots : t # s => timer_arena[t].id # id
  BY <1>1, <1>2 DEF IdsInv, Ids
<1>12. \A t \in Slots : timer_arena[t].id # 0 => timer_arena[t].id \in Ids
  BY <1>1 DEF TypeOK, Timer, Ids
<1>13. FateInv'
  <2> SUFFICES ASSUME NEW t \in Slots
               PROVE  LET u == timer_arena'[t] IN
                      /\ u.live => \/ fate'[u.id] = "pending"
                                   \/ t = pump'.slot /\ u.id = pump'.id /\ ~u.repeating
                      /\ ~u.live /\ u.id # 0 => fate'[u.id] # "pending"
                      /\ ~u.live /\ Listed(t)' => \A g \in Heaps : u.id \notin stash'[g]
    BY DEF FateInv
  <2>1. CASE t = s
    BY <2>1, <1>5, <1>6, <1>8
  <2>2. CASE t # s
    <3>1. timer_arena'[t] = timer_arena[t] /\ pump' = pump BY <2>2, <1>2, <1>5
    <3>2. timer_arena[t].id # 0 => fate'[timer_arena[t].id] = fate[timer_arena[t].id]
      BY <2>2, <1>8, <1>11, <1>12
    <3>3. Listed(t)' => Listed(t) BY <1>6
    <3>4. \A g \in Heaps : timer_arena[t].id \in stash'[g] => timer_arena[t].id \in stash[g] BY <1>5
    <3>5. timer_arena[t].live => timer_arena[t].id # 0 BY <1>1 DEF IdsInv
    <3> QED BY <3>1, <3>2, <3>3, <3>4, <3>5, <1>1 DEF FateInv
  <2> QED BY <2>1, <2>2
<1>14. PumpInv'
  <2>1. pump'.on => global_heap' # NoHeap /\ pump'.now <= clock'
    BY <1>1, <1>2 DEF PumpInv
  <2>2. ASSUME pump'.slot # NoSlot
        PROVE  LET t == timer_arena'[pump'.slot] IN
               /\ pump'.on /\ pump'.id < next_id'
               /\ Holds(timer_list', pump'.slot) => t.id # pump'.id /\ t.id # 0 /\ owner'[t.id] = global_heap'
               /\ pump'.called /\ t.live /\ t.id = pump'.id /\ ~t.repeating => fate'[t.id] = "fired"
               /\ ~pump'.called => t.id = pump'.id /\ t.id \notin stash'[global_heap']
    <3>1. /\ pump' = pump /\ pump.on /\ pump.id < next_id /\ pump.called /\ next_id' = next_id
          /\ owner' = owner /\ global_heap' = global_heap /\ pump.slot \in Slots
      BY <2>2, <1>1, <1>2, <1>3 DEF PumpInv, TypeOK
    <3>2. CASE pump.slot = s
      <4>1. ~Holds(timer_list', pump.slot) BY <3>2, <1>6 DEF Listed
      <4> QED BY <3>1, <3>2, <4>1, <1>5
    <3>3. CASE pump.slot # s
      <4>1. timer_arena'[pump.slot] = timer_arena[pump.slot] BY <3>1, <3>3, <1>5
      <4> DEFINE i == timer_arena[pump.slot].id
      <4>2. i # 0 => fate'[i] = fate[i]
        BY <3>1, <3>3, <1>8, <1>11, <1>12
      <4>3. Holds(timer_list', pump'.slot) => Listed(pump.slot)
        BY <3>1, <3>3, <1>6 DEF Listed
      <4>4. timer_arena[pump.slot].live => i # 0
        BY <3>1, <1>1 DEF IdsInv
      <4> QED BY <2>2, <3>1, <4>1, <4>2, <4>3, <4>4, <1>1 DEF PumpInv
    <3> QED BY <3>2, <3>3
  <2> QED BY <2>1, <2>2 DEF PumpInv, Listed
<1> QED BY <1>5, <1>9, <1>10, <1>13, <1>14 DEF IInv, TimersSound

-----------------------------------------------------------------------------
(* Windows: the numbers of heaps are not used again, so a new heap has no  *)
(* timers.                                                                 *)
LEMMA NewHeapStep == ASSUME IInv, js_newheap PROVE IInv'
<1> USE JSTimersAssumption
<1>1. TypeOK /\ ListSound /\ CallbackHeld /\ NoLeaks /\ IdsInv /\ FateInv /\ PumpInv
  BY DEF IInv, TimersSound
<1>2. /\ ~pump.on /\ made < MaxHeaps /\ made' = made + 1 /\ heaps' = heaps \cup {made + 1}
      /\ global_heap' = made + 1
      /\ timer_arena' = timer_arena /\ timer_list' = timer_list /\ next_id' = next_id
      /\ stash' = stash /\ owner' = owner /\ fate' = fate /\ strayed' = strayed
      /\ clock' = clock /\ pump' = pump
  BY DEF js_newheap, timers
<1>3. pump.slot = NoSlot
  BY <1>1, <1>2 DEF PumpInv
<1>4. made \in Nat /\ made + 1 \in Heaps /\ made + 1 \notin heaps /\ heaps \subseteq 1..made
  BY <1>1, <1>2 DEF TypeOK, Heaps
<1>5. stash[made + 1] = {}
  BY <1>1, <1>4 DEF IdsInv
<1>6. TypeOK'
  <2>1. made' \in 0..MaxHeaps /\ heaps' \subseteq 1..made' /\ global_heap' \in heaps'
    BY <1>1, <1>2, <1>4 DEF TypeOK
  <2> QED BY <2>1, <1>1, <1>2 DEF TypeOK
<1>7. ListSound'
  BY <1>1, <1>2 DEF ListSound
<1>8. CallbackHeld'
  <2> SUFFICES ASSUME NEW t \in Slots, timer_arena[t].live, owner[timer_arena[t].id] \in heaps'
               PROVE  timer_arena[t].id \in stash[owner[timer_arena[t].id]]
    BY <1>2 DEF CallbackHeld
  <2>1. timer_arena[t].id \in Ids
    BY <1>1 DEF IdsInv, TypeOK, Timer, Ids
  <2>2. owner[timer_arena[t].id] <= made /\ owner[timer_arena[t].id] # made + 1
    BY <2>1, <1>1, <1>4 DEF IdsInv
  <2> QED BY <2>2, <1>1, <1>2 DEF CallbackHeld
<1>9. NoLeaks'
  BY <1>1, <1>2, <1>5 DEF NoLeaks
<1>10. IdsInv'
  <2>1. \A i \in Ids : owner[i] <= made + 1
    <3>1. \A i \in Ids : owner[i] \in Nat /\ owner[i] <= made
      BY <1>1 DEF IdsInv, TypeOK, Heaps, NoHeap
    <3> QED BY <3>1, <1>4
  <2> QED BY <2>1, <1>1, <1>2 DEF IdsInv
<1>11. FateInv'
  BY <1>1, <1>2 DEF FateInv, Listed
<1>12. PumpInv'
  BY <1>1, <1>2, <1>3 DEF PumpInv
<1> QED BY <1>6, <1>7, <1>8, <1>9, <1>10, <1>11, <1>12 DEF IInv, TimersSound

LEMMA DestroyHeapStep == ASSUME IInv, NEW h \in Heaps, js_destroyheap(h) PROVE IInv'
<1> USE JSTimersAssumption
<1>1. TypeOK /\ ListSound /\ CallbackHeld /\ NoLeaks /\ IdsInv /\ FateInv /\ PumpInv
  BY DEF IInv, TimersSound
<1>2. /\ ~pump.on /\ h \in heaps /\ heaps' = heaps \ {h}
      /\ stash' = [stash EXCEPT ![h] = {}]
      /\ global_heap' = IF global_heap = h THEN NoHeap ELSE global_heap
      /\ timer_arena' = timer_arena /\ timer_list' = timer_list /\ next_id' = next_id
      /\ owner' = owner /\ fate' = fate /\ strayed' = strayed /\ made' = made
      /\ clock' = clock /\ pump' = pump
  BY DEF js_destroyheap
<1>3. pump.slot = NoSlot
  BY <1>1, <1>2 DEF PumpInv
<1>4. heaps \subseteq Heaps
  BY <1>1, HeapsTyped
<1>5. stash' \in [Heaps -> SUBSET (1..(next_id - 1))]
      /\ \A g \in Heaps : stash'[g] = IF g = h THEN {} ELSE stash[g]
  BY <1>1, <1>2 DEF TypeOK
<1>6. TypeOK'
  BY <1>1, <1>2, <1>5 DEF TypeOK
<1>7. ListSound'
  BY <1>1, <1>2 DEF ListSound
<1>8. CallbackHeld'
  <2> SUFFICES ASSUME NEW t \in Slots, timer_arena[t].live, owner[timer_arena[t].id] \in heaps'
               PROVE  timer_arena[t].id \in stash'[owner[timer_arena[t].id]]
    BY <1>2 DEF CallbackHeld
  <2>1. owner[timer_arena[t].id] \in heaps /\ owner[timer_arena[t].id] # h
    BY <1>2
  <2> QED BY <2>1, <1>1, <1>4, <1>5 DEF CallbackHeld
<1>9. NoLeaks'
  BY <1>1, <1>2, <1>4, <1>5 DEF NoLeaks
<1>10. IdsInv'
  BY <1>1, <1>2, <1>5 DEF IdsInv
<1>11. FateInv'
  <2>1. \A g \in Heaps : \A i \in stash'[g] : i \in stash[g]
    BY <1>5
  <2> QED BY <2>1, <1>1, <1>2 DEF FateInv, Listed
<1>12. PumpInv'
  BY <1>1, <1>2, <1>3 DEF PumpInv
<1> QED BY <1>6, <1>7, <1>8, <1>9, <1>10, <1>11, <1>12 DEF IInv, TimersSound

(* The clock, and a pump that begins or ends.                              *)
LEMMA PumpMoves ==
    ASSUME IInv, UNCHANGED <<timers, heaps, made, global_heap>>,
           clock' \in 0..MaxTime, clock <= clock',
           \/ pump' = pump
           \/ /\ pump' \in [on : BOOLEAN, now : 0..MaxTime, slot : Slots \cup {NoSlot}, id : 0..MaxId,
                           called : BOOLEAN]
              /\ pump.slot = NoSlot /\ pump'.slot = NoSlot
              /\ pump'.on => global_heap # NoHeap /\ pump'.now <= clock
    PROVE  IInv'
<1> USE JSTimersAssumption
<1>1. TypeOK /\ ListSound /\ CallbackHeld /\ NoLeaks /\ IdsInv /\ FateInv /\ PumpInv
  BY DEF IInv, TimersSound
<1>2. /\ timer_arena' = timer_arena /\ timer_list' = timer_list /\ next_id' = next_id
      /\ stash' = stash /\ owner' = owner /\ fate' = fate /\ strayed' = strayed
      /\ heaps' = heaps /\ made' = made /\ global_heap' = global_heap
  BY DEF timers
<1>3. pump'.slot = pump.slot
  OBVIOUS
<1>4. TypeOK'
  BY <1>1, <1>2 DEF TypeOK
<1>5. ListSound' /\ CallbackHeld' /\ NoLeaks' /\ IdsInv'
  BY <1>1, <1>2, <1>3 DEF ListSound, CallbackHeld, NoLeaks, IdsInv
<1>6. NoSlot \notin Slots
  BY DEF Slots
<1>7. FateInv'
  BY <1>1, <1>2, <1>6 DEF FateInv, Listed
<1>8. PumpInv'
  <2>1. clock \in Nat /\ clock' \in Nat /\ pump.now \in Nat /\ pump'.now \in Nat
    BY <1>1 DEF TypeOK
  <2>2. CASE pump' = pump
    BY <2>1, <2>2, <1>1, <1>2 DEF PumpInv, Listed
  <2>3. CASE pump' # pump
    BY <2>1, <2>3, <1>1, <1>2 DEF PumpInv
  <2> QED BY <2>2, <2>3
<1> QED BY <1>4, <1>5, <1>7, <1>8 DEF IInv, TimersSound

LEMMA QuietStep == ASSUME IInv, Tick \/ PumpBegins \/ PumpEnds PROVE IInv'
<1> USE JSTimersAssumption
<1>1. TypeOK /\ PumpInv
  BY DEF IInv, TimersSound
<1> DEFINE P == [on : BOOLEAN, now : 0..MaxTime, slot : Slots \cup {NoSlot}, id : 0..MaxId,
                 called : BOOLEAN]
<1>2. Idle \in P /\ Idle.slot = NoSlot /\ ~Idle.on
  BY DEF Idle
<1>3. CASE Tick
  <2>1. clock' \in 0..MaxTime /\ clock <= clock' BY <1>1, <1>3 DEF Tick, TypeOK
  <2>2. UNCHANGED <<timers, heaps, made, global_heap>> /\ pump' = pump BY <1>3 DEF Tick
  <2> QED BY <2>1, <2>2, PumpMoves
<1>4. CASE PumpBegins
  <2>1. clock' = clock /\ clock \in 0..MaxTime /\ clock <= clock'
    BY <1>1, <1>4 DEF PumpBegins, TypeOK
  <2>2. UNCHANGED <<timers, heaps, made, global_heap>> /\ global_heap # NoHeap
    BY <1>4 DEF PumpBegins
  <2>3. pump' = [Idle EXCEPT !.on = TRUE, !.now = clock] BY <1>4 DEF PumpBegins
  <2>4. pump' \in P /\ pump'.slot = NoSlot /\ pump'.now = clock
    <3>1. pump' = [on |-> TRUE, now |-> clock, slot |-> NoSlot, id |-> 0, called |-> FALSE]
      BY <2>3 DEF Idle
    <3>2. 0 \in 0..MaxId OBVIOUS
    <3> QED BY <2>1, <3>1, <3>2
  <2>5. pump.slot = NoSlot BY <1>1, <1>4 DEF PumpBegins, PumpInv
  <2>6. pump'.now <= clock BY <2>1, <2>4
  <2> QED BY <2>1, <2>2, <2>4, <2>5, <2>6, PumpMoves
<1>5. CASE PumpEnds
  <2>1. clock' = clock /\ clock \in 0..MaxTime /\ clock <= clock'
    BY <1>1, <1>5 DEF PumpEnds, TypeOK
  <2>2. UNCHANGED <<timers, heaps, made, global_heap>> /\ pump.slot = NoSlot /\ pump' = Idle
    BY <1>5 DEF PumpEnds
  <2> QED BY <2>1, <2>2, <1>2, PumpMoves
<1> QED BY <1>3, <1>4, <1>5

-----------------------------------------------------------------------------
(* What the pump fires is pending and due, if a callback is found.         *)
LEMMA FiresWhatIsPending ==
    ASSUME IInv, Fire
    PROVE  LET s == Head(timer_list)
               t == timer_arena[s]
           IN  /\ s \in Slots /\ Listed(s) /\ global_heap \in Heaps
               /\ pump'.slot = s /\ pump'.id = t.id
               /\ (pump'.called <=> t.id \in stash[global_heap])
               /\ pump'.called => t.live /\ fate[t.id] = "pending"
               /\ t.live => fate[t.id] = "pending"
               /\ t.expiry <= clock
<1> USE JSTimersAssumption
<1> DEFINE s == Head(timer_list)
           t == timer_arena[s]
           called == t.id \in stash[global_heap]
<1>1. TypeOK /\ IdsInv /\ FateInv /\ PumpInv
  BY DEF IInv, TimersSound
<1>2. /\ pump.on /\ pump.slot = NoSlot /\ timer_list # <<>> /\ t.expiry <= pump.now
      /\ pump' = [pump EXCEPT !.slot = s, !.id = t.id, !.called = called]
  BY DEF Fire, HeadDue
<1>3. timer_list \in Seq(Slots) /\ Len(timer_list) # 0 /\ Len(timer_list) \in Nat
      /\ DOMAIN timer_list = 1..Len(timer_list)
  BY <1>1, <1>2, EmptySeq, LenProperties DEF TypeOK
<1>4. s = timer_list[1] /\ 1 \in DOMAIN timer_list
  BY <1>3
<1>5. s \in Slots /\ Listed(s)
  BY <1>3, <1>4, ElementOfSeq DEF Listed, Holds
<1>6. global_heap \in Heaps
  BY <1>1, <1>2, HeapsTyped DEF PumpInv, TypeOK
<1>7. pump'.slot = s /\ pump'.id = t.id /\ (pump'.called <=> called)
  <2> DEFINE c == called
  <2>1. c \in BOOLEAN OBVIOUS
  <2>2. pump \in [on : BOOLEAN, now : 0..MaxTime, slot : Slots \cup {NoSlot}, id : 0..MaxId,
                 called : BOOLEAN] BY <1>1 DEF TypeOK
  <2>3. pump' = [pump EXCEPT !.slot = s, !.id = t.id, !.called = c] BY <1>2
  <2> HIDE DEF c, s, t
  <2>4. pump'.slot = s /\ pump'.id = t.id /\ pump'.called = c BY <2>2, <2>3
  <2> QED BY <2>1, <2>4 DEF c
<1>8. NoSlot \notin Slots
  BY DEF Slots
<1>9. t.live => fate[t.id] = "pending"
  BY <1>1, <1>2, <1>5, <1>8 DEF FateInv
<1>10. called => t.live
  BY <1>1, <1>5, <1>6 DEF FateInv
<1>11. t.expiry <= clock
  <2>1. t.expiry \in Nat /\ pump.now \in Nat /\ clock \in Nat
    BY <1>1, <1>5 DEF TypeOK, Timer
  <2>2. pump.now <= clock BY <1>1, <1>2 DEF PumpInv
  <2> QED BY <2>1, <2>2, <1>2
<1> HIDE DEF called
<1>12. pump'.called => t.live /\ fate[t.id] = "pending"
  BY <1>7, <1>9, <1>10
<1> QED BY <1>5, <1>6, <1>7, <1>9, <1>11, <1>12 DEF called

LEMMA FireStep == ASSUME IInv, Fire PROVE IInv'
<1> USE JSTimersAssumption
<1> DEFINE s == Head(timer_list)
           t == timer_arena[s]
           called == t.id \in stash[global_heap]
<1>1. TypeOK /\ ListSound /\ CallbackHeld /\ NoLeaks /\ IdsInv /\ FateInv /\ PumpInv
  BY DEF IInv, TimersSound
<1>2. /\ s \in Slots /\ Listed(s) /\ global_heap \in Heaps
      /\ pump'.slot = s /\ pump'.id = t.id
      /\ (pump'.called <=> called)
      /\ pump'.called => t.live /\ fate[t.id] = "pending"
      /\ t.live => fate[t.id] = "pending"
  BY FiresWhatIsPending
<1>3. /\ pump.on /\ pump.slot = NoSlot
      /\ timer_list' = timer_list_remove(timer_list, s)
      /\ pump' = [pump EXCEPT !.slot = s, !.id = t.id, !.called = called]
      /\ fate' = [i \in Ids |-> IF i = t.id /\ called /\ ~t.repeating THEN "fired" ELSE fate[i]]
      /\ timer_arena' = timer_arena /\ next_id' = next_id /\ stash' = stash /\ owner' = owner
      /\ strayed' = strayed /\ heaps' = heaps /\ made' = made
      /\ global_heap' = global_heap /\ clock' = clock
  BY DEF Fire
<1>4. /\ timer_list' \in Seq(Slots)
      /\ Ordered(timer_list', timer_arena)
      /\ \A x : Listed(x)' <=> Listed(x) /\ x # s
  <2>1. timer_list \in Seq(Slots) /\ Ordered(timer_list, timer_arena)
    BY <1>1, ListSoundRestated DEF TypeOK
  <2> QED BY <2>1, <1>3, RemoveTimer DEF Listed
<1>5. t \in Timer /\ t.id \in 0..MaxId /\ t.id < next_id /\ (t.live => t.id \in Ids)
  BY <1>1, <1>2 DEF TypeOK, Timer, IdsInv, Ids
<1>6. pump'.on /\ pump'.now = pump.now
      /\ pump' \in [on : BOOLEAN, now : 0..MaxTime, slot : Slots \cup {NoSlot}, id : 0..MaxId,
                    called : BOOLEAN]
  <2> DEFINE c == called
  <2>1. c \in BOOLEAN OBVIOUS
  <2>2. pump \in [on : BOOLEAN, now : 0..MaxTime, slot : Slots \cup {NoSlot}, id : 0..MaxId,
                 called : BOOLEAN] BY <1>1 DEF TypeOK
  <2>3. pump' = [pump EXCEPT !.slot = s, !.id = t.id, !.called = c] BY <1>3
  <2> HIDE DEF c, s
  <2> QED BY <2>1, <2>2, <2>3, <1>2, <1>3, <1>5
<1> HIDE DEF s
<1>7. /\ \A i \in Ids : i # t.id => fate'[i] = fate[i]
      /\ ~(called /\ ~t.repeating) => \A i \in Ids : fate'[i] = fate[i]
      /\ called /\ ~t.repeating => t.id \in Ids /\ fate'[t.id] = "fired"
      /\ \A i \in Ids : fate'[i] = fate[i] \/ fate'[i] = "fired"
      /\ fate' \in [Ids -> {"unmade", "pending", "fired", "cleared", "evicted", "lost"}]
  <2>1. fate \in [Ids -> {"unmade", "pending", "fired", "cleared", "evicted", "lost"}]
    BY <1>1 DEF TypeOK
  <2>2. called => t.id \in Ids BY <1>2, <1>5
  <2> HIDE DEF called, t
  <2> QED BY <1>3, <2>1, <2>2
<1>8. TypeOK'
  BY <1>1, <1>3, <1>4, <1>6, <1>7 DEF TypeOK
<1>9. ListSound'
  <2>1. LiveListed'
    BY <1>1, <1>2, <1>3, <1>4, ListSoundRestated DEF LiveListed, Slots
  <2> QED BY <2>1, <1>3, <1>4, ListSoundRestatedNext
<1>10. CallbackHeld' /\ NoLeaks' /\ IdsInv'
  BY <1>1, <1>3 DEF CallbackHeld, NoLeaks, IdsInv
<1>11. NoSlot \notin Slots
  BY DEF Slots
<1>12. FateInv'
  <2> SUFFICES ASSUME NEW u \in Slots
               PROVE  LET v == timer_arena[u] IN
                      /\ v.live => \/ fate'[v.id] = "pending"
                                   \/ u = pump'.slot /\ v.id = pump'.id /\ ~v.repeating
                      /\ ~v.live /\ v.id # 0 => fate'[v.id] # "pending"
                      /\ ~v.live /\ Listed(u)' => \A g \in Heaps : v.id \notin stash[g]
    BY <1>3 DEF FateInv
  <2> DEFINE v == timer_arena[u]
  <2>0. (v.live => v.id # 0) /\ (v.id # 0 => v.id \in Ids) /\ (v.id # 0 /\ u # s => v.id # t.id)
    BY <1>1, <1>2 DEF TypeOK, Timer, IdsInv, Ids
  <2>1. v.live => fate[v.id] = "pending"
    BY <1>1, <1>3, <1>11 DEF FateInv
  <2>2. ASSUME v.live
        PROVE  fate'[v.id] = "pending" \/ (u = pump'.slot /\ v.id = pump'.id /\ ~v.repeating)
    <3>1. CASE u = s
      BY <3>1, <2>0, <2>1, <2>2, <1>2, <1>7
    <3>2. CASE u # s
      BY <3>2, <2>0, <2>1, <2>2, <1>7
    <3> QED BY <3>1, <3>2
  <2>3. ASSUME ~v.live, v.id # 0 PROVE fate'[v.id] # "pending"
    <3>1. fate[v.id] # "pending" BY <2>3, <1>1 DEF FateInv
    <3> QED BY <3>1, <2>0, <2>3, <1>7
  <2>4. ASSUME ~v.live, Listed(u)' PROVE \A g \in Heaps : v.id \notin stash[g]
    BY <2>4, <1>1, <1>4 DEF FateInv
  <2> QED BY <2>2, <2>3, <2>4
<1>13. PumpInv'
  <2>1. global_heap' # NoHeap /\ pump'.now <= clock'
    BY <1>1, <1>3, <1>6 DEF PumpInv
  <2>2. timer_arena'[pump'.slot] = t /\ pump'.id = t.id /\ pump'.id < next_id'
    BY <1>2, <1>3, <1>5
  <2>3. ~Holds(timer_list', pump'.slot)
    BY <1>2, <1>4 DEF Listed
  <2>4. pump'.called /\ ~t.repeating => fate'[t.id] = "fired"
    BY <1>2, <1>7
  <2>5. ~pump'.called => t.id \notin stash'[global_heap']
    BY <1>2, <1>3
  <2> HIDE DEF t, called
  <2> QED BY <2>1, <2>2, <2>3, <2>4, <2>5, <1>6 DEF PumpInv, Listed
<1> QED BY <1>8, <1>9, <1>10, <1>12, <1>13 DEF IInv, TimersSound

-----------------------------------------------------------------------------
(* After the callback: the slot, whatever is in it by now, is armed again  *)
(* or freed.                                                               *)
LEMMA LoopedFacts ==
    ASSUME IInv, pump.slot # NoSlot, pump' = Looped, clock' = clock, global_heap' = global_heap
    PROVE  /\ pump' \in [on : BOOLEAN, now : 0..MaxTime, slot : Slots \cup {NoSlot}, id : 0..MaxId,
                         called : BOOLEAN]
           /\ pump'.slot = NoSlot
           /\ PumpInv'
<1> USE JSTimersAssumption
<1> DEFINE P == [on : BOOLEAN, now : 0..MaxTime, slot : Slots \cup {NoSlot}, id : 0..MaxId,
                 called : BOOLEAN]
<1>1. TypeOK /\ PumpInv
  BY DEF IInv, TimersSound
<1>2. Idle \in P /\ Idle.slot = NoSlot /\ ~Idle.on
  BY DEF Idle
<1>3. CASE clock <= pump.now
  <2>1. pump' = Idle BY <1>3 DEF Looped
  <2> QED BY <2>1, <1>2 DEF PumpInv
<1>4. CASE ~(clock <= pump.now)
  <2>1. pump' = [pump EXCEPT !.slot = NoSlot, !.id = 0, !.called = FALSE] BY <1>4 DEF Looped
  <2>2. pump \in P BY <1>1 DEF TypeOK
  <2>3. 0 \in 0..MaxId OBVIOUS
  <2>4. pump' \in P /\ pump'.slot = NoSlot /\ pump'.now = pump.now /\ (pump'.on <=> pump.on)
    BY <2>1, <2>2, <2>3
  <2> QED BY <2>4, <1>1 DEF PumpInv
<1> QED BY <1>3, <1>4

LEMMA RetireStep ==
    ASSUME IInv, pump.slot # NoSlot, Retire(pump.slot), pump' = Looped,
           UNCHANGED <<next_id, owner, heaps, made, global_heap, clock>>
    PROVE  IInv'
<1> USE JSTimersAssumption
<1> DEFINE s == pump.slot
           id == timer_arena[s].id
<1>1. TypeOK /\ ListSound /\ IdsInv /\ FateInv /\ PumpInv
  BY DEF IInv, TimersSound
<1>2. s \in Slots /\ pump.on /\ global_heap \in heaps /\ global_heap \in Heaps
  BY <1>1, HeapsTyped DEF TypeOK, PumpInv
<1>3. /\ fate' = [i \in Ids |-> IF i = id /\ fate[i] = "pending" THEN "lost" ELSE fate[i]]
      /\ timer_list' = timer_list
  BY DEF Retire
<1>4. Ends(s, global_heap)
  BY DEF Ends, Retire, Strays
<1>5. /\ timer_arena' \in [Slots -> Timer]
      /\ stash' \in [Heaps -> SUBSET (1..(next_id' - 1))]
      /\ strayed' \subseteq Ids
      /\ \A t \in Slots : t # s => timer_arena'[t] = timer_arena[t]
      /\ ~timer_arena'[s].live
      /\ timer_arena'[s].id = id
      /\ \A t \in Slots : timer_arena'[t].expiry = timer_arena[t].expiry
      /\ \A g \in Heaps : stash'[g] = IF g = global_heap THEN stash[g] \ {id} ELSE stash[g]
      /\ CallbackHeld' /\ NoLeaks' /\ IdsInv'
  <2> HIDE DEF s
  <2> QED BY <1>2, <1>4, EndKeeps
<1>6. fate \in [Ids -> {"unmade", "pending", "fired", "cleared", "evicted", "lost"}]
  BY <1>1 DEF TypeOK
<1>7. /\ fate' \in [Ids -> {"unmade", "pending", "fired", "cleared", "evicted", "lost"}]
      /\ \A i \in Ids : i # id => fate'[i] = fate[i]
      /\ id \in Ids => fate'[id] # "pending"
  <2> HIDE DEF id
  <2> QED BY <1>3, <1>6
<1>8. /\ pump' \in [on : BOOLEAN, now : 0..MaxTime, slot : Slots \cup {NoSlot}, id : 0..MaxId,
                    called : BOOLEAN]
      /\ pump'.slot = NoSlot
      /\ PumpInv'
  BY LoopedFacts
<1>9. TypeOK'
  BY <1>1, <1>3, <1>5, <1>7, <1>8 DEF TypeOK
<1>10. ListSound'
  <2>1. Ordered(timer_list', timer_arena')
    <3>1. Ordered(timer_list, timer_arena) BY <1>1, ListSoundRestated
    <3>2. \A i \in DOMAIN timer_list : timer_list[i] \in Slots
      BY <1>1, ElementOfSeq, LenProperties DEF TypeOK
    <3> QED BY <3>1, <3>2, <1>3, <1>5 DEF Ordered
  <2>2. LiveListed'
    BY <1>1, <1>3, <1>5, ListSoundRestated DEF LiveListed, Listed
  <2> QED BY <2>1, <2>2, ListSoundRestatedNext
<1>11. \A t \in Slots : /\ timer_arena[t].id # 0 => timer_arena[t].id \in Ids
                        /\ timer_arena[t].live => timer_arena[t].id # 0
                        /\ t # s /\ timer_arena[t].id # 0 => timer_arena[t].id # id
  BY <1>1, <1>2 DEF TypeOK, Timer, Ids, IdsInv
<1>12. FateInv'
  <2> SUFFICES ASSUME NEW t \in Slots
               PROVE  LET u == timer_arena'[t] IN
                      /\ u.live => \/ fate'[u.id] = "pending"
                                   \/ t = pump'.slot /\ u.id = pump'.id /\ ~u.repeating
                      /\ ~u.live /\ u.id # 0 => fate'[u.id] # "pending"
                      /\ ~u.live /\ Listed(t)' => \A g \in Heaps : u.id \notin stash'[g]
    BY DEF FateInv
  <2>1. CASE t = s
    <3>1. ASSUME Listed(t)', NEW g \in Heaps PROVE id \notin stash'[g]
      <4>1. Listed(s) BY <2>1, <3>1, <1>3 DEF Listed
      <4>2. owner[id] = global_heap BY <4>1, <1>1 DEF PumpInv
      <4>3. id \in stash[g] => owner[id] = g BY <1>1 DEF IdsInv
      <4> QED BY <4>2, <4>3, <1>5
    <3>2. id # 0 => fate'[id] # "pending" BY <1>2, <1>7, <1>11
    <3> HIDE DEF s
    <3> QED BY <2>1, <3>1, <3>2, <1>5
  <2>2. CASE t # s
    <3>1. timer_arena'[t] = timer_arena[t] BY <2>2, <1>5
    <3>2. timer_arena[t].id # 0 => fate'[timer_arena[t].id] = fate[timer_arena[t].id]
      BY <2>2, <1>7, <1>11
    <3>3. Listed(t)' => Listed(t) BY <1>3 DEF Listed
    <3>4. \A g \in Heaps : timer_arena[t].id \in stash'[g] => timer_arena[t].id \in stash[g] BY <1>5
    <3>5. timer_arena[t].live => fate[timer_arena[t].id] = "pending"
      BY <2>2, <1>1 DEF FateInv
    <3> QED BY <3>1, <3>2, <3>3, <3>4, <3>5, <1>1, <1>11 DEF FateInv
  <2> QED BY <2>1, <2>2
<1> QED BY <1>5, <1>8, <1>9, <1>10, <1>12 DEF IInv, TimersSound

LEMMA RearmStep ==
    ASSUME IInv, pump.slot # NoSlot, Rearm(pump.slot), pump' = Looped,
           timer_arena[pump.slot].repeating, timer_arena[pump.slot].live,
           UNCHANGED <<next_id, owner, heaps, made, global_heap, clock>>
    PROVE  IInv'
<1> USE JSTimersAssumption
<1> DEFINE s == pump.slot
           due == pump.now + timer_arena[s].interval
<1>1. TypeOK /\ ListSound /\ CallbackHeld /\ NoLeaks /\ IdsInv /\ FateInv /\ PumpInv
  BY DEF IInv, TimersSound
<1>2. s \in Slots
  BY <1>1 DEF TypeOK
<1>3. /\ timer_arena' = [timer_arena EXCEPT ![s].expiry = due]
      /\ timer_list' = timer_list_insert(timer_list, timer_arena', s)
      /\ stash' = stash /\ fate' = fate /\ strayed' = strayed
  BY DEF Rearm
<1>4. timer_arena \in [Slots -> Timer] /\ due \in Nat
  <2>1. timer_arena \in [Slots -> Timer] /\ pump.now \in Nat BY <1>1 DEF TypeOK
  <2>2. timer_arena[s] \in Timer BY <2>1, <1>2
  <2>3. timer_arena[s].interval \in Delays \cup {0} BY <2>2 DEF Timer
  <2>4. timer_arena[s].interval \in Nat
    <3>1. \A d \in Delays \cup {0} : d \in Nat OBVIOUS
    <3> HIDE DEF s
    <3> QED BY <2>3, <3>1
  <2> DEFINE a == pump.now
             b == timer_arena[s].interval
  <2>5. a \in Nat /\ b \in Nat BY <2>1, <2>4
  <2>6. a + b \in Nat
    <3> HIDE DEF a, b
    <3> QED BY <2>5
  <2> QED BY <2>1, <2>6
<1>5. /\ timer_arena' \in [Slots -> Timer]
      /\ \A t \in Slots : t # s => timer_arena'[t] = timer_arena[t]
      /\ timer_arena'[s].id = timer_arena[s].id
      /\ (timer_arena'[s].live <=> timer_arena[s].live)
      /\ (timer_arena'[s].repeating <=> timer_arena[s].repeating)
  <2> HIDE DEF due, s
  <2> QED BY <1>2, <1>3, <1>4 DEF Timer
<1>6. /\ timer_list' \in Seq(Slots)
      /\ Ordered(timer_list', timer_arena')
      /\ \A x : Listed(x)' <=> Listed(x) \/ x = s
  <2>1. timer_list \in Seq(Slots) /\ Ordered(timer_list, timer_arena)
    BY <1>1, ListSoundRestated DEF TypeOK
  <2>2. \A t \in Slots : t # s => timer_arena'[t].expiry = timer_arena[t].expiry
    BY <1>5
  <2>3. timer_list' = timer_list_insert(timer_list, timer_arena', s)
    BY <1>3
  <2> HIDE DEF s, due
  <2>4. /\ timer_list' \in Seq(Slots)
        /\ Ordered(timer_list', timer_arena')
        /\ \A x : Holds(timer_list', x) <=> Holds(timer_list, x) \/ x = s
    BY <1>2, <1>4, <1>5, <2>1, <2>2, <2>3, InsertTimer
  <2> QED BY <2>4 DEF Listed
<1>7. /\ pump' \in [on : BOOLEAN, now : 0..MaxTime, slot : Slots \cup {NoSlot}, id : 0..MaxId,
                    called : BOOLEAN]
      /\ pump'.slot = NoSlot
      /\ PumpInv'
  BY LoopedFacts
<1>8. TypeOK'
  BY <1>1, <1>3, <1>5, <1>6, <1>7 DEF TypeOK
<1>9. ListSound'
  <2>1. LiveListed'
    BY <1>1, <1>5, <1>6, ListSoundRestated DEF LiveListed
  <2> QED BY <2>1, <1>6, ListSoundRestatedNext
<1>10. \A t \in Slots : /\ timer_arena'[t].id = timer_arena[t].id
                        /\ (timer_arena'[t].live <=> timer_arena[t].live)
  BY <1>5
<1>11. CallbackHeld' /\ NoLeaks' /\ IdsInv'
  <2>0. owner' = owner /\ heaps' = heaps
    OBVIOUS
  <2>1. CallbackHeld'
    <3> SUFFICES ASSUME NEW t \in Slots, timer_arena'[t].live, owner[timer_arena'[t].id] \in heaps
                 PROVE  timer_arena'[t].id \in stash'[owner[timer_arena'[t].id]]
      BY <2>0 DEF CallbackHeld
    <3>1. timer_arena[t].live /\ timer_arena'[t].id = timer_arena[t].id /\ stash' = stash
      BY <1>3, <1>10
    <3> QED BY <3>1, <1>1 DEF CallbackHeld
  <2>2. NoLeaks' BY <1>1, <1>3, <1>10 DEF NoLeaks
  <2>3. IdsInv' BY <1>1, <1>3, <1>10 DEF IdsInv
  <2> QED BY <2>1, <2>2, <2>3
<1>12. FateInv'
  <2> SUFFICES ASSUME NEW t \in Slots
               PROVE  LET u == timer_arena'[t] IN
                      /\ u.live => \/ fate'[u.id] = "pending"
                                   \/ t = pump'.slot /\ u.id = pump'.id /\ ~u.repeating
                      /\ ~u.live /\ u.id # 0 => fate'[u.id] # "pending"
                      /\ ~u.live /\ Listed(t)' => \A g \in Heaps : u.id \notin stash'[g]
    BY DEF FateInv
  <2>1. timer_arena[t].live => fate[timer_arena[t].id] = "pending"
    BY <1>1 DEF FateInv
  <2>2. ~timer_arena[t].live => (Listed(t)' => Listed(t))
    BY <1>6
  <2> QED BY <2>1, <2>2, <1>1, <1>3, <1>10 DEF FateInv
<1> QED BY <1>7, <1>8, <1>9, <1>11, <1>12 DEF IInv, TimersSound

-----------------------------------------------------------------------------
LEMMA InitIInv == Init => IInv
<1> SUFFICES ASSUME Init PROVE IInv
  OBVIOUS
<1> USE JSTimersAssumption
<1> DEFINE blank == [id |-> 0, expiry |-> 0, repeating |-> FALSE, interval |-> 0, live |-> FALSE]
<1>1. blank \in Timer /\ blank.id = 0 /\ ~blank.live
  BY DEF Timer
<1>2. timer_arena = [s \in Slots |-> blank]
  BY DEF Init
<1> HIDE DEF blank
<1>3. timer_arena \in [Slots -> Timer] /\ \A s \in Slots : timer_arena[s].id = 0 /\ ~timer_arena[s].live
  BY <1>1, <1>2
<1>4. /\ timer_list = <<>> /\ next_id = 1 /\ stash = [h \in Heaps |-> {}] /\ heaps = {} /\ made = 0
      /\ global_heap = NoHeap /\ clock = 0 /\ pump = Idle /\ owner = [i \in Ids |-> NoHeap]
      /\ fate = [i \in Ids |-> "unmade"] /\ strayed = {}
  BY DEF Init
<1>5. Idle \in [on : BOOLEAN, now : 0..MaxTime, slot : Slots \cup {NoSlot}, id : 0..MaxId,
                called : BOOLEAN] /\ Idle.slot = NoSlot /\ ~Idle.on
  BY DEF Idle
<1>6. timer_list \in Seq(Slots) /\ DOMAIN timer_list = {}
  BY <1>4
<1>7. TypeOK
  <2>1. next_id \in 1..(MaxId + 1) /\ made \in 0..MaxHeaps /\ clock \in 0..MaxTime BY <1>4
  <2>2. stash \in [Heaps -> SUBSET (1..(next_id - 1))] BY <1>4
  <2>3. heaps \subseteq 1..made /\ global_heap \in heaps \cup {NoHeap} /\ strayed \subseteq Ids BY <1>4
  <2>4. owner \in [Ids -> Heaps \cup {NoHeap}] BY <1>4
  <2>5. fate \in [Ids -> {"unmade", "pending", "fired", "cleared", "evicted", "lost"}] BY <1>4
  <2> QED BY <1>3, <1>4, <1>5, <1>6, <2>1, <2>2, <2>3, <2>4, <2>5 DEF TypeOK
<1>8. ListSound
  BY <1>3, <1>6 DEF ListSound
<1>9. CallbackHeld /\ NoLeaks
  BY <1>3, <1>4 DEF CallbackHeld, NoLeaks
<1>10. IdsInv
  BY <1>3, <1>4 DEF IdsInv, NoHeap
<1>11. FateInv
  BY <1>3, <1>4, <1>6 DEF FateInv, Listed, Holds
<1>12. PumpInv
  BY <1>4, <1>5 DEF PumpInv
<1> QED BY <1>7, <1>8, <1>9, <1>10, <1>11, <1>12 DEF IInv, TimersSound

LEMMA NextIInv == IInv /\ [Next]_vars => IInv'
<1> SUFFICES ASSUME IInv, [Next]_vars PROVE IInv'
  OBVIOUS
<1>1. CASE Script
  <2>1. PICK h \in Heaps :
           \/ \E repeating \in BOOLEAN, delay \in Delays : timer_create(h, repeating, delay)
           \/ \E id \in Ids : macsurf_js_cleartimeout(h, id)
    BY <1>1 DEF Script
  <2> QED BY <2>1, CreateStep, ClearStep
<1>2. CASE Windows
  BY <1>2, NewHeapStep, DestroyHeapStep DEF Windows
<1>3. CASE Tick \/ PumpBegins \/ PumpEnds
  BY <1>3, QuietStep
<1>4. CASE Fire
  BY <1>4, FireStep
<1>5. CASE CallbackEnds
  <2>1. /\ pump.slot # NoSlot /\ pump' = Looped
        /\ UNCHANGED <<next_id, owner, heaps, made, global_heap, clock>>
        /\ IF timer_arena[pump.slot].repeating /\ timer_arena[pump.slot].live
           THEN Rearm(pump.slot) ELSE Retire(pump.slot)
    BY <1>5 DEF CallbackEnds
  <2> QED BY <2>1, RearmStep, RetireStep
<1>6. CASE UNCHANGED vars
  BY <1>6 DEF vars, timers, IInv, TimersSound, TypeOK, ListSound, CallbackHeld, NoLeaks, IdsInv,
              FateInv, PumpInv, Listed
<1> QED BY <1>1, <1>2, <1>3, <1>4, <1>5, <1>6 DEF Next, Pump

(* The inductive invariant holds in every state of the timers.             *)
THEOREM TimersSpecInv == Spec => []IInv
<1>1. Init => IInv
  BY InitIInv
<1>2. IInv /\ [Next]_vars => IInv'
  BY NextIInv
<1> QED BY <1>1, <1>2, PTL DEF Spec

(* However callbacks set and clear timers while macsurf_js_run_timers is   *)
(* in its loop, the list stays in the order of expiry, without a slot      *)
(* twice and with every live timer but the one running, and the stash of   *)
(* each heap has the callbacks of its live timers and, but for timers that *)
(* were ended from another heap, no others.                                *)
THEOREM TimersAlwaysSound == Spec => []TimersSound
<1>1. IInv => TimersSound
  BY DEF IInv
<1> QED BY <1>1, TimersSpecInv, PTL

(* A callback runs only for a timer that is pending, live and due: not a   *)
(* second time for a one-shot timer, and not after clearTimeout.           *)
THEOREM TimersFirePending == Spec => FiresPending
<1> DEFINE A == ~InCallback /\ InCallback' =>
                   /\ fate[pump'.id] = "pending"
                   /\ timer_arena[pump'.slot].live /\ timer_arena[pump'.slot].expiry <= clock
<1>1. IInv /\ [Next]_vars => A
  <2> SUFFICES ASSUME IInv, [Next]_vars, ~InCallback, InCallback'
               PROVE  /\ fate[pump'.id] = "pending"
                      /\ timer_arena[pump'.slot].live /\ timer_arena[pump'.slot].expiry <= clock
    OBVIOUS
  <2>1. CASE Fire
    BY <2>1, FiresWhatIsPending DEF InCallback
  <2>2. CASE pump' = pump
    BY <2>2 DEF InCallback
  <2>3. CASE PumpBegins \/ PumpEnds
    <3>1. pump' = Idle \/ pump' = [Idle EXCEPT !.on = TRUE, !.now = clock]
      BY <2>3 DEF PumpBegins, PumpEnds
    <3>2. CASE pump' = Idle
      <4>1. pump'.slot = NoSlot BY <3>2 DEF Idle
      <4> QED BY <4>1 DEF InCallback
    <3>3. CASE pump' = [Idle EXCEPT !.on = TRUE, !.now = clock]
      <4>1. pump' = [on |-> TRUE, now |-> clock, slot |-> NoSlot, id |-> 0, called |-> FALSE]
        BY <3>3 DEF Idle
      <4>2. pump'.slot = NoSlot BY <4>1
      <4> QED BY <4>2 DEF InCallback
    <3> QED BY <3>1, <3>2, <3>3
  <2>4. CASE CallbackEnds
    <3>1. pump.slot # NoSlot /\ pump' = Looped /\ clock' = clock /\ global_heap' = global_heap
      BY <2>4 DEF CallbackEnds
    <3> QED BY <3>1, LoopedFacts DEF InCallback
  <2>5. Script => pump' = pump
    BY DEF Script, timer_create, macsurf_js_cleartimeout
  <2>6. Windows \/ Tick \/ UNCHANGED vars => pump' = pump
    BY DEF Windows, js_newheap, js_destroyheap, Tick, vars
  <2> QED BY <2>1, <2>2, <2>3, <2>4, <2>5, <2>6 DEF Next, Pump
<1>2. IInv /\ [Next]_vars => [A]_vars
  BY <1>1
<1> HIDE DEF A
<1>3. Spec => [][A]_vars
  BY <1>2, TimersSpecInv, PTL DEF Spec
<1> QED BY <1>3 DEF FiresPending, A

(* A pending timer is retired unfired only if it belongs to another heap   *)
(* than the one pumped, or was set by the callback into the slot of the    *)
(* timer running.                                                          *)
THEOREM TimersLostOnly == Spec => LostOnly
<1> DEFINE A == \A i \in Ids : fate[i] = "pending" /\ fate'[i] = "lost" =>
                   owner[i] # global_heap \/ pump.id # i
<1>1. IInv /\ [Next]_vars => A
  <2> SUFFICES ASSUME IInv, [Next]_vars, NEW i \in Ids, fate[i] = "pending", fate'[i] = "lost"
               PROVE  owner[i] # global_heap \/ pump.id # i
    OBVIOUS
  <2>0. TypeOK /\ CallbackHeld /\ IdsInv /\ FateInv /\ PumpInv
    BY DEF IInv, TimersSound
  <2>1. CASE CallbackEnds
    <3> DEFINE s == pump.slot
               t == timer_arena[s]
    <3>1. s # NoSlot /\ s \in Slots /\ (IF t.repeating /\ t.live THEN Rearm(s) ELSE Retire(s))
      BY <2>0, <2>1 DEF CallbackEnds, TypeOK
    <3>2. ~(t.repeating /\ t.live) /\ Retire(s)
      BY <3>1 DEF Rearm
    <3>3. i = t.id
      BY <3>2 DEF Retire
    <3> SUFFICES ASSUME owner[i] = global_heap, pump.id = i PROVE FALSE
      OBVIOUS
    <3>4. t.live
      BY <3>1, <3>3, <2>0, JSTimersAssumption DEF FateInv, Ids
    <3>5. pump.called
      <4>1. global_heap \in heaps BY <3>1, <2>0 DEF PumpInv, TypeOK
      <4>2. t.id \in stash[global_heap] BY <3>1, <3>3, <3>4, <4>1, <2>0 DEF CallbackHeld
      <4> QED BY <3>1, <4>2, <2>0 DEF PumpInv
    <3>6. fate[t.id] = "fired"
      BY <3>1, <3>2, <3>3, <3>4, <3>5, <2>0 DEF PumpInv
    <3> QED BY <3>3, <3>6
  <2>2. CASE UNCHANGED fate
    BY <2>2
  <2>3. Script => fate'[i] # "lost"
    <3>1. ASSUME NEW h \in Heaps, NEW rep \in BOOLEAN, NEW delay \in Delays,
                 timer_create(h, rep, delay)
          PROVE  fate'[i] # "lost"
      BY <3>1 DEF timer_create
    <3>2. ASSUME NEW h \in Heaps, NEW j \in Ids, macsurf_js_cleartimeout(h, j)
          PROVE  fate'[i] # "lost"
      BY <3>2, <2>0 DEF macsurf_js_cleartimeout, TypeOK
    <3> QED BY <3>1, <3>2 DEF Script
  <2>4. Fire => fate'[i] # "lost"
    BY DEF Fire
  <2>5. Windows \/ Tick \/ PumpBegins \/ PumpEnds \/ UNCHANGED vars => UNCHANGED fate
    BY DEF Windows, js_newheap, js_destroyheap, Tick, PumpBegins, PumpEnds, vars, timers
  <2> QED BY <2>1, <2>2, <2>3, <2>4, <2>5 DEF Next, Pump
<1>2. IInv /\ [Next]_vars => [A]_vars
  BY <1>1
<1> HIDE DEF A
<1>3. Spec => [][A]_vars
  BY <1>2, TimersSpecInv, PTL DEF Spec
<1> QED BY <1>3 DEF LostOnly, A
=============================================================================
