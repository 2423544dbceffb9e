------------------------------ MODULE JSTimers ------------------------------
(***************************************************************************)
(* setTimeout, setInterval and clearTimeout (macsurf_js_timers.c): an      *)
(* arena of slots and a list of them by expiry, both shared by the heaps   *)
(* of all windows, and in each heap a stash of the callbacks by timer id.  *)
(* The event loop pumps the timers of the heap made last, `global_heap'    *)
(* (macsurf_js.c); a callback may set and clear timers, the running one    *)
(* included, so it is a state of the model.  Time is the clock's seconds,  *)
(* and an id stands for its callback.                                      *)
(***************************************************************************)
EXTENDS Naturals, Sequences, SequencesExt, FiniteSets

CONSTANTS
    MAX_TIMERS,   \* MACSURF_JS_MAX_TIMERS
    MaxHeaps,     \* bound on the heaps made, one for each window
    Delays,       \* delays of timers
    MaxId,        \* bound on the timers made
    MaxTime,      \* bound on the clock
    NoSlot

ASSUME JSTimersAssumption ==
    /\ MAX_TIMERS \in Nat \ {0} /\ MaxId \in Nat /\ MaxTime \in Nat /\ MaxHeaps \in Nat
    /\ Delays \subseteq Nat
    /\ NoSlot \notin Nat

VARIABLES
    timer_arena,    \* the slots
    timer_list,     \* macsurf_timer_head and on
    next_id,
    stash,          \* ids with a callback, in each heap
    heaps, made,    \* the heaps that exist, by number, and how many were made
    global_heap,
    clock,          \* macsurf_js_get_now
    pump,           \* macsurf_js_run_timers
    owner,          \* the heap of each timer
    fate,           \* what has become of it
    strayed         \* timers that were ended from another heap

timers == <<timer_arena, timer_list, next_id, stash, owner, fate, strayed>>
vars == <<timers, heaps, made, global_heap, clock, pump>>

Slots == 1..MAX_TIMERS
Ids == 1..MaxId
Heaps == 1..MaxHeaps
NoHeap == 0

Timer == [id : 0..MaxId, expiry : Nat, repeating : BOOLEAN, interval : Delays \cup {0},
          live : BOOLEAN]

(* Idle; or in its loop, at a slot if one was fired, whose callback runs   *)
(* if it was found.                                                        *)
Idle == [on |-> FALSE, now |-> 0, slot |-> NoSlot, id |-> 0, called |-> FALSE]

TypeOK ==
    /\ timer_arena \in [Slots -> Timer]
    /\ timer_list \in Seq(Slots)
    /\ next_id \in 1..(MaxId + 1)
    /\ stash \in [Heaps -> SUBSET (1..(next_id - 1))]
    /\ made \in 0..MaxHeaps /\ heaps \subseteq 1..made
    /\ global_heap \in heaps \cup {NoHeap}
    /\ clock \in 0..MaxTime
    /\ pump \in [on : BOOLEAN, now : 0..MaxTime, slot : Slots \cup {NoSlot}, id : 0..MaxId,
                 called : BOOLEAN]
    /\ owner \in [Ids -> Heaps \cup {NoHeap}]
    /\ fate \in [Ids -> {"unmade", "pending", "fired", "cleared", "evicted", "lost"}]
    /\ strayed \subseteq Ids

Init ==
    /\ timer_arena = [s \in Slots |-> [id |-> 0, expiry |-> 0, repeating |-> FALSE,
                                       interval |-> 0, live |-> FALSE]]
    /\ timer_list = <<>>
    /\ next_id = 1
    /\ stash = [h \in Heaps |-> {}]
    /\ heaps = {} /\ made = 0 /\ global_heap = NoHeap
    /\ clock = 0
    /\ pump = Idle
    /\ owner = [i \in Ids |-> NoHeap]
    /\ fate = [i \in Ids |-> "unmade"]
    /\ strayed = {}

-----------------------------------------------------------------------------
(* The arena and the list.                                                 *)

(* The first free slot, or else the first of those that expire soonest.    *)
timer_alloc ==
    LET free == {s \in Slots : ~timer_arena[s].live}
        soonest == {s \in Slots : \A t \in Slots : timer_arena[s].expiry <= timer_arena[t].expiry}
    IN  Min(IF free # {} THEN free ELSE soonest)

timer_list_remove(list, s) == RemoveFirst(list, s)

(* Mutant: among equals the new timer comes first. *)
InsertFirst(list, arena, s) ==
    LET rest == timer_list_remove(list, s)
        later == {i \in DOMAIN rest : arena[rest[i]].expiry >= arena[s].expiry}
    IN  InsertAt(rest, IF later = {} THEN Len(rest) + 1 ELSE Min(later), s)

(* Unlinked if it is in the list, and put before the first that expires    *)
(* later.                                                                  *)
timer_list_insert(list, arena, s) ==
    LET rest == timer_list_remove(list, s)
        later == {i \in DOMAIN rest : arena[rest[i]].expiry > arena[s].expiry}
    IN  InsertAt(rest, IF later = {} THEN Len(rest) + 1 ELSE Min(later), s)

-----------------------------------------------------------------------------
(* What scripts do: of any window when the pump is idle, of the pumped     *)
(* heap in a callback.                                                     *)

InCallback == pump.slot # NoSlot /\ pump.called

(* The ids that end here, in the heap h: stashed in another, some stray.   *)
Strays(h, ids) == strayed' = strayed \cup {i \in ids : owner[i] # h}

MayRun(h) == h \in heaps /\ (~pump.on \/ (InCallback /\ h = global_heap))

(* Mutant: the callback of the timer that is dropped is kept. *)
CreateLeaking(h, repeating, delay) ==
    LET s == timer_alloc
        old == timer_arena[s]
        dropped == IF old.live THEN {old.id} ELSE {}
        new == [id |-> next_id, expiry |-> clock + delay, repeating |-> repeating,
                interval |-> delay, live |-> TRUE]
    IN
    /\ MayRun(h) /\ next_id <= MaxId
    /\ timer_arena' = [timer_arena EXCEPT ![s] = new]
    /\ timer_list' = timer_list_insert(timer_list, timer_arena', s)
    /\ next_id' = next_id + 1
    /\ stash' = [stash EXCEPT ![h] = @ \cup {next_id}]
    /\ owner' = [owner EXCEPT ![next_id] = h]
    /\ fate' = [i \in Ids |-> IF i = next_id THEN "pending"
                              ELSE IF i \in dropped /\ fate[i] = "pending" THEN "evicted"
                              ELSE fate[i]]
    /\ Strays(h, dropped)
    /\ UNCHANGED <<heaps, made, global_heap, clock, pump>>

timer_create(h, repeating, delay) ==
    LET s == timer_alloc
        old == timer_arena[s]
        dropped == IF old.live THEN {old.id} ELSE {}
        new == [id |-> next_id, expiry |-> clock + delay, repeating |-> repeating,
                interval |-> delay, live |-> TRUE]
    IN
    /\ MayRun(h) /\ next_id <= MaxId
    /\ timer_arena' = [timer_arena EXCEPT ![s] = new]
    /\ timer_list' = timer_list_insert(timer_list, timer_arena', s)
    /\ next_id' = next_id + 1
    /\ stash' = [stash EXCEPT ![h] = (@ \ dropped) \cup {next_id}]
    /\ owner' = [owner EXCEPT ![next_id] = h]
    /\ fate' = [i \in Ids |-> IF i = next_id THEN "pending"
                              ELSE IF i \in dropped /\ fate[i] = "pending" THEN "evicted"
                              ELSE fate[i]]
    /\ Strays(h, dropped)
    /\ UNCHANGED <<heaps, made, global_heap, clock, pump>>

macsurf_js_cleartimeout(h, id) ==
    \E s \in Slots :
       /\ MayRun(h)
       /\ timer_arena[s].live /\ timer_arena[s].id = id
       /\ timer_list' = timer_list_remove(timer_list, s)
       /\ stash' = [stash EXCEPT ![h] = @ \ {id}]
       /\ timer_arena' = [timer_arena EXCEPT ![s].live = FALSE]
       /\ fate' = [fate EXCEPT ![id] = IF @ = "pending" THEN "cleared" ELSE @]
       /\ Strays(h, {id})
       /\ UNCHANGED <<next_id, owner, heaps, made, global_heap, clock, pump>>

-----------------------------------------------------------------------------
(* Heaps, with windows.                                                    *)

js_newheap ==
    /\ ~pump.on /\ made < MaxHeaps
    /\ made' = made + 1
    /\ heaps' = heaps \cup {made + 1}
    /\ global_heap' = made + 1
    /\ UNCHANGED <<timers, clock, pump>>

js_destroyheap(h) ==
    /\ ~pump.on /\ h \in heaps
    /\ heaps' = heaps \ {h}
    /\ stash' = [stash EXCEPT ![h] = {}]
    /\ global_heap' = IF global_heap = h THEN NoHeap ELSE global_heap
    /\ UNCHANGED <<timer_arena, timer_list, next_id, owner, fate, strayed, made, clock, pump>>

Tick ==
    /\ clock < MaxTime
    /\ clock' = clock + 1
    /\ UNCHANGED <<timers, heaps, made, global_heap, pump>>

-----------------------------------------------------------------------------
(* macsurf_js_run_timers.                                                  *)

HeadDue(now) == timer_list # <<>> /\ timer_arena[Head(timer_list)].expiry <= now

(* macsurf_js_pump_timers calls it and there is something to do.           *)
PumpBegins ==
    /\ ~pump.on /\ global_heap # NoHeap /\ HeadDue(clock)
    /\ pump' = [Idle EXCEPT !.on = TRUE, !.now = clock]
    /\ UNCHANGED <<timers, heaps, made, global_heap, clock>>

(* The head is removed and its callback called, if this heap has it.       *)
Fire ==
    LET s == Head(timer_list)
        t == timer_arena[s]
        called == t.id \in stash[global_heap]
    IN
    /\ pump.on /\ pump.slot = NoSlot /\ HeadDue(pump.now)
    /\ timer_list' = timer_list_remove(timer_list, s)
    /\ pump' = [pump EXCEPT !.slot = s, !.id = t.id, !.called = called]
    /\ fate' = [i \in Ids |-> IF i = t.id /\ called /\ ~t.repeating THEN "fired" ELSE fate[i]]
    /\ UNCHANGED <<timer_arena, next_id, stash, owner, strayed, heaps, made, global_heap, clock>>

(* The loop ends if the clock has not advanced.                            *)
Looped ==
    IF clock <= pump.now THEN Idle
    ELSE [pump EXCEPT !.slot = NoSlot, !.id = 0, !.called = FALSE]

Rearm(s) ==
    /\ timer_arena' = [timer_arena EXCEPT ![s].expiry = pump.now + timer_arena[s].interval]
    /\ timer_list' = timer_list_insert(timer_list, timer_arena', s)
    /\ UNCHANGED <<stash, fate, strayed>>

Retire(s) ==
    LET id == timer_arena[s].id IN
    /\ timer_arena' = [timer_arena EXCEPT ![s].live = FALSE]
    /\ stash' = [stash EXCEPT ![global_heap] = @ \ {id}]
    /\ fate' = [i \in Ids |-> IF i = id /\ fate[i] = "pending" THEN "lost" ELSE fate[i]]
    /\ Strays(global_heap, {id} \cap Ids)
    /\ UNCHANGED timer_list

(* Mutant: an interval of 0 is not armed again. *)
CallbackEndsZero ==
    LET s == pump.slot
        t == timer_arena[s]
    IN
    /\ s # NoSlot
    /\ IF t.repeating /\ t.live /\ t.interval > 0 THEN Rearm(s) ELSE Retire(s)
    /\ pump' = Looped
    /\ UNCHANGED <<next_id, owner, heaps, made, global_heap, clock>>

(* Mutant: a timer is armed again whether it repeats or not. *)
CallbackEndsAgain ==
    LET s == pump.slot IN
    /\ s # NoSlot
    /\ IF timer_arena[s].live THEN Rearm(s) ELSE Retire(s)
    /\ pump' = Looped
    /\ UNCHANGED <<next_id, owner, heaps, made, global_heap, clock>>

(* What follows the callback looks at the slot again, which may have been  *)
(* cleared, or given to a new timer, meanwhile.                            *)
CallbackEnds ==
    LET s == pump.slot
        t == timer_arena[s]
    IN
    /\ s # NoSlot
    /\ IF t.repeating /\ t.live THEN Rearm(s) ELSE Retire(s)
    /\ pump' = Looped
    /\ UNCHANGED <<next_id, owner, heaps, made, global_heap, clock>>

PumpEnds ==
    /\ pump.on /\ pump.slot = NoSlot /\ ~HeadDue(pump.now)
    /\ pump' = Idle
    /\ UNCHANGED <<timers, heaps, made, global_heap, clock>>

-----------------------------------------------------------------------------
Script ==
    \E h \in Heaps :
       \/ \E repeating \in BOOLEAN, delay \in Delays : timer_create(h, repeating, delay)
       \/ \E id \in Ids : macsurf_js_cleartimeout(h, id)

Windows == js_newheap \/ (\E h \in Heaps : js_destroyheap(h))

Pump == PumpBegins \/ Fire \/ CallbackEnds \/ PumpEnds

Next == Script \/ Windows \/ Pump \/ Tick

(* The event loop comes round, and callbacks return.                       *)
Spec == Init /\ [][Next]_vars /\ WF_vars(Pump)

-----------------------------------------------------------------------------
(* Properties.                                                             *)

ListSound ==
    /\ \A i, j \in DOMAIN timer_list :
          i < j => /\ timer_list[i] # timer_list[j]
                   /\ timer_arena[timer_list[i]].expiry <= timer_arena[timer_list[j]].expiry
    /\ \A s \in Slots : timer_arena[s].live => s \in Range(timer_list) \/ s = pump.slot

CallbackHeld ==
    \A s \in Slots : timer_arena[s].live /\ owner[timer_arena[s].id] \in heaps =>
        timer_arena[s].id \in stash[owner[timer_arena[s].id]]

NoLeaks ==
    \A h \in heaps : \A id \in stash[h] \ strayed :
        \E s \in Slots : timer_arena[s].live /\ timer_arena[s].id = id

(* However callbacks set and clear timers while the list is walked, with   *)
(* slots dropped for new timers when the arena is full: the list stays in  *)
(* the order of expiry, has no slot twice, and has every live timer but    *)
(* the one that is running; a live timer's callback is in its heap, and    *)
(* ("without leaking") a callback in a heap has a live timer, but for      *)
(* timers that were dropped, cleared or fired by another window's heap.    *)
TimersSound == TypeOK /\ ListSound /\ CallbackHeld /\ NoLeaks

(* A callback runs only for a timer that is pending and due: never again   *)
(* for a one-shot timer, never after clearTimeout, whichever of the slot,  *)
(* the list and the stash was changed meanwhile.                           *)
FiresPending ==
    [][~InCallback /\ InCallback' =>
          /\ fate[pump'.id] = "pending"
          /\ timer_arena[pump'.slot].live /\ timer_arena[pump'.slot].expiry <= clock]_vars

(* A timer is lost in two ways only: it belongs to another heap than the   *)
(* one that is pumped, or it was set by a callback that had the arena full *)
(* or had cleared itself, and got the slot of the timer running.           *)
LostOnly ==
    [][\A i \in Ids : fate[i] = "pending" /\ fate'[i] = "lost" =>
          owner[i] # global_heap \/ pump.id # i]_vars

DueOnce(i) ==
    \E s \in Slots : /\ timer_arena[s].live /\ timer_arena[s].id = i
                     /\ ~timer_arena[s].repeating /\ timer_arena[s].expiry <= clock

(* The clock has advanced within the pump, so that the test that is to     *)
(* stop it ("avoids a pathological 0ms setInterval locking the event       *)
(* loop") never holds, and there is an interval of 0 to keep it busy.      *)
Locked ==
    /\ pump.on /\ clock > pump.now
    /\ \E s \in Slots : /\ timer_arena[s].live /\ timer_arena[s].repeating
                        /\ timer_arena[s].interval = 0

(* A one-shot timer that is due runs, or is cleared, dropped or lost, and  *)
(* is not starved by other intervals or by timers set in callbacks, as     *)
(* long as there is a heap to pump; except that an interval of 0 can keep  *)
(* the pump, and with it the event loop, for ever.                         *)
DueFires ==
    \A i \in Ids : DueOnce(i) ~> (fate[i] # "pending" \/ global_heap = NoHeap \/ Locked)
=============================================================================
