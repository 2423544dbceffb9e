----------------------------- MODULE FetchCore -----------------------------
(***************************************************************************)
(* content/fetch.c: the registry of running fetches.  A fetch is made by   *)
(* fetch_start(), waits on queue_ring, is moved to fetch_ring by           *)
(* fetch_dispatch_jobs() when the two caps allow it, and is taken off its  *)
(* ring and freed by its fetcher.  Polls come from the event loop          *)
(* (fetch_pump) and from a timer (fetcher_poll) that keeps itself armed.   *)
(*                                                                         *)
(* The client is content/llcache.c: it starts fetches, hears their         *)
(* messages, and may abort a fetch and destroy its own object.             *)
(*                                                                         *)
(* Abstractions: a member of Fetches is one struct fetch, used once;       *)
(* fetch_ring is a set (nothing depends on its order); last_msg is kept as *)
(* "a finishing message or an abort was seen"; messages before the         *)
(* finishing one are not recorded.                                         *)
(***************************************************************************)
EXTENDS Naturals, FiniteSets, Sequences, SequencesExt

CONSTANTS
    Fetches,      \* every fetch that may be started
    HostOf,       \* the host of each fetch's URL
    MaxFetchers,  \* nsoption max_fetchers
    MaxPerHost    \* nsoption max_fetchers_per_host

ASSUME CapAssumption == MaxFetchers \in Nat \ {0} /\ MaxPerHost \in Nat \ {0}

VARIABLES
    queue_ring,   \* fetches waiting for dispatch, head first
    fetch_ring,   \* fetches handed to their fetcher
    fetch,        \* the struct fetch of each fetch
    client,       \* what llcache holds for each fetch
    told,         \* how many finishing messages each fetch has sent
    caller,       \* who called fetch_dispatch_jobs, while it loops
    poller,       \* who called the fetchers' poll operations, while they run
    armed         \* "yes": fetcher_poll is on the timer queue; "failed": its last
                  \* schedule() took it off and ran out of memory

ringVars == <<queue_ring, fetch_ring>>
clientVars == <<client, told>>
loopVars == <<caller, poller, armed>>
coreVars == <<ringVars, fetch, clientVars, loopVars>>

CoreTypeOK ==
    /\ queue_ring \in Seq(Fetches)
    /\ fetch_ring \in SUBSET Fetches
    /\ fetch \in [Fetches -> [life : {"none", "live", "freed"},
                              active : BOOLEAN,
                              last : {"unfinished", "finished"}]]
    /\ client \in [Fetches -> {"none", "refused", "waiting", "ended", "dropped", "gone"}]
    /\ told \in [Fetches -> Nat]
    /\ caller \in {"no", "start", "timer", "pump"}
    /\ poller \in {"no", "timer", "pump"}
    /\ armed \in {"no", "yes", "failed"}

CoreInit ==
    /\ queue_ring = <<>>
    /\ fetch_ring = {}
    /\ fetch = [f \in Fetches |-> [life |-> "none", active |-> FALSE, last |-> "unfinished"]]
    /\ client = [f \in Fetches |-> "none"]
    /\ told = [f \in Fetches |-> 0]
    /\ caller = "no"
    /\ poller = "no"
    /\ armed = "no"

-----------------------------------------------------------------------------
(* Dispatch.                                                               *)

CountByHost(h) == Cardinality({f \in fetch_ring : HostOf[f] = h})

(* Mutant: the per-host cap is off by one. *)
HasRoomOffByOne(f) == CountByHost(HostOf[f]) <= MaxPerHost

HasRoom(f) == CountByHost(HostOf[f]) < MaxPerHost

(* Mutant: the queue is walked from its tail. *)
ChosenFromTail(i) ==
    /\ i \in DOMAIN queue_ring
    /\ HasRoom(queue_ring[i])
    /\ \A j \in DOMAIN queue_ring : j > i => ~HasRoom(queue_ring[j])

(* fetch_choose_and_dispatch: the first queued fetch whose host has room.  *)
(* (Skipping the rest of a run of one host changes nothing: they have no   *)
(* room either.)                                                           *)
Chosen(i) ==
    /\ i \in DOMAIN queue_ring
    /\ HasRoom(queue_ring[i])
    /\ \A j \in 1..(i - 1) : ~HasRoom(queue_ring[j])

MayDispatch ==
    /\ caller # "no"
    /\ Cardinality(fetch_ring) < MaxFetchers
    /\ \E i \in DOMAIN queue_ring : Chosen(i)

(* Mutant: fetch_is_active is never set. *)
MarkActiveForgotten(f) == fetch

MarkActive(f) == [fetch EXCEPT ![f].active = TRUE]

(* One turn of the loop in fetch_dispatch_jobs; every macos9 ops.start      *)
(* succeeds, so fetch_dispatch_job never puts the fetch back.              *)
DispatchJob(i) ==
    /\ MayDispatch
    /\ Chosen(i)
    /\ queue_ring' = RemoveAt(queue_ring, i)
    /\ fetch_ring' = fetch_ring \cup {queue_ring[i]}
    /\ fetch' = MarkActive(queue_ring[i])
    /\ UNCHANGED <<clientVars, loopVars>>

(* Mutant: fetch_start leaves the timer alone. *)
DispatchReturnsUnarmed ==
    /\ caller # "no"
    /\ ~MayDispatch
    /\ poller' = IF caller = "timer" /\ fetch_ring = {} THEN "no" ELSE poller
    /\ caller' = "no"
    /\ UNCHANGED <<armed, ringVars, fetch, clientVars>>

(* schedule(fetcher_poll): macos9_schedule takes the old entry off before  *)
(* it allocates the new one, and fetch.c ignores NSERROR_NOMEM.            *)
Schedule == armed' \in {"yes", "failed"}

(* The loop ends.  fetch_start schedules the timer if anything is active;  *)
(* fetcher_poll goes on to poll only if anything is active.                *)
DispatchReturns ==
    /\ caller # "no"
    /\ ~MayDispatch
    /\ IF caller = "start" /\ fetch_ring # {} THEN Schedule ELSE UNCHANGED armed
    /\ poller' = IF caller = "timer" /\ fetch_ring = {} THEN "no" ELSE poller
    /\ caller' = "no"
    /\ UNCHANGED <<ringVars, fetch, clientVars>>

(* fetch_pump, called from every pass of the event loop.                   *)
FetchPump ==
    /\ caller = "no" /\ poller = "no"
    /\ caller' = "pump"
    /\ poller' = "pump"
    /\ UNCHANGED <<armed, ringVars, fetch, clientVars>>

(* fetcher_poll, called by macos9_schedule_run.                            *)
FetcherPoll ==
    /\ caller = "no" /\ poller = "no" /\ armed = "yes"
    /\ armed' = "no"
    /\ caller' = "timer"
    /\ poller' = "timer"
    /\ UNCHANGED <<ringVars, fetch, clientVars>>

(* The fetchers have been polled; fetcher_poll schedules itself again.     *)
PollsDone ==
    /\ caller = "no" /\ poller # "no"
    /\ IF poller = "timer" THEN Schedule ELSE UNCHANGED armed
    /\ poller' = "no"
    /\ UNCHANGED <<caller, ringVars, fetch, clientVars>>

-----------------------------------------------------------------------------
(* What the client does.                                                   *)

(* fetch_start(), the fetcher's setup having accepted the fetch.           *)
FetchStart(f) ==
    /\ caller = "no" /\ client[f] = "none"
    /\ queue_ring' = Append(queue_ring, f)
    /\ fetch' = [fetch EXCEPT ![f].life = "live"]
    /\ client' = [client EXCEPT ![f] = "waiting"]
    /\ caller' = "start"
    /\ UNCHANGED <<fetch_ring, told, poller, armed>>

(* fetch_start(), setup having returned NULL: NSERROR_BAD_URL.             *)
FetchRefused(f) ==
    /\ caller = "no" /\ client[f] = "none"
    /\ client' = [client EXCEPT ![f] = "refused"]
    /\ UNCHANGED <<ringVars, fetch, told, loopVars>>

(* fetch_abort(), after which llcache forgets the fetch.                   *)
FetchAbort(f) ==
    /\ caller = "no" /\ client[f] = "waiting"
    /\ fetch' = [fetch EXCEPT ![f].last = "finished"]
    /\ client' = [client EXCEPT ![f] = "dropped"]
    /\ UNCHANGED <<ringVars, told, loopVars>>

(* llcache_object_destroy() from llcache_clean(): nothing keeps an object  *)
(* whose fetch pointer is NULL and that has no users.                      *)
ObjectDestroy(f) ==
    /\ caller = "no" /\ client[f] = "dropped"
    /\ client' = [client EXCEPT ![f] = "gone"]
    /\ UNCHANGED <<ringVars, fetch, told, loopVars>>

-----------------------------------------------------------------------------
(* What a fetcher does from its poll operation.                            *)

(* llcache_fetch_callback for a finishing message: the object lets go of   *)
(* the fetch.                                                              *)
Hears(c) == IF c = "waiting" THEN "ended" ELSE c

(* RING_REMOVE on queue_ring. *)
Unlink(q, f) ==
    IF \E i \in DOMAIN q : q[i] = f
    THEN RemoveAt(q, CHOOSE i \in DOMAIN q : q[i] = f)
    ELSE q

(* fetch_remove_from_queues: the ring is picked by fetch_is_active.        *)
fetch_remove_from_queues(f) ==
    IF fetch[f].active
    THEN fetch_ring' = fetch_ring \ {f} /\ UNCHANGED queue_ring
    ELSE queue_ring' = Unlink(queue_ring, f) /\ UNCHANGED fetch_ring

(* Mutant: last_msg is not bumped. *)
SendFinishingUnrecorded(f) ==
    /\ told' = [told EXCEPT ![f] = @ + 1]
    /\ client' = [client EXCEPT ![f] = Hears(@)]
    /\ UNCHANGED fetch

(* A finishing message by fetch_send_callback, the fetch living on.        *)
SendFinishing(f) ==
    /\ fetch' = [fetch EXCEPT ![f].last = "finished"]
    /\ told' = [told EXCEPT ![f] = @ + 1]
    /\ client' = [client EXCEPT ![f] = Hears(@)]

(* fetch_remove_from_queues then fetch_free, which sends FETCH_ERROR       *)
(* itself if nothing finishing was sent yet.                               *)
RemoveAndFree(f) ==
    /\ fetch_remove_from_queues(f)
    /\ fetch' = [fetch EXCEPT ![f] = [life |-> "freed", active |-> FALSE, last |-> "finished"]]
    /\ IF fetch[f].last = "finished"
       THEN UNCHANGED clientVars
       ELSE /\ told' = [told EXCEPT ![f] = @ + 1]
            /\ client' = [client EXCEPT ![f] = Hears(@)]

(* A finishing message whose callback cannot re-enter, then the release.   *)
FinishAndFree(f) ==
    /\ told' = [told EXCEPT ![f] = @ + 1]
    /\ client' = [client EXCEPT ![f] = Hears(@)]
    /\ fetch_remove_from_queues(f)
    /\ fetch' = [fetch EXCEPT ![f] = [life |-> "freed", active |-> FALSE, last |-> "finished"]]

(* Any fetcher: while polled it may send one finishing message to the      *)
(* client, and may end any fetch it was given, with that message or        *)
(* without.                                                                *)
Polled(f) == caller = "no" /\ poller # "no" /\ fetch[f].life = "live"

AnyNotify(f) ==
    /\ Polled(f) /\ told[f] = 0
    /\ SendFinishing(f)
    /\ UNCHANGED <<ringVars, loopVars>>

AnyFinish(f) ==
    /\ Polled(f) /\ told[f] = 0
    /\ FinishAndFree(f)
    /\ UNCHANGED loopVars

AnyFree(f) == Polled(f) /\ RemoveAndFree(f) /\ UNCHANGED loopVars

CoreNext ==
    \/ \E i \in DOMAIN queue_ring : DispatchJob(i)
    \/ DispatchReturns
    \/ FetchPump
    \/ FetcherPoll
    \/ PollsDone
    \/ \E f \in Fetches :
          \/ FetchStart(f)
          \/ FetchRefused(f)
          \/ FetchAbort(f)
          \/ ObjectDestroy(f)
          \/ AnyNotify(f)
          \/ AnyFinish(f)
          \/ AnyFree(f)

CoreSpec == CoreInit /\ [][CoreNext]_coreVars

-----------------------------------------------------------------------------
(* Properties.                                                             *)

(* A fetch is allocated exactly while it is on one ring, the queue lists it *)
(* once, and fetch_is_active says which ring: otherwise                    *)
(* fetch_remove_from_queues unlinks it from the wrong list and the next    *)
(* RING_GETSIZE walks freed memory.                                        *)
RingsAgree ==
    /\ \A i, j \in DOMAIN queue_ring : queue_ring[i] = queue_ring[j] => i = j
    /\ \A i \in DOMAIN queue_ring : queue_ring[i] \notin fetch_ring
    /\ \A f \in Fetches :
          /\ fetch[f].life = "live" <=>
                f \in fetch_ring \/ \E i \in DOMAIN queue_ring : queue_ring[i] = f
          /\ fetch[f].active <=> f \in fetch_ring

(* fetch_dispatch_jobs never runs more fetches than the options allow, in  *)
(* total or for one host, whatever was started, ended or aborted.          *)
CapsRespected ==
    /\ Cardinality(fetch_ring) <= MaxFetchers
    /\ \A f \in Fetches : CountByHost(HostOf[f]) <= MaxPerHost

(* Whenever a fetch is on a ring and control is back in the event loop,    *)
(* the timer that polls the fetchers is armed, unless its last schedule()  *)
(* failed: only an allocation failure, whose NSERROR_NOMEM fetch.c ignores, *)
(* leaves running fetches to fetch_pump alone.                             *)
PollChainAlive ==
    caller = "no" /\ poller = "no" /\ (queue_ring # <<>> \/ fetch_ring # {})
        => armed \in {"yes", "failed"}

(* A fetch sends at most one finishing message in its life, and one that   *)
(* is freed with its client still waiting has sent it.                     *)
OneEnding ==
    \A f \in Fetches :
        /\ told[f] <= 1
        /\ fetch[f].life = "freed" => client[f] # "waiting"

(* Of two queued fetches of one host the one queued first is dispatched    *)
(* first.                                                                  *)
HostOrder ==
    [][\A i, j \in DOMAIN queue_ring :
          /\ i < j
          /\ HostOf[queue_ring[i]] = HostOf[queue_ring[j]]
          /\ queue_ring[j] \in fetch_ring'
          => \A k \in DOMAIN queue_ring' : queue_ring'[k] # queue_ring[i]]_coreVars

(* Every fetch that is started leaves the rings, and so its client hears   *)
(* an ending.  Whether it does depends on the fetcher behind fetch.c: the  *)
(* two network fetchers check it, each under its own fairness.             *)
EveryFetchEnds ==
    \A f \in Fetches : fetch[f].life = "live" ~> fetch[f].life = "freed"

=============================================================================
