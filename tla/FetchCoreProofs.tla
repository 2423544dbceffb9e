-------------------------- MODULE FetchCoreProofs --------------------------
(***************************************************************************)
(* Proofs about fetch.c for every set of fetches, hosts and caps.  The     *)
(* lemmas are about the operations, so that they serve the specification   *)
(* with any fetcher (CoreSpec) and the ones built on it.                   *)
(***************************************************************************)
EXTENDS FetchCore, SeqLemmas, FiniteSetTheorems

Freed == [life |-> "freed", active |-> FALSE, last |-> "finished"]

(* RingsAgree in terms of what the queue holds.                            *)
LEMMA RingsAgreeRestated ==
    RingsAgree <=>
       /\ Distinct(queue_ring)
       /\ \A f : f \in fetch_ring => ~Holds(queue_ring, f)
       /\ \A f \in Fetches :
             /\ fetch[f].life = "live" <=> f \in fetch_ring \/ Holds(queue_ring, f)
             /\ fetch[f].active <=> f \in fetch_ring
  BY DEF RingsAgree, Distinct, Holds

LEMMA RingsAgreeRestatedNext ==
    RingsAgree' <=>
       /\ Distinct(queue_ring')
       /\ \A f : f \in fetch_ring' => ~Holds(queue_ring', f)
       /\ \A f \in Fetches :
             /\ fetch'[f].life = "live" <=> f \in fetch_ring' \/ Holds(queue_ring', f)
             /\ fetch'[f].active <=> f \in fetch_ring'
  BY DEF RingsAgree, Distinct, Holds

(* The chosen fetch moves from the queue to the ring.                      *)
LEMMA DispatchRings ==
    ASSUME CoreTypeOK, RingsAgree, NEW i \in DOMAIN queue_ring, DispatchJob(i)
    PROVE  /\ CoreTypeOK'
           /\ RingsAgree'
<1> DEFINE g == queue_ring[i]
<1>1. g \in Fetches /\ Holds(queue_ring, g) /\ g \notin fetch_ring
  BY ElementOfSeq, RingsAgreeRestated DEF CoreTypeOK, Holds
<1>2. /\ queue_ring' \in Seq(Fetches)
      /\ Distinct(queue_ring')
      /\ \A x : Holds(queue_ring', x) <=> Holds(queue_ring, x) /\ x # g
  BY RemoveDistinct, RingsAgreeRestated DEF CoreTypeOK, DispatchJob
<1>3. fetch_ring' = fetch_ring \cup {g}
  BY DEF DispatchJob
<1>4. fetch' = [fetch EXCEPT ![g].active = TRUE]
  BY DEF DispatchJob, MarkActive
<1>5. UNCHANGED <<client, told, caller, poller, armed>>
  BY DEF DispatchJob, clientVars, loopVars
<1> HIDE DEF g
<1>6. CoreTypeOK'
  BY <1>1, <1>2, <1>3, <1>4, <1>5 DEF CoreTypeOK
<1>7. \A f \in Fetches : /\ fetch'[f].life = fetch[f].life
                         /\ fetch'[f].active <=> (fetch[f].active \/ f = g)
  BY <1>1, <1>4 DEF CoreTypeOK
<1>8. RingsAgree'
  BY <1>1, <1>2, <1>3, <1>7, RingsAgreeRestated, RingsAgreeRestatedNext
<1> QED BY <1>6, <1>8

(* A new fetch joins the queue.                                            *)
LEMMA StartRings ==
    ASSUME CoreTypeOK, RingsAgree, NEW f \in Fetches, fetch[f].life = "none", FetchStart(f)
    PROVE  /\ CoreTypeOK'
           /\ RingsAgree'
<1>1. f \notin fetch_ring /\ ~Holds(queue_ring, f)
  BY RingsAgreeRestated
<1>2. /\ queue_ring' \in Seq(Fetches)
      /\ Distinct(queue_ring')
      /\ \A x : Holds(queue_ring', x) <=> Holds(queue_ring, x) \/ x = f
  BY <1>1, AppendDistinct, RingsAgreeRestated DEF CoreTypeOK, FetchStart
<1>3. /\ fetch' = [fetch EXCEPT ![f].life = "live"]
      /\ client' = [client EXCEPT ![f] = "waiting"]
      /\ caller' = "start"
      /\ UNCHANGED <<fetch_ring, told, poller, armed>>
  BY DEF FetchStart
<1>4. CoreTypeOK'
  BY <1>2, <1>3 DEF CoreTypeOK
<1>5. \A g \in Fetches : /\ fetch'[g].life = "live" <=> (fetch[g].life = "live" \/ g = f)
                         /\ fetch'[g].active <=> fetch[g].active
  BY <1>3 DEF CoreTypeOK
<1>6. RingsAgree'
  BY <1>1, <1>2, <1>3, <1>5, RingsAgreeRestated, RingsAgreeRestatedNext
<1> QED BY <1>4, <1>6

(* fetch_remove_from_queues and fetch_free take one fetch away.            *)
LEMMA ReleaseRings ==
    ASSUME CoreTypeOK, RingsAgree, NEW f \in Fetches, fetch[f].life = "live",
           fetch_remove_from_queues(f), fetch' = [fetch EXCEPT ![f] = Freed]
    PROVE  /\ queue_ring' \in Seq(Fetches)
           /\ fetch_ring' = fetch_ring \ {f}
           /\ \A x : Holds(queue_ring', x) <=> Holds(queue_ring, x) /\ x # f
           /\ fetch' \in [Fetches -> [life : {"none", "live", "freed"},
                                      active : BOOLEAN,
                                      last : {"unfinished", "finished"}]]
           /\ RingsAgree'
<1>1. /\ queue_ring' \in Seq(Fetches)
      /\ Distinct(queue_ring')
      /\ fetch_ring' = fetch_ring \ {f}
      /\ \A x : Holds(queue_ring', x) <=> Holds(queue_ring, x) /\ x # f
  <2>1. CASE fetch[f].active
    <3>1. fetch_ring' = fetch_ring \ {f} /\ queue_ring' = queue_ring
      BY <2>1 DEF fetch_remove_from_queues
    <3>2. ~Holds(queue_ring, f)
      BY <2>1, RingsAgreeRestated
    <3> QED BY <3>1, <3>2, RingsAgreeRestated DEF CoreTypeOK
  <2>2. CASE ~fetch[f].active
    <3>1. f \notin fetch_ring /\ Holds(queue_ring, f)
      BY <2>2, RingsAgreeRestated
    <3> DEFINE n == CHOOSE i \in DOMAIN queue_ring : queue_ring[i] = f
    <3>2. n \in DOMAIN queue_ring /\ queue_ring[n] = f
      BY <3>1 DEF Holds
    <3>3. queue_ring' = RemoveAt(queue_ring, n) /\ fetch_ring' = fetch_ring
      BY <2>2, <3>1 DEF fetch_remove_from_queues, Unlink, Holds
    <3> HIDE DEF n
    <3>4. /\ queue_ring' \in Seq(Fetches)
          /\ Distinct(queue_ring')
          /\ \A x : Holds(queue_ring', x) <=> Holds(queue_ring, x) /\ x # queue_ring[n]
      BY <3>2, <3>3, RemoveDistinct, RingsAgreeRestated DEF CoreTypeOK
    <3> QED BY <3>1, <3>2, <3>3, <3>4
  <2> QED BY <2>1, <2>2
<1>2. \A g \in Fetches : g # f => fetch'[g] = fetch[g]
  BY DEF CoreTypeOK
<1>3. fetch'[f].life = "freed" /\ fetch'[f].active = FALSE
  BY DEF CoreTypeOK, Freed
<1>4. RingsAgree'
  <2>1. ASSUME NEW g \in Fetches
        PROVE  /\ fetch'[g].life = "live" <=> g \in fetch_ring' \/ Holds(queue_ring', g)
               /\ fetch'[g].active <=> g \in fetch_ring'
    <3>1. CASE g = f BY <3>1, <1>1, <1>3
    <3>2. CASE g # f BY <3>2, <1>1, <1>2, RingsAgreeRestated
    <3> QED BY <3>1, <3>2
  <2> QED BY <1>1, <2>1, RingsAgreeRestated, RingsAgreeRestatedNext
<1> QED BY <1>1, <1>4 DEF CoreTypeOK, Freed
-----------------------------------------------------------------------------
(* The caps.                                                               *)

CapsInv == IsFiniteSet(fetch_ring) /\ CapsRespected

OfHost(S, h) == {f \in S : HostOf[f] = h}

(* A dispatch is only made when both counts are below their caps, and it   *)
(* raises the total and one host's count by one.                           *)
LEMMA DispatchCaps ==
    ASSUME CoreTypeOK, RingsAgree, CapsInv, NEW i \in DOMAIN queue_ring, DispatchJob(i)
    PROVE  CapsInv'
<1> DEFINE g == queue_ring[i]
<1>1. g \in Fetches /\ g \notin fetch_ring
  BY ElementOfSeq DEF CoreTypeOK, RingsAgree
<1>2. fetch_ring' = fetch_ring \cup {g}
  BY DEF DispatchJob
<1>3. Cardinality(fetch_ring) < MaxFetchers /\ Cardinality(OfHost(fetch_ring, HostOf[g])) < MaxPerHost
  BY DEF DispatchJob, MayDispatch, Chosen, HasRoom, CountByHost, OfHost
<1> HIDE DEF g
<1>4. /\ IsFiniteSet(fetch_ring')
      /\ Cardinality(fetch_ring') = Cardinality(fetch_ring) + 1
      /\ Cardinality(fetch_ring) \in Nat
  BY <1>1, <1>2, FS_AddElement, FS_CardinalityType DEF CapsInv
<1>5. Cardinality(fetch_ring') <= MaxFetchers
  BY <1>3, <1>4, CapAssumption
<1>6. ASSUME NEW f \in Fetches
      PROVE  Cardinality(OfHost(fetch_ring', HostOf[f])) <= MaxPerHost
  <2> DEFINE h == HostOf[f]
             S == OfHost(fetch_ring, h)
             T == OfHost(fetch_ring', h)
  <2>1. S \in SUBSET fetch_ring /\ g \notin S
    BY <1>1 DEF OfHost
  <2>2. IsFiniteSet(S)
    BY <2>1, FS_Subset DEF CapsInv
  <2>3. Cardinality(S) \in Nat /\ Cardinality(S) <= MaxPerHost
    BY <2>2, FS_CardinalityType DEF CapsInv, CapsRespected, CountByHost, OfHost
  <2>4. CASE HostOf[g] = h
    <3>1. T = S \cup {g} BY <2>4, <1>2 DEF OfHost
    <3>2. Cardinality(S) < MaxPerHost BY <2>4, <1>3
    <3> HIDE DEF S, T
    <3>3. Cardinality(T) = Cardinality(S) + 1 BY <3>1, <2>1, <2>2, FS_AddElement
    <3>4. Cardinality(T) <= MaxPerHost BY <3>2, <3>3, <2>3, CapAssumption
    <3> QED BY <3>4 DEF T
  <2>5. CASE HostOf[g] # h
    <3>1. T = S BY <2>5, <1>2 DEF OfHost
    <3> QED BY <3>1, <2>3
  <2> QED BY <2>4, <2>5
<1> QED BY <1>4, <1>5, <1>6 DEF CapsInv, CapsRespected, CountByHost, OfHost

(* No other step adds to fetch_ring.                                       *)
LEMMA ShrinkCaps ==
    ASSUME CapsInv, fetch_ring' \in SUBSET fetch_ring
    PROVE  CapsInv'
<1>1. /\ IsFiniteSet(fetch_ring')
      /\ Cardinality(fetch_ring') \in Nat
      /\ Cardinality(fetch_ring) \in Nat
      /\ Cardinality(fetch_ring') <= Cardinality(fetch_ring)
  BY FS_Subset, FS_CardinalityType DEF CapsInv
<1>2. Cardinality(fetch_ring') <= MaxFetchers
  BY <1>1, CapAssumption DEF CapsInv, CapsRespected
<1>3. ASSUME NEW f \in Fetches
      PROVE  Cardinality(OfHost(fetch_ring', HostOf[f])) <= MaxPerHost
  <2> DEFINE S == OfHost(fetch_ring, HostOf[f])
             T == OfHost(fetch_ring', HostOf[f])
  <2>1. S \in SUBSET fetch_ring /\ T \in SUBSET S
    BY DEF OfHost
  <2>2. IsFiniteSet(S)
    BY <2>1, FS_Subset DEF CapsInv
  <2>3. Cardinality(S) <= MaxPerHost
    BY DEF CapsInv, CapsRespected, CountByHost, OfHost
  <2> HIDE DEF S, T
  <2>4. /\ Cardinality(T) <= Cardinality(S)
        /\ Cardinality(S) \in Nat
        /\ Cardinality(T) \in Nat
    BY <2>1, <2>2, FS_Subset, FS_CardinalityType
  <2>5. Cardinality(T) <= MaxPerHost
    BY <2>3, <2>4, CapAssumption
  <2> QED BY <2>5 DEF T
<1> QED BY <1>1, <1>2, <1>3 DEF CapsInv, CapsRespected, CountByHost, OfHost

-----------------------------------------------------------------------------
(* The poll timer.                                                         *)

(* While anything is on a ring the timer is armed or could not be, or its  *)
(* callback or fetch_start is still running and about to schedule it.      *)
ChainInv ==
    /\ queue_ring # <<>> \/ fetch_ring # {} =>
          armed # "no" \/ poller = "timer" \/ caller = "start"
    /\ caller = "timer" => poller = "timer"
    /\ caller = "pump" => poller = "pump"

(* An empty fetch_ring always has room for the head of the queue, so the   *)
(* dispatch loop never ends with a queue and nothing active.               *)
LEMMA EmptyRingDispatches ==
    ASSUME CoreTypeOK, caller # "no", fetch_ring = {}, queue_ring # <<>>
    PROVE  MayDispatch
<1>1. Cardinality(fetch_ring) = 0 /\ \A h : CountByHost(h) = 0
  BY FS_EmptySet DEF CountByHost
<1>2. 1 \in DOMAIN queue_ring
  BY EmptySeq, LenProperties DEF CoreTypeOK
<1>3. Chosen(1)
  BY <1>1, <1>2, CapAssumption DEF Chosen, HasRoom
<1> QED BY <1>1, <1>2, <1>3, CapAssumption DEF MayDispatch

LEMMA DispatchReturnsChain ==
    ASSUME CoreTypeOK, ChainInv, DispatchReturns
    PROVE  ChainInv'
<1>1. fetch_ring = {} => queue_ring = <<>>
  BY EmptyRingDispatches DEF DispatchReturns
<1> QED BY <1>1 DEF CoreTypeOK, ChainInv, DispatchReturns, Schedule, ringVars

-----------------------------------------------------------------------------
(* The ending of a fetch.                                                  *)

(* llcache waits only for a live fetch that has sent nothing finishing and *)
(* was not aborted, so fetch_free's own FETCH_ERROR is never a second one. *)
EndsInv ==
    \A f \in Fetches :
        /\ fetch[f].life = "none" <=> client[f] \in {"none", "refused"}
        /\ fetch[f].life = "none" => fetch[f].last = "unfinished"
        /\ client[f] = "waiting" => fetch[f].life = "live" /\ fetch[f].last = "unfinished"
        /\ fetch[f].last = "unfinished" => told[f] = 0
        /\ told[f] \in {0, 1}

CoreIInv ==
    /\ CoreTypeOK
    /\ RingsAgree
    /\ CapsInv
    /\ ChainInv
    /\ EndsInv

LEMMA CoreInitIInv == CoreInit => CoreIInv
<1> SUFFICES ASSUME CoreInit PROVE CoreIInv
  OBVIOUS
<1>1. queue_ring = <<>> /\ DOMAIN queue_ring = {} /\ queue_ring \in Seq(Fetches)
  BY DEF CoreInit
<1>2. CoreTypeOK
  BY <1>1 DEF CoreInit, CoreTypeOK
<1>3. RingsAgree
  BY <1>1 DEF CoreInit, RingsAgree
<1>4. CapsInv
  <2>1. IsFiniteSet(fetch_ring) /\ Cardinality(fetch_ring) = 0 /\ \A h : CountByHost(h) = 0
    BY FS_EmptySet DEF CoreInit, CountByHost
  <2> QED BY <2>1, CapAssumption DEF CapsInv, CapsRespected
<1>5. ChainInv /\ EndsInv
  BY DEF CoreInit, ChainInv, EndsInv
<1> QED BY <1>2, <1>3, <1>4, <1>5 DEF CoreIInv

(* A step of a fetcher that frees a fetch, whatever the fetch sends.       *)
LEMMA ReleaseIInv ==
    ASSUME CoreIInv, NEW f \in Fetches, fetch[f].life = "live",
           fetch_remove_from_queues(f), fetch' = [fetch EXCEPT ![f] = Freed],
           UNCHANGED loopVars,
           \/ /\ told' = [told EXCEPT ![f] = @ + 1]
              /\ client' = [client EXCEPT ![f] = Hears(@)]
              /\ told[f] = 0
           \/ /\ UNCHANGED clientVars
              /\ fetch[f].last = "finished"
    PROVE  CoreIInv'
<1> USE DEF CoreIInv
<1>1. /\ queue_ring' \in Seq(Fetches)
      /\ fetch_ring' = fetch_ring \ {f}
      /\ \A x : Holds(queue_ring', x) <=> Holds(queue_ring, x) /\ x # f
      /\ fetch' \in [Fetches -> [life : {"none", "live", "freed"},
                                 active : BOOLEAN,
                                 last : {"unfinished", "finished"}]]
      /\ RingsAgree'
  BY ReleaseRings
<1>2. \A g \in Fetches : g # f => fetch'[g] = fetch[g] /\ client'[g] = client[g] /\ told'[g] = told[g]
  BY DEF CoreTypeOK, clientVars
<1>3. /\ fetch'[f].life = "freed"
      /\ fetch'[f].last = "finished"
      /\ told'[f] \in {0, 1}
      /\ client'[f] \in {"ended", "dropped", "gone"}
  BY DEF CoreTypeOK, Freed, EndsInv, Hears, clientVars
<1>4. /\ client' \in [Fetches -> {"none", "refused", "waiting", "ended", "dropped", "gone"}]
      /\ told' \in [Fetches -> Nat]
  <2>1. Hears(client[f]) \in {"none", "refused", "waiting", "ended", "dropped", "gone"}
    BY DEF CoreTypeOK, Hears
  <2>2. told[f] + 1 \in Nat
    BY DEF CoreTypeOK
  <2>3. CASE UNCHANGED clientVars
    BY <2>3 DEF CoreTypeOK, clientVars
  <2>4. CASE /\ told' = [told EXCEPT ![f] = @ + 1]
             /\ client' = [client EXCEPT ![f] = Hears(@)]
    BY <2>1, <2>2, <2>4 DEF CoreTypeOK
  <2> QED BY <2>3, <2>4
<1>5. CoreTypeOK'
  BY <1>1, <1>4 DEF CoreTypeOK, loopVars
<1>6. CapsInv'
  BY <1>1, ShrinkCaps
<1>7. ChainInv'
  <2>1. queue_ring' # <<>> \/ fetch_ring' # {} => queue_ring # <<>> \/ fetch_ring # {}
    <3>1. ASSUME queue_ring' # <<>> PROVE queue_ring # <<>>
      <4>1. 1 \in DOMAIN queue_ring'
        BY <3>1, <1>1, EmptySeq, LenProperties
      <4>2. Holds(queue_ring, queue_ring'[1])
        BY <4>1, <1>1 DEF Holds
      <4> QED BY <4>2 DEF Holds
    <3> QED BY <3>1, <1>1
  <2> QED BY <2>1 DEF ChainInv, loopVars
<1>8. EndsInv'
  BY <1>2, <1>3 DEF EndsInv
<1> QED BY <1>1, <1>5, <1>6, <1>7, <1>8

(* The inductive step: one case per operation.                             *)
LEMMA CoreStepIInv == CoreIInv /\ [CoreNext]_coreVars => CoreIInv'
<1> SUFFICES ASSUME CoreIInv, [CoreNext]_coreVars PROVE CoreIInv'
  OBVIOUS
<1> USE DEF CoreIInv
<1>1. ASSUME NEW i \in DOMAIN queue_ring, DispatchJob(i) PROVE CoreIInv'
  <2>1. CoreTypeOK' /\ RingsAgree' /\ CapsInv'
    BY <1>1, DispatchRings, DispatchCaps
  <2>2. ChainInv'
    <3>1. queue_ring # <<>>
      BY <1>1 DEF CoreTypeOK
    <3> QED BY <3>1, <1>1 DEF ChainInv, DispatchJob, loopVars
  <2>3. EndsInv'
    <3>1. queue_ring[i] \in Fetches
      BY ElementOfSeq DEF CoreTypeOK
    <3>2. \A f \in Fetches : fetch'[f].life = fetch[f].life /\ fetch'[f].last = fetch[f].last
      BY <1>1, <3>1 DEF DispatchJob, MarkActive, CoreTypeOK
    <3> QED BY <3>2, <1>1 DEF EndsInv, DispatchJob, clientVars
  <2> QED BY <2>1, <2>2, <2>3
<1>2. CASE DispatchReturns
  <2>1. UNCHANGED <<queue_ring, fetch_ring, fetch, client, told>>
    BY <1>2 DEF DispatchReturns, ringVars, clientVars
  <2>2. CoreTypeOK'
    BY <1>2, <2>1 DEF DispatchReturns, Schedule, CoreTypeOK
  <2>3. ChainInv'
    BY <1>2, DispatchReturnsChain
  <2> QED BY <2>1, <2>2, <2>3, ShrinkCaps DEF RingsAgree, EndsInv
<1>3. CASE FetchPump \/ FetcherPoll \/ PollsDone
  <2>1. UNCHANGED <<queue_ring, fetch_ring, fetch, client, told>>
    BY <1>3 DEF FetchPump, FetcherPoll, PollsDone, ringVars, clientVars
  <2>2. CoreTypeOK'
    BY <1>3, <2>1 DEF FetchPump, FetcherPoll, PollsDone, Schedule, CoreTypeOK
  <2>3. ChainInv'
    BY <1>3, <2>1 DEF FetchPump, FetcherPoll, PollsDone, Schedule, ChainInv
  <2> QED BY <2>1, <2>2, <2>3, ShrinkCaps DEF RingsAgree, EndsInv
<1>4. ASSUME NEW f \in Fetches, FetchStart(f) PROVE CoreIInv'
  <2>1. fetch[f].life = "none"
    BY <1>4 DEF FetchStart, EndsInv
  <2>2. CoreTypeOK' /\ RingsAgree'
    BY <1>4, <2>1, StartRings
  <2>3. CapsInv' /\ ChainInv'
    BY <1>4, ShrinkCaps DEF FetchStart, ChainInv
  <2>4. fetch[f].last = "unfinished"
    BY <2>1 DEF EndsInv
  <2>5. EndsInv'
    BY <1>4, <2>1, <2>4 DEF FetchStart, EndsInv, CoreTypeOK
  <2> QED BY <2>2, <2>3, <2>5
<1>5. ASSUME NEW f \in Fetches, FetchRefused(f) \/ ObjectDestroy(f) PROVE CoreIInv'
  <2>1. UNCHANGED <<queue_ring, fetch_ring, fetch, told, caller, poller, armed>>
    BY <1>5 DEF FetchRefused, ObjectDestroy, ringVars, loopVars
  <2>2. PICK c \in {"refused", "gone"} :
           /\ client' = [client EXCEPT ![f] = c]
           /\ client[f] = IF c = "refused" THEN "none" ELSE "dropped"
    BY <1>5 DEF FetchRefused, ObjectDestroy
  <2>3. /\ client' \in [Fetches -> {"none", "refused", "waiting", "ended", "dropped", "gone"}]
        /\ client'[f] = c
        /\ \A g \in Fetches : g # f => client'[g] = client[g]
    BY <2>2 DEF CoreTypeOK
  <2>4. CoreTypeOK'
    BY <2>1, <2>3 DEF CoreTypeOK
  <2>5. EndsInv'
    BY <2>1, <2>2, <2>3 DEF EndsInv
  <2>6. RingsAgree' /\ ChainInv' /\ CapsInv'
    BY <2>1, ShrinkCaps DEF RingsAgree, ChainInv
  <2> QED BY <2>4, <2>5, <2>6
<1>6. ASSUME NEW f \in Fetches, FetchAbort(f) PROVE CoreIInv'
  <2>1. UNCHANGED <<queue_ring, fetch_ring, told, caller, poller, armed>>
    BY <1>6 DEF FetchAbort, ringVars, loopVars
  <2>2. \A g \in Fetches : /\ fetch'[g].life = fetch[g].life
                           /\ fetch'[g].active = fetch[g].active
                           /\ g # f => fetch'[g] = fetch[g]
    BY <1>6 DEF FetchAbort, CoreTypeOK
  <2>3. CoreTypeOK'
    BY <1>6, <2>1 DEF FetchAbort, CoreTypeOK
  <2>4. EndsInv'
    BY <1>6, <2>1, <2>2 DEF FetchAbort, CoreTypeOK, EndsInv
  <2>5. RingsAgree' /\ ChainInv' /\ CapsInv'
    BY <2>1, <2>2, ShrinkCaps DEF RingsAgree, ChainInv
  <2> QED BY <2>3, <2>4, <2>5
<1>7. ASSUME NEW f \in Fetches, AnyFinish(f) PROVE CoreIInv'
  BY <1>7, ReleaseIInv DEF AnyFinish, Polled, FinishAndFree, Freed
<1>8. ASSUME NEW f \in Fetches, AnyFree(f) PROVE CoreIInv'
  <2>1. CASE fetch[f].last = "finished"
    BY <2>1, <1>8, ReleaseIInv DEF AnyFree, Polled, RemoveAndFree, Freed
  <2>2. CASE fetch[f].last # "finished"
    <3>1. told[f] = 0
      BY <2>2 DEF EndsInv, CoreTypeOK
    <3> QED BY <3>1, <2>2, <1>8, ReleaseIInv DEF AnyFree, Polled, RemoveAndFree, Freed
  <2> QED BY <2>1, <2>2
<1>9. ASSUME NEW f \in Fetches, AnyNotify(f) PROVE CoreIInv'
  <2>1. UNCHANGED <<queue_ring, fetch_ring, caller, poller, armed>>
    BY <1>9 DEF AnyNotify, ringVars, loopVars
  <2>2. /\ fetch' = [fetch EXCEPT ![f].last = "finished"]
        /\ told' = [told EXCEPT ![f] = @ + 1]
        /\ client' = [client EXCEPT ![f] = Hears(@)]
        /\ told[f] = 0 /\ fetch[f].life = "live"
    BY <1>9 DEF AnyNotify, SendFinishing, Polled
  <2>3. \A g \in Fetches : /\ fetch'[g].life = fetch[g].life
                           /\ fetch'[g].active = fetch[g].active
                           /\ g # f => fetch'[g] = fetch[g] /\ told'[g] = told[g] /\ client'[g] = client[g]
    BY <2>2 DEF CoreTypeOK
  <2>4. /\ fetch'[f].last = "finished"
        /\ told'[f] = 1
        /\ client'[f] \in {"ended", "dropped", "gone"}
    BY <2>2, SMTT(60) DEF CoreTypeOK, EndsInv, Hears
  <2>5. CoreTypeOK'
    BY <2>1, <2>2 DEF CoreTypeOK, Hears
  <2>6. EndsInv'
    BY <2>2, <2>3, <2>4 DEF EndsInv
  <2>7. RingsAgree' /\ ChainInv' /\ CapsInv'
    BY <2>1, <2>3, ShrinkCaps DEF RingsAgree, ChainInv
  <2> QED BY <2>5, <2>6, <2>7
<1>10. CASE UNCHANGED coreVars
  <2>1. UNCHANGED <<queue_ring, fetch_ring, fetch, client, told, caller, poller, armed>>
    BY <1>10 DEF coreVars, ringVars, clientVars, loopVars
  <2> QED BY <2>1, ShrinkCaps DEF CoreTypeOK, RingsAgree, ChainInv, EndsInv
<1> QED BY <1>1, <1>2, <1>3, <1>4, <1>5, <1>6, <1>7, <1>8, <1>9, <1>10 DEF CoreNext

-----------------------------------------------------------------------------
(* The theorems, each about CoreSpec: fetch.c under any fetcher.           *)

(* The inductive invariant holds of fetch.c's rings, caps, timer and       *)
(* messages.                                                               *)
THEOREM CoreSpecIInv == CoreSpec => []CoreIInv
<1>1. CoreInit => CoreIInv BY CoreInitIInv
<1>2. CoreIInv /\ [CoreNext]_coreVars => CoreIInv' BY CoreStepIInv
<1> QED BY <1>1, <1>2, PTL DEF CoreSpec

(* fetch_is_active always names the ring a fetch is on, and exactly the    *)
(* allocated fetches are on a ring: RING_REMOVE unlinks from the right     *)
(* list and no ring ever holds freed memory.                               *)
THEOREM CoreSpecRings == CoreSpec => []RingsAgree
<1>1. CoreIInv => RingsAgree BY DEF CoreIInv
<1> QED BY <1>1, CoreSpecIInv, PTL

(* fetch_dispatch_jobs keeps to max_fetchers and max_fetchers_per_host.    *)
THEOREM CoreSpecCaps == CoreSpec => []CapsRespected
<1>1. CoreIInv => CapsRespected BY DEF CoreIInv, CapsInv
<1> QED BY <1>1, CoreSpecIInv, PTL

(* fetcher_poll is on the timer queue whenever a fetch waits and the event *)
(* loop has control, unless its last schedule() ran out of memory.         *)
THEOREM CoreSpecPollChain == CoreSpec => []PollChainAlive
<1>1. CoreIInv => PollChainAlive BY DEF CoreIInv, CoreTypeOK, ChainInv, PollChainAlive
<1> QED BY <1>1, CoreSpecIInv, PTL

(* A fetch sends at most one finishing message, and is never freed under a *)
(* client that still waits for it.                                         *)
THEOREM CoreSpecOneEnding == CoreSpec => []OneEnding
<1>1. CoreIInv => OneEnding BY DEF CoreIInv, EndsInv, OneEnding
<1> QED BY <1>1, CoreSpecIInv, PTL

(* The body of HostOrder, for one step.                                    *)
OrderedStep ==
    \A i, j \in DOMAIN queue_ring :
        /\ i < j
        /\ HostOf[queue_ring[i]] = HostOf[queue_ring[j]]
        /\ queue_ring[j] \in fetch_ring'
        => \A k \in DOMAIN queue_ring' : queue_ring'[k] # queue_ring[i]

(* Only a dispatch moves a fetch to fetch_ring, and what it chose had no   *)
(* fetch of the same host before it.                                       *)
LEMMA StepOrdered == CoreIInv /\ [CoreNext]_coreVars => OrderedStep
<1> SUFFICES ASSUME CoreIInv, [CoreNext]_coreVars,
                    NEW i \in DOMAIN queue_ring, NEW j \in DOMAIN queue_ring,
                    i < j, HostOf[queue_ring[i]] = HostOf[queue_ring[j]],
                    queue_ring[j] \in fetch_ring'
             PROVE  FALSE
  BY DEF OrderedStep
<1>1. queue_ring[j] \notin fetch_ring
  BY DEF CoreIInv, RingsAgree
<1>2. ASSUME NEW n \in DOMAIN queue_ring, DispatchJob(n) PROVE FALSE
  <2>1. j = n
    BY <1>1, <1>2 DEF DispatchJob, CoreIInv, RingsAgree
  <2>2. i \in 1..n - 1
    BY <2>1, LenProperties DEF CoreIInv, CoreTypeOK
  <2> QED BY <1>2, <2>1, <2>2 DEF DispatchJob, Chosen, HasRoom
<1>3. ASSUME NEW f \in Fetches, AnyFinish(f) \/ AnyFree(f) PROVE FALSE
  BY <1>1, <1>3 DEF AnyFinish, AnyFree, FinishAndFree, RemoveAndFree, fetch_remove_from_queues
<1>4. CASE \/ DispatchReturns \/ FetchPump \/ FetcherPoll \/ PollsDone
           \/ \E f \in Fetches : FetchStart(f) \/ FetchRefused(f) \/ FetchAbort(f) \/ ObjectDestroy(f)
                                \/ AnyNotify(f)
           \/ UNCHANGED coreVars
  BY <1>1, <1>4 DEF DispatchReturns, FetchPump, FetcherPoll, PollsDone, FetchStart, FetchRefused,
                    FetchAbort, ObjectDestroy, AnyNotify, coreVars, ringVars
<1> QED BY <1>2, <1>3, <1>4 DEF CoreNext

(* Fetches of one host are dispatched in the order they were queued.       *)
THEOREM CoreSpecHostOrder == CoreSpec => HostOrder
<1>1. CoreIInv /\ [CoreNext]_coreVars => [OrderedStep]_coreVars
  BY StepOrdered
<1>2. HostOrder <=> [][OrderedStep]_coreVars
  BY DEF HostOrder, OrderedStep
<1> QED BY <1>1, <1>2, CoreSpecIInv, PTL DEF CoreSpec

=============================================================================
