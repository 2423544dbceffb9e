------------------------- MODULE HttpFetcherProofs -------------------------
(***************************************************************************)
(* Proofs about macos9_http_fetcher.c for every number of slots, fetches   *)
(* and endpoints, every pool size and whatever the server, Open Transport  *)
(* and the client do: the fetcher implements FetchCore, its slots agree    *)
(* with fetch.c's rings, every open endpoint has one owner, and POSTs keep *)
(* away from the cache.  As long as OTRcv fails only by a disconnect, each *)
(* fetch hands on the answer to its own request, whole if it is framed.    *)
(***************************************************************************)
EXTENDS HttpFetcher, FetchCoreProofs

-----------------------------------------------------------------------------
(* Slot records.                                                           *)

Fields == {"state", "parent", "aborted", "ep", "keyed", "keep_alive_ok", "image",
           "answers", "shape", "data", "cache_eligible", "cache_hit_body", "stale"}

IsSlot(c) == c = [x \in Fields |-> c[x]]

States == {"IDLE", "QUEUED", "INIT", "HEADERS", "BODY", "DONE", "FAIL", "NOTIFIED"}
Busy == {"INIT", "HEADERS", "BODY"}

LEMMA BlankIsSlot == IsSlot(Blank) /\ Blank.state = "IDLE" /\ Blank.parent = NoFetch
  BY DEF IsSlot, Fields, Blank

-----------------------------------------------------------------------------
(* The inductive invariant.                                                *)

SlotsOK ==
    /\ f_slots = [s \in Slots |-> f_slots[s]]
    /\ \A s \in Slots : IsSlot(f_slots[s]) /\ f_slots[s].state \in States
    /\ fetcher_handle \in [Fetches -> Slots \cup {NoSlot}]
    /\ cursor \in Slots \cup {NoSlot}
    /\ callback \in Slots \cup {NoSlot}

(* A slot that setup gave out stays in use until its fetch is freed.       *)
HandleInUse ==
    \A f \in Fetches : fetcher_handle[f] # NoSlot => f_slots[fetcher_handle[f]].state # "IDLE"

(* A slot that was not yet reported has sent nothing finishing.            *)
NotYetTold ==
    \A s \in Slots : f_slots[s].state \notin {"IDLE", "NOTIFIED"} => told[f_slots[s].parent] = 0

(* While the client is inside a callback the poll loop stands at the slot  *)
(* that made it, and only fetch_start may be running fetch_dispatch_jobs.  *)
CallbackInv ==
    /\ callback # NoSlot =>
          /\ f_slots[callback].state = "NOTIFIED"
          /\ poller # "no"
          /\ cursor = callback
          /\ caller \in {"no", "start"}
    /\ \A s \in Slots : f_slots[s].state = "NOTIFIED" => callback = s

HttpInv ==
    /\ SlotsOK
    /\ SlotsAgree
    /\ HandleInUse
    /\ NotYetTold
    /\ CallbackInv

(* How a slot may change while it keeps its fetch and is not reported.     *)
Moves(old, new) ==
    /\ IsSlot(new)
    /\ new.parent = old.parent
    /\ old.state # "IDLE"
    /\ new.state \in States \ {"IDLE"}
    /\ new.state = "QUEUED" => old.state = "QUEUED"
    /\ new.state \in Busy => old.state \in Busy
    /\ new.state = "NOTIFIED" <=> old.state = "NOTIFIED"

(* What such a change needs of fetch.c.                                    *)
CoreStays ==
    /\ \A f \in Fetches : fetch'[f].life = fetch[f].life /\ fetch'[f].active = fetch[f].active
    /\ UNCHANGED <<told, loopVars>>

(* Every such change keeps the invariant.                                  *)
LEMMA MoveKeeps ==
    ASSUME HttpInv, NEW s \in Slots, NEW new, Moves(f_slots[s], new),
           f_slots' = [f_slots EXCEPT ![s] = new],
           UNCHANGED <<fetcher_handle, callback>>,
           cursor' \in Slots \cup {NoSlot},
           cursor' = cursor \/ callback = NoSlot,
           CoreStays
    PROVE  HttpInv'
<1> USE DEF HttpInv
<1>1. f_slots'[s] = new /\ \A r \in Slots : r # s => f_slots'[r] = f_slots[r]
  BY DEF SlotsOK
<1>2. f_slots' = [r \in Slots |-> f_slots'[r]]
  BY DEF SlotsOK
<1>3. SlotsOK'
  BY <1>1, <1>2 DEF SlotsOK, Moves
<1>4. \A r \in Slots : f_slots'[r].parent = f_slots[r].parent
  BY <1>1 DEF Moves
<1>5. \A r \in Slots : Moves(f_slots[r], f_slots'[r]) \/ f_slots'[r] = f_slots[r]
  BY <1>1
<1>6. \A r \in Slots : /\ f_slots'[r].state = "IDLE" <=> f_slots[r].state = "IDLE"
                       /\ f_slots'[r].state = "NOTIFIED" <=> f_slots[r].state = "NOTIFIED"
                       /\ f_slots'[r].state = "QUEUED" => f_slots[r].state = "QUEUED"
                       /\ f_slots'[r].state \in Busy => f_slots[r].state \in Busy
  BY <1>5 DEF Moves, States
<1>7. fetcher_handle' = fetcher_handle /\ \A f \in Fetches : fetcher_handle[f] \in Slots \cup {NoSlot}
  BY DEF SlotsOK
<1>8. SlotsAgree'
  <2>1. ASSUME NEW f \in Fetches
        PROVE  /\ fetch'[f].life = "live" <=> fetcher_handle'[f] # NoSlot
               /\ fetcher_handle'[f] # NoSlot => f_slots'[fetcher_handle'[f]].parent = f
    BY <1>4, <1>7 DEF SlotsAgree, CoreStays
  <2>2. ASSUME NEW r \in Slots, f_slots'[r].state # "IDLE"
        PROVE  /\ f_slots'[r].parent \in Fetches
               /\ fetcher_handle'[f_slots'[r].parent] = r
               /\ f_slots'[r].state = "QUEUED" => ~fetch'[f_slots'[r].parent].active
               /\ f_slots'[r].state \in Busy => fetch'[f_slots'[r].parent].active
    BY <2>2, <1>4, <1>6, <1>7 DEF SlotsAgree, CoreStays, Busy
  <2> QED BY <2>1, <2>2 DEF SlotsAgree, Busy
<1>9. HandleInUse'
  BY <1>6, <1>7 DEF HandleInUse
<1>10. NotYetTold'
  BY <1>4, <1>6 DEF NotYetTold, CoreStays
<1>11. CallbackInv'
  BY <1>6 DEF CallbackInv, CoreStays, loopVars, SlotsOK
<1> QED BY <1>3, <1>8, <1>9, <1>10, <1>11

(* A slot belongs to one fetch, which is live.                             *)
LEMMA SlotOwner ==
    ASSUME HttpInv, NEW s \in Slots, f_slots[s].state # "IDLE"
    PROVE  /\ f_slots[s].parent \in Fetches
           /\ fetcher_handle[f_slots[s].parent] = s
           /\ fetch[f_slots[s].parent].life = "live"
           /\ \A r \in Slots : f_slots[r].state # "IDLE" /\ r # s
                                => f_slots[r].parent # f_slots[s].parent
  BY SlotAssumption DEF HttpInv, SlotsAgree, Slots

(* macos9_http_setup gives the new fetch a slot nobody holds.              *)
LEMMA StartKeeps ==
    ASSUME CoreIInv, HttpInv, NEW f \in Fetches, NEW doc \in BOOLEAN, HttpStart(f, doc)
    PROVE  HttpInv'
<1> USE DEF HttpInv
<1>1. PICK s \in Slots :
          /\ FirstIdle(s)
          /\ f_slots' = [f_slots EXCEPT ![s] =
                [Blank EXCEPT !.state = "QUEUED", !.parent = f,
                              !.keep_alive_ok = (f \notin Posts),
                              !.image = IsImage(f, doc)]]
          /\ fetcher_handle' = [fetcher_handle EXCEPT ![f] = s]
  BY DEF HttpStart
<1> DEFINE ka == f \notin Posts
           im == IsImage(f, doc)
           new == [Blank EXCEPT !.state = "QUEUED", !.parent = f,
                                !.keep_alive_ok = ka, !.image = im]
<1>3. f_slots' = [f_slots EXCEPT ![s] = new]
  BY <1>1
<1> HIDE DEF ka, im
<1>2. IsSlot(new) /\ new.state = "QUEUED" /\ new.parent = f
  BY BlankIsSlot DEF IsSlot, Fields
<1> HIDE DEF new
<1>4. f_slots'[s] = new /\ \A r \in Slots : r # s => f_slots'[r] = f_slots[r]
  BY <1>3 DEF SlotsOK
<1>5. f_slots' = [r \in Slots |-> f_slots'[r]]
  BY <1>3 DEF SlotsOK
<1>6. /\ fetcher_handle' \in [Fetches -> Slots \cup {NoSlot}]
      /\ fetcher_handle'[f] = s
      /\ \A g \in Fetches : g # f => fetcher_handle'[g] = fetcher_handle[g]
  BY <1>1 DEF SlotsOK
<1>7. /\ client[f] = "none"
      /\ fetch' = [fetch EXCEPT ![f].life = "live"]
      /\ UNCHANGED <<told, poller, cursor, callback>>
      /\ caller' = "start"
  BY DEF HttpStart, FetchStart
<1>8. fetch[f].life = "none" /\ ~fetch[f].active /\ told[f] = 0
  BY <1>7, RingsAgreeRestated DEF CoreIInv, EndsInv
<1>9. /\ fetch'[f].life = "live" /\ ~fetch'[f].active
      /\ \A g \in Fetches : g # f => fetch'[g] = fetch[g]
  BY <1>7, <1>8 DEF CoreIInv, CoreTypeOK
<1>10. f_slots[s].state = "IDLE" /\ \A g \in Fetches : fetcher_handle[g] # s
  BY <1>1, SlotAssumption DEF FirstIdle, HandleInUse, Slots
<1>11. s # NoSlot
  BY SlotAssumption DEF Slots
<1>12. \A r \in Slots : r # s /\ f_slots[r].state # "IDLE" => f_slots[r].parent # f
  BY <1>8, SlotOwner
<1>13. SlotsOK'
  BY <1>2, <1>4, <1>5, <1>6, <1>7 DEF SlotsOK, States
<1>14. SlotsAgree'
  <2>1. ASSUME NEW g \in Fetches
        PROVE  /\ fetch'[g].life = "live" <=> fetcher_handle'[g] # NoSlot
               /\ fetcher_handle'[g] # NoSlot => f_slots'[fetcher_handle'[g]].parent = g
    <3>1. CASE g = f BY <3>1, <1>2, <1>4, <1>6, <1>9, <1>11
    <3>2. CASE g # f BY <3>2, <1>4, <1>6, <1>9, <1>10 DEF SlotsAgree, SlotsOK
    <3> QED BY <3>1, <3>2
  <2>2. ASSUME NEW r \in Slots, f_slots'[r].state # "IDLE"
        PROVE  /\ f_slots'[r].parent \in Fetches
               /\ fetcher_handle'[f_slots'[r].parent] = r
               /\ f_slots'[r].state = "QUEUED" => ~fetch'[f_slots'[r].parent].active
               /\ f_slots'[r].state \in Busy => fetch'[f_slots'[r].parent].active
    <3>1. CASE r = s BY <3>1, <1>2, <1>4, <1>6, <1>9 DEF Busy
    <3>2. CASE r # s BY <3>2, <2>2, <1>4, <1>6, <1>9, <1>12 DEF SlotsAgree, Busy
    <3> QED BY <3>1, <3>2
  <2> QED BY <2>1, <2>2 DEF SlotsAgree, Busy
<1>15. HandleInUse'
  BY <1>2, <1>4, <1>6, <1>10 DEF HandleInUse, SlotsOK
<1>16. NotYetTold'
  BY <1>2, <1>4, <1>7, <1>8 DEF NotYetTold
<1>17. CallbackInv'
  BY <1>2, <1>4, <1>7, <1>10 DEF CallbackInv, SlotsOK
<1> QED BY <1>13, <1>14, <1>15, <1>16, <1>17

(* macos9_http_free and fetch_free let go of each other.                   *)
LEMMA FreeKeeps ==
    ASSUME CoreIInv, HttpInv, NEW s \in Slots, f_slots[s].state # "IDLE",
           FreeSlot(s), fetch' = [fetch EXCEPT ![f_slots[s].parent] = Freed],
           \A g \in Fetches : g # f_slots[s].parent => told'[g] = told[g],
           callback \in {NoSlot, s}, callback' = NoSlot
    PROVE  HttpInv'
<1> USE DEF HttpInv
<1> DEFINE f == f_slots[s].parent
<1>1. /\ f \in Fetches
      /\ fetcher_handle[f] = s
      /\ \A r \in Slots : f_slots[r].state # "IDLE" /\ r # s => f_slots[r].parent # f
  BY SlotOwner
<1>2. /\ f_slots' = [f_slots EXCEPT ![s] = Blank]
      /\ fetcher_handle' = [fetcher_handle EXCEPT ![f] = NoSlot]
      /\ cursor' = After(s)
      /\ fetch' = [fetch EXCEPT ![f] = Freed]
      /\ \A g \in Fetches : g # f => told'[g] = told[g]
  BY DEF FreeSlot
<1> HIDE DEF f
<1>3. f_slots'[s] = Blank /\ \A r \in Slots : r # s => f_slots'[r] = f_slots[r]
  BY <1>2 DEF SlotsOK
<1>4. f_slots' = [r \in Slots |-> f_slots'[r]]
  BY <1>2 DEF SlotsOK
<1>5. cursor' \in Slots \cup {NoSlot}
  BY <1>2, SlotAssumption DEF After, Slots
<1>6. /\ fetcher_handle' \in [Fetches -> Slots \cup {NoSlot}]
      /\ fetcher_handle'[f] = NoSlot
      /\ \A g \in Fetches : g # f => fetcher_handle'[g] = fetcher_handle[g]
  BY <1>1, <1>2 DEF SlotsOK
<1>7. fetch'[f].life = "freed" /\ \A g \in Fetches : g # f => fetch'[g] = fetch[g]
  BY <1>1, <1>2 DEF CoreIInv, CoreTypeOK, Freed
<1>8. \A g \in Fetches : g # f => fetcher_handle[g] # s
  BY <1>1, SlotAssumption DEF SlotsAgree, Slots, f
<1>9. SlotsOK'
  BY <1>3, <1>4, <1>5, <1>6, BlankIsSlot DEF SlotsOK, States
<1>10. SlotsAgree'
  <2>1. ASSUME NEW g \in Fetches
        PROVE  /\ fetch'[g].life = "live" <=> fetcher_handle'[g] # NoSlot
               /\ fetcher_handle'[g] # NoSlot => f_slots'[fetcher_handle'[g]].parent = g
    <3>1. CASE g = f BY <3>1, <1>6, <1>7
    <3>2. CASE g # f
      <4>1. f_slots'[fetcher_handle[g]] = f_slots[fetcher_handle[g]] \/ fetcher_handle[g] = NoSlot
        BY <3>2, <1>3, <1>8 DEF SlotsOK
      <4> QED BY <3>2, <4>1, <1>6, <1>7 DEF SlotsAgree
    <3> QED BY <3>1, <3>2
  <2>2. ASSUME NEW r \in Slots, f_slots'[r].state # "IDLE"
        PROVE  /\ f_slots'[r].parent \in Fetches
               /\ fetcher_handle'[f_slots'[r].parent] = r
               /\ f_slots'[r].state = "QUEUED" => ~fetch'[f_slots'[r].parent].active
               /\ f_slots'[r].state \in Busy => fetch'[f_slots'[r].parent].active
    <3>1. r # s BY <2>2, <1>3, BlankIsSlot
    <3> QED BY <3>1, <2>2, <1>1, <1>3, <1>6, <1>7 DEF SlotsAgree, Busy
  <2> QED BY <2>1, <2>2 DEF SlotsAgree, Busy
<1>11. HandleInUse'
  <2> SUFFICES ASSUME NEW g \in Fetches, fetcher_handle'[g] # NoSlot
               PROVE  f_slots'[fetcher_handle'[g]].state # "IDLE"
    BY DEF HandleInUse
  <2>1. g # f /\ fetcher_handle'[g] = fetcher_handle[g] BY <1>6
  <2>2. fetcher_handle[g] \in Slots /\ fetcher_handle[g] # s BY <2>1, <1>8 DEF SlotsOK
  <2> QED BY <2>1, <2>2, <1>3 DEF HandleInUse
<1>12. NotYetTold'
  <2> SUFFICES ASSUME NEW r \in Slots, f_slots'[r].state \notin {"IDLE", "NOTIFIED"}
               PROVE  told'[f_slots'[r].parent] = 0
    BY DEF NotYetTold
  <2>1. r # s BY <1>3, BlankIsSlot
  <2> QED BY <2>1, <1>1, <1>2, <1>3 DEF NotYetTold, SlotsAgree
<1>13. CallbackInv'
  BY <1>3, BlankIsSlot, SlotAssumption DEF CallbackInv, Slots
<1> QED BY <1>9, <1>10, <1>11, <1>12, <1>13

(* A poll of slot s that only changes the slot.                            *)
LEMMA BecomesKeeps ==
    ASSUME HttpInv, NEW s \in Slots, NEW new, At(s), SlotBecomes(s, new),
           Moves(f_slots[s], new), CoreStays
    PROVE  HttpInv'
<1>1. cursor' \in Slots \cup {NoSlot}
  BY SlotAssumption DEF SlotBecomes, After, Slots
<1> QED BY <1>1, MoveKeeps DEF SlotBecomes, At

(* A step that leaves slots and handles alone.                             *)
LEMMA StaysKeeps ==
    ASSUME HttpInv, UNCHANGED <<f_slots, fetcher_handle, callback>>,
           cursor' \in Slots \cup {NoSlot}, cursor' = cursor \/ callback = NoSlot,
           CoreStays
    PROVE  HttpInv'
<1> USE DEF HttpInv, CoreStays
<1>1. SlotsOK'
  BY DEF SlotsOK
<1>2. SlotsAgree'
  BY DEF SlotsAgree
<1>3. HandleInUse' /\ NotYetTold'
  BY DEF HandleInUse, NotYetTold
<1>4. CallbackInv'
  BY DEF CallbackInv, loopVars
<1> QED BY <1>1, <1>2, <1>3, <1>4

LEMMA UnchangedStays == ASSUME UNCHANGED coreVars PROVE CoreStays
  BY DEF coreVars, ringVars, clientVars, loopVars, CoreStays

LEMMA AbortStays == ASSUME CoreIInv, NEW f \in Fetches, FetchAbort(f) PROVE CoreStays
  BY DEF CoreIInv, CoreTypeOK, FetchAbort, CoreStays

LEMMA HeardStays == ASSUME CoreIInv, NEW f \in Fetches, NEW failed, Heard(f, failed) PROVE CoreStays
  BY UnchangedStays, AbortStays DEF Heard

(* fetch_dispatch_jobs hands a fetch over: its slot, if still QUEUED,      *)
(* starts, and the fetch is active from then on.                           *)
LEMMA DispatchKeeps ==
    ASSUME CoreIInv, HttpInv, NEW i \in DOMAIN queue_ring, HttpDispatch(i)
    PROVE  HttpInv'
<1> USE DEF HttpInv
<1> DEFINE g == queue_ring[i]
           s == fetcher_handle[g]
<1>1. g \in Fetches /\ fetch[g].life = "live"
  BY ElementOfSeq, RingsAgreeRestated DEF CoreIInv, CoreTypeOK, Holds
<1>2. /\ fetch' = [fetch EXCEPT ![g].active = TRUE]
      /\ f_slots' = macos9_http_start(s)
      /\ UNCHANGED <<told, loopVars, fetcher_handle, cursor, callback>>
  BY DEF HttpDispatch, DispatchJob, MarkActive, clientVars
<1> HIDE DEF g
<1>3. s \in Slots /\ f_slots[s].parent = g /\ f_slots[s].state # "IDLE"
  <2>1. s # NoSlot BY <1>1 DEF SlotsAgree
  <2>2. s \in Slots BY <1>1, <2>1 DEF SlotsOK
  <2>3. f_slots[s].parent = g BY <1>1, <2>1 DEF SlotsAgree
  <2>4. f_slots[s].state # "IDLE" BY <1>1, <2>1 DEF HandleInUse
  <2> QED BY <2>2, <2>3, <2>4
<1> HIDE DEF s
<1>4. /\ \A f \in Fetches : fetch'[f].life = fetch[f].life
      /\ \A f \in Fetches : f # g => fetch'[f].active = fetch[f].active
      /\ fetch'[g].active
  BY <1>1, <1>2 DEF CoreIInv, CoreTypeOK
<1>5. /\ f_slots' = [r \in Slots |-> f_slots'[r]]
      /\ \A r \in Slots : r # s => f_slots'[r] = f_slots[r]
      /\ IsSlot(f_slots'[s])
      /\ f_slots'[s].parent = g
      /\ \/ f_slots[s].state = "QUEUED" /\ f_slots'[s].state = "INIT"
         \/ f_slots[s].state # "QUEUED" /\ f_slots'[s].state = f_slots[s].state
  <2>1. CASE f_slots[s].state = "QUEUED"
    <3>1. f_slots' = [f_slots EXCEPT ![s] = [f_slots[s] EXCEPT !.state = "INIT", !.stale = FALSE]]
      BY <2>1, <1>2, <1>3 DEF macos9_http_start, SlotsOK
    <3>2. f_slots'[s] = [f_slots[s] EXCEPT !.state = "INIT", !.stale = FALSE]
      BY <3>1, <1>3 DEF SlotsOK
    <3>3. IsSlot(f_slots[s])
      BY <1>3 DEF SlotsOK
    <3>4. IsSlot(f_slots'[s]) /\ f_slots'[s].state = "INIT" /\ f_slots'[s].parent = f_slots[s].parent
      BY <3>2, <3>3 DEF IsSlot, Fields
    <3>5. f_slots' = [r \in Slots |-> f_slots'[r]] /\ \A r \in Slots : r # s => f_slots'[r] = f_slots[r]
      BY <3>1 DEF SlotsOK
    <3> QED BY <2>1, <1>3, <3>4, <3>5
  <2>2. CASE f_slots[s].state # "QUEUED"
    BY <2>2, <1>2, <1>3 DEF macos9_http_start, SlotsOK
  <2> QED BY <2>1, <2>2
<1>6. SlotsOK'
  BY <1>2, <1>5 DEF SlotsOK, States
<1>7. SlotsAgree'
  <2>1. ASSUME NEW f \in Fetches
        PROVE  /\ fetch'[f].life = "live" <=> fetcher_handle'[f] # NoSlot
               /\ fetcher_handle'[f] # NoSlot => f_slots'[fetcher_handle'[f]].parent = f
    <3>1. fetcher_handle'[f] = fetcher_handle[f] /\ fetcher_handle[f] \in Slots \cup {NoSlot}
      BY <1>2 DEF SlotsOK
    <3>2. \A r \in Slots : f_slots'[r].parent = f_slots[r].parent
      BY <1>3, <1>5
    <3> QED BY <1>4, <3>1, <3>2 DEF SlotsAgree
  <2>2. ASSUME NEW r \in Slots, f_slots'[r].state # "IDLE"
        PROVE  /\ f_slots'[r].parent \in Fetches
               /\ fetcher_handle'[f_slots'[r].parent] = r
               /\ f_slots'[r].state = "QUEUED" => ~fetch'[f_slots'[r].parent].active
               /\ f_slots'[r].state \in Busy => fetch'[f_slots'[r].parent].active
    <3>1. CASE r = s BY <3>1, <1>1, <1>2, <1>3, <1>4, <1>5 DEF SlotsAgree
    <3>2. CASE r # s
      <4>1. f_slots[r].parent # g BY <3>2, <2>2, <1>3, <1>5, SlotOwner
      <4> QED BY <3>2, <2>2, <4>1, <1>2, <1>4, <1>5 DEF SlotsAgree, Busy
    <3> QED BY <3>1, <3>2
  <2> QED BY <2>1, <2>2 DEF SlotsAgree, Busy
<1>8. HandleInUse' /\ NotYetTold'
  <2>1. \A r \in Slots : /\ f_slots'[r].state = "IDLE" <=> f_slots[r].state = "IDLE"
                         /\ f_slots'[r].state = "NOTIFIED" <=> f_slots[r].state = "NOTIFIED"
                         /\ f_slots'[r].parent = f_slots[r].parent
    BY <1>3, <1>5
  <2> QED BY <2>1, <1>2 DEF HandleInUse, NotYetTold, SlotsOK
<1>9. CallbackInv'
  BY <1>2, <1>3, <1>5 DEF CallbackInv, loopVars, SlotsOK
<1> QED BY <1>6, <1>7, <1>8, <1>9

(* A finishing message marks its slot and leaves the loop standing there.  *)
LEMMA NotifyKeeps ==
    ASSUME CoreIInv, HttpInv, NEW s \in Slots, NEW redirect, At(s),
           f_slots[s].state # "IDLE", Notify(s, redirect)
    PROVE  HttpInv'
<1> USE DEF HttpInv
<1> DEFINE f == f_slots[s].parent
           new == [f_slots[s] EXCEPT !.state = "NOTIFIED", !.aborted = @ \/ redirect]
<1>1. /\ f \in Fetches
      /\ fetcher_handle[f] = s
      /\ \A r \in Slots : f_slots[r].state # "IDLE" /\ r # s => f_slots[r].parent # f
  BY SlotOwner
<1>2. /\ fetch' = [fetch EXCEPT ![f].last = "finished"]
      /\ told' = [told EXCEPT ![f] = @ + 1]
      /\ callback' = s
      /\ UNCHANGED <<loopVars, fetcher_handle, cursor>>
  BY DEF Notify, SendFinishing
<1>3. f_slots' = [f_slots EXCEPT ![s] = new]
  BY DEF Notify, SlotsOK
<1>4. IsSlot(new) /\ new.state = "NOTIFIED" /\ new.parent = f
  <2> DEFINE ab == f_slots[s].aborted \/ redirect
  <2>1. IsSlot(f_slots[s]) BY DEF SlotsOK
  <2>2. new = [f_slots[s] EXCEPT !.state = "NOTIFIED", !.aborted = ab] OBVIOUS
  <2> HIDE DEF ab, new
  <2> QED BY <2>1, <2>2 DEF IsSlot, Fields
<1> HIDE DEF new
<1>5. f_slots'[s] = new /\ \A r \in Slots : r # s => f_slots'[r] = f_slots[r]
  BY <1>3 DEF SlotsOK
<1>6. f_slots' = [r \in Slots |-> f_slots'[r]]
  BY <1>3 DEF SlotsOK
<1>7. \A g \in Fetches : /\ fetch'[g].life = fetch[g].life
                         /\ fetch'[g].active = fetch[g].active
                         /\ g # f => told'[g] = told[g]
  BY <1>2 DEF CoreIInv, CoreTypeOK
<1>8. SlotsOK'
  BY <1>2, <1>4, <1>5, <1>6 DEF SlotsOK, States
<1>9. SlotsAgree'
  <2>1. ASSUME NEW g \in Fetches
        PROVE  /\ fetch'[g].life = "live" <=> fetcher_handle'[g] # NoSlot
               /\ fetcher_handle'[g] # NoSlot => f_slots'[fetcher_handle'[g]].parent = g
    <3>1. fetcher_handle'[g] = fetcher_handle[g] /\ fetcher_handle[g] \in Slots \cup {NoSlot}
      BY <1>2 DEF SlotsOK
    <3>2. \A r \in Slots : f_slots'[r].parent = f_slots[r].parent
      BY <1>4, <1>5
    <3> QED BY <1>7, <3>1, <3>2 DEF SlotsAgree
  <2>2. ASSUME NEW r \in Slots, f_slots'[r].state # "IDLE"
        PROVE  /\ f_slots'[r].parent \in Fetches
               /\ fetcher_handle'[f_slots'[r].parent] = r
               /\ f_slots'[r].state = "QUEUED" => ~fetch'[f_slots'[r].parent].active
               /\ f_slots'[r].state \in Busy => fetch'[f_slots'[r].parent].active
    <3>1. CASE r = s BY <3>1, <1>1, <1>2, <1>4, <1>5 DEF Busy
    <3>2. CASE r # s BY <3>2, <2>2, <1>2, <1>5, <1>7 DEF SlotsAgree, Busy
    <3> QED BY <3>1, <3>2
  <2> QED BY <2>1, <2>2 DEF SlotsAgree, Busy
<1>10. HandleInUse'
  BY <1>2, <1>4, <1>5 DEF HandleInUse, SlotsOK
<1>11. NotYetTold'
  <2> SUFFICES ASSUME NEW r \in Slots, f_slots'[r].state \notin {"IDLE", "NOTIFIED"}
               PROVE  told'[f_slots'[r].parent] = 0
    BY DEF NotYetTold
  <2>1. r # s /\ f_slots'[r] = f_slots[r] BY <1>4, <1>5
  <2>2. f_slots[r].parent \in Fetches /\ f_slots[r].parent # f BY <2>1, <1>1, SlotOwner
  <2> QED BY <2>1, <2>2, <1>7 DEF NotYetTold
<1>12. CallbackInv'
  <2>1. \A r \in Slots : f_slots[r].state # "NOTIFIED"
    BY SlotAssumption DEF At, CallbackInv, Slots
  <2> QED BY <2>1, <1>2, <1>4, <1>5 DEF CallbackInv, At, loopVars
<1> QED BY <1>8, <1>9, <1>10, <1>11, <1>12

-----------------------------------------------------------------------------
(* What each poll does to its slot.                                        *)

(* Raw body units leave a slot in BODY or DONE.                            *)
LEMMA FedSlot ==
    ASSUME NEW c, IsSlot(c), NEW units
    PROVE  /\ IsSlot(Fed(c, units))
           /\ Fed(c, units).state \in {"BODY", "DONE"}
           /\ Fed(c, units).parent = c.parent
<1> DEFINE all == c.data \o ToDeliver(c.shape, Len(c.data), units)
           st == IF units # <<>> /\ BodyComplete(c.shape, Len(all), units) THEN "DONE" ELSE "BODY"
<1>1. Fed(c, units) = [c EXCEPT !.state = st, !.data = all]
  BY DEF Fed
<1>2. st \in {"BODY", "DONE"}
  OBVIOUS
<1> HIDE DEF st, all
<1> QED BY <1>1, <1>2 DEF IsSlot, Fields

LEMMA ParsedSlot ==
    ASSUME NEW c, IsSlot(c), NEW head, NEW eligible
    PROVE  /\ IsSlot(Parsed(c, head, eligible))
           /\ Parsed(c, head, eligible).state = c.state
           /\ Parsed(c, head, eligible).parent = c.parent
<1> DEFINE an == head.req
           sh == head.shape
           ka == c.keep_alive_ok /\ ~head.shape.close /\ head.shape.framing # "plain"
           el == eligible /\ c.parent \notin Posts
<1>1. Parsed(c, head, eligible) =
          [c EXCEPT !.answers = an, !.shape = sh, !.keep_alive_ok = ka, !.cache_eligible = el]
  BY DEF Parsed
<1> HIDE DEF an, sh, ka, el
<1> QED BY <1>1 DEF IsSlot, Fields

(* The polls that only change their slot, those of mfs_open and those of   *)
(* the receive path.                                                       *)
LEMMA PollKeeps ==
    ASSUME CoreIInv, HttpInv, NEW s \in Slots,
           \/ PollTimeout(s) \/ PollAborted(s) \/ OpenCacheHit(s)
           \/ \E i \in DOMAIN ep_pool : \/ OpenPooledFails(s, i)
                                       \/ \E shape \in Shapes : OpenPooled(s, i, shape)
           \/ \E e \in Endpoints, shape \in Shapes : OpenConnect(s, e, shape)
           \/ \E keyed \in BOOLEAN : OpenFails(s, keyed)
           \/ PollNoData(s) \/ PollClosed(s) \/ PollOTError(s)
    PROVE  HttpInv' /\ UNCHANGED coreVars
<1> DEFINE c == f_slots[s]
<1>1. IsSlot(c) /\ c.state \in States
  BY DEF HttpInv, SlotsOK
<1>2. At(s) => c.state # "NOTIFIED"
  BY SlotAssumption DEF HttpInv, CallbackInv, At, Slots
<1> USE DEF Moves, States, Busy
<1>3. CASE PollTimeout(s)
  <2> DEFINE new == [c EXCEPT !.state = "FAIL", !.keep_alive_ok = FALSE]
  <2>1. At(s) /\ c.state \in {"HEADERS", "BODY"} /\ SlotBecomes(s, new) /\ UNCHANGED coreVars
    BY <1>3 DEF PollTimeout, TimedOut, Waiting
  <2>2. IsSlot(new) /\ new.state = "FAIL" /\ new.parent = c.parent
    BY <1>1 DEF IsSlot, Fields
  <2> HIDE DEF new
  <2>3. Moves(c, new) BY <2>1, <2>2
  <2> QED BY <2>1, <2>3, BecomesKeeps, UnchangedStays
<1>4. CASE PollAborted(s)
  <2> DEFINE new == [c EXCEPT !.state = "DONE", !.keep_alive_ok = FALSE]
  <2>1. At(s) /\ c.state # "IDLE" /\ SlotBecomes(s, new) /\ UNCHANGED coreVars
    BY <1>4 DEF PollAborted, Skipped
  <2>2. IsSlot(new) /\ new.state = "DONE" /\ new.parent = c.parent
    BY <1>1 DEF IsSlot, Fields
  <2> HIDE DEF new
  <2>3. Moves(c, new) BY <1>2, <2>1, <2>2
  <2> QED BY <2>1, <2>3, BecomesKeeps, UnchangedStays
<1>5. CASE OpenCacheHit(s)
  <2> DEFINE new == [c EXCEPT !.state = "HEADERS", !.keep_alive_ok = FALSE,
                               !.cache_hit_body = disk[UrlOf[c.parent]]]
  <2>1. At(s) /\ c.state = "INIT" /\ SlotBecomes(s, new) /\ UNCHANGED coreVars
    BY <1>5 DEF OpenCacheHit, Opening
  <2>2. IsSlot(new) /\ new.state = "HEADERS" /\ new.parent = c.parent
    BY <1>1 DEF IsSlot, Fields
  <2> HIDE DEF new
  <2>3. Moves(c, new) BY <2>1, <2>2
  <2> QED BY <2>1, <2>3, BecomesKeeps, UnchangedStays
<1>6. ASSUME NEW e, At(s), c.state = "INIT", SlotBecomes(s, Opened(s, e)), UNCHANGED coreVars
      PROVE  HttpInv' /\ UNCHANGED coreVars
  <2> DEFINE new == Opened(s, e)
  <2>1. IsSlot(new) /\ new.state = "HEADERS" /\ new.parent = c.parent
    BY <1>1 DEF IsSlot, Fields, Opened
  <2> HIDE DEF new
  <2>2. Moves(c, new) BY <1>6, <2>1
  <2>3. SlotBecomes(s, new) BY <1>6 DEF new
  <2> QED BY <1>6, <2>2, <2>3, BecomesKeeps, UnchangedStays
<1>7. ASSUME NEW keyed \in BOOLEAN, At(s), c.state = "INIT", SlotBecomes(s, OpenFailed(s, keyed)),
             UNCHANGED coreVars
      PROVE  HttpInv' /\ UNCHANGED coreVars
  <2> DEFINE new == OpenFailed(s, keyed)
             ke == c.keyed \/ keyed
  <2>1. new = [c EXCEPT !.state = "FAIL", !.keep_alive_ok = FALSE, !.keyed = ke]
    BY DEF OpenFailed
  <2> HIDE DEF new, ke
  <2>2. IsSlot(new) /\ new.state = "FAIL" /\ new.parent = c.parent
    BY <1>1, <2>1 DEF IsSlot, Fields
  <2>3. Moves(c, new) BY <1>7, <2>2
  <2>4. SlotBecomes(s, new) BY <1>7 DEF new
  <2> QED BY <1>7, <2>3, <2>4, BecomesKeeps, UnchangedStays
<1>8. CASE \E i \in DOMAIN ep_pool, shape \in Shapes : OpenPooled(s, i, shape)
  BY <1>8, <1>6 DEF OpenPooled, Opening
<1>9. CASE \E e \in Endpoints, shape \in Shapes : OpenConnect(s, e, shape)
  BY <1>9, <1>6 DEF OpenConnect, Opening
<1>10. CASE \E i \in DOMAIN ep_pool : OpenPooledFails(s, i)
  BY <1>10, <1>7 DEF OpenPooledFails, Opening
<1>11. CASE \E keyed \in BOOLEAN : OpenFails(s, keyed)
  BY <1>11, <1>7 DEF OpenFails, Opening
<1>12. CASE PollNoData(s)
  <2>1. At(s) /\ c.state \in {"HEADERS", "BODY"} /\ SlotBecomes(s, c) /\ UNCHANGED coreVars
    BY <1>12 DEF PollNoData, OnWire, Receiving, Waiting
  <2>2. Moves(c, c) BY <1>1, <2>1
  <2> QED BY <2>1, <2>2, BecomesKeeps, UnchangedStays
<1>13. CASE PollClosed(s)
  <2> DEFINE new == [c EXCEPT !.state = "DONE", !.keep_alive_ok = FALSE]
  <2>1. At(s) /\ c.state \in {"HEADERS", "BODY"} /\ SlotBecomes(s, new) /\ UNCHANGED coreVars
    BY <1>13 DEF PollClosed, OnWire, Receiving, Waiting
  <2>2. IsSlot(new) /\ new.state = "DONE" /\ new.parent = c.parent
    BY <1>1 DEF IsSlot, Fields
  <2> HIDE DEF new
  <2>3. Moves(c, new) BY <2>1, <2>2
  <2> QED BY <2>1, <2>3, BecomesKeeps, UnchangedStays
<1>14. CASE PollOTError(s)
  <2> DEFINE new == [c EXCEPT !.state = "FAIL"]
  <2>1. At(s) /\ c.state \in {"HEADERS", "BODY"} /\ SlotBecomes(s, new) /\ UNCHANGED coreVars
    BY <1>14 DEF PollOTError, OnWire, Receiving, Waiting
  <2>2. IsSlot(new) /\ new.state = "FAIL" /\ new.parent = c.parent
    BY <1>1 DEF IsSlot, Fields
  <2> HIDE DEF new
  <2>3. Moves(c, new) BY <2>1, <2>2
  <2> QED BY <2>1, <2>3, BecomesKeeps, UnchangedStays
<1> QED BY <1>3, <1>4, <1>5, <1>8, <1>9, <1>10, <1>11, <1>12, <1>13, <1>14

LEMMA HeardCore ==
    ASSUME NEW f \in Fetches, NEW failed, Heard(f, failed)
    PROVE  [CoreNext]_coreVars
  BY DEF Heard, CoreNext

(* Polls that deliver a header or data; llcache may abort from inside.     *)
LEMMA DeliverKeeps ==
    ASSUME CoreIInv, HttpInv, NEW s \in Slots, NEW failed \in BOOLEAN,
           \/ PollCacheHit(s, failed)
           \/ \E eligible \in BOOLEAN : PollHeaders(s, eligible, failed)
           \/ PollBody(s, failed)
    PROVE  HttpInv' /\ [CoreNext]_coreVars
<1> DEFINE old == f_slots[s]
           c == [f_slots[s] EXCEPT !.stale = FALSE]
<1>1. IsSlot(old)
  BY DEF HttpInv, SlotsOK
<1>2. At(s) /\ old.state \in {"HEADERS", "BODY"}
  BY DEF PollCacheHit, PollHeaders, PollBody, OnWire, Receiving, Waiting
<1>3. old.parent \in Fetches
  BY <1>2, SlotOwner
<1>4. IsSlot(c) /\ c.parent = old.parent /\ c.state = old.state
  BY <1>1 DEF IsSlot, Fields
<1>5. ASSUME NEW new, SlotBecomes(s, new), IsSlot(new), new.parent = old.parent,
             new.state \in {"HEADERS", "BODY", "DONE"},
             Heard(old.parent, failed) \/ UNCHANGED coreVars
      PROVE  HttpInv' /\ [CoreNext]_coreVars
  <2>1. Moves(old, new) BY <1>2, <1>5 DEF Moves, States, Busy
  <2>2. CoreStays BY <1>3, <1>5, HeardStays, UnchangedStays
  <2>3. [CoreNext]_coreVars BY <1>3, <1>5, HeardCore
  <2> QED BY <1>2, <1>5, <2>1, <2>2, <2>3, BecomesKeeps
<1>6. CASE PollCacheHit(s, failed)
  <2> DEFINE new == [old EXCEPT !.state = "DONE", !.data = old.cache_hit_body.data,
                                 !.aborted = failed]
  <2>1. SlotBecomes(s, new) /\ Heard(old.parent, failed)
    BY <1>6 DEF PollCacheHit
  <2>2. IsSlot(new) /\ new.parent = old.parent /\ new.state = "DONE"
    BY <1>1 DEF IsSlot, Fields
  <2> HIDE DEF new
  <2> QED BY <2>1, <2>2, <1>5
<1>7. CASE PollBody(s, failed)
  <2>1. PICK n \in 1..Len(ot[c.ep].wire) :
             SlotBecomes(s, [Fed(c, SubSeq(ot[c.ep].wire, 1, n)) EXCEPT !.aborted = failed])
    BY <1>7 DEF PollBody
  <2> DEFINE fed == Fed(c, SubSeq(ot[c.ep].wire, 1, n))
             new == [fed EXCEPT !.aborted = failed]
  <2>2. IsSlot(fed) /\ fed.state \in {"BODY", "DONE"} /\ fed.parent = old.parent
    BY <1>4, FedSlot
  <2>3. SlotBecomes(s, new) BY <2>1
  <2>4. Heard(old.parent, failed) BY <1>4, <1>7 DEF PollBody
  <2> HIDE DEF fed
  <2>5. IsSlot(new) /\ new.state = fed.state /\ new.parent = fed.parent
    BY <2>2 DEF IsSlot, Fields
  <2> HIDE DEF new
  <2> QED BY <2>2, <2>3, <2>4, <2>5, <1>5
<1>8. ASSUME NEW eligible \in BOOLEAN, PollHeaders(s, eligible, failed)
      PROVE  HttpInv' /\ [CoreNext]_coreVars
  <2> DEFINE wire == ot[c.ep].wire
             units(n) == SubSeq(wire, 1, n)
             j(n) == CHOOSE k \in DOMAIN units(n) : FirstOf("head", units(n), k)
             p(n) == [Parsed(c, units(n)[j(n)], eligible) EXCEPT !.aborted = failed]
             rest(n) == SubSeq(units(n), j(n) + 1, n)
  <2>1. PICK n \in 1..Len(wire) :
          \/ SlotBecomes(s, c) /\ UNCHANGED coreVars
          \/ SlotBecomes(s, Fed(p(n), rest(n))) /\ Heard(c.parent, failed)
          \/ /\ f_slots' = [f_slots EXCEPT ![s] = p(n)]
             /\ Heard(c.parent, failed)
             /\ UNCHANGED <<fetcher_handle, disk, cursor, callback>>
    BY <1>8 DEF PollHeaders
  <2>2. c.state = "HEADERS"
    BY <1>4, <1>8 DEF PollHeaders
  <2> DEFINE head == units(n)[j(n)]
             q == Parsed(c, head, eligible)
             pn == p(n)
             fed == Fed(pn, rest(n))
  <2>3. IsSlot(q) /\ q.state = c.state /\ q.parent = c.parent
    <3> HIDE DEF head, c
    <3> QED BY <1>4, ParsedSlot
  <2>4. IsSlot(pn) /\ pn.state = "HEADERS" /\ pn.parent = old.parent
    <3>1. pn = [q EXCEPT !.aborted = failed] OBVIOUS
    <3> HIDE DEF q, pn, c
    <3> QED BY <3>1, <2>2, <2>3, <1>4 DEF IsSlot, Fields
  <2>5. IsSlot(fed) /\ fed.state \in {"BODY", "DONE"} /\ fed.parent = pn.parent
    <3> HIDE DEF pn
    <3> QED BY <2>4, FedSlot
  <2>6. CASE SlotBecomes(s, c) /\ UNCHANGED coreVars
    <3> HIDE DEF c
    <3> QED BY <2>2, <2>6, <1>4, <1>5
  <2>7. CASE SlotBecomes(s, Fed(p(n), rest(n))) /\ Heard(c.parent, failed)
    <3>1. SlotBecomes(s, fed) /\ Heard(old.parent, failed) BY <2>7, <1>4
    <3> HIDE DEF fed, pn
    <3> QED BY <3>1, <2>4, <2>5, <1>5
  <2>8. CASE /\ f_slots' = [f_slots EXCEPT ![s] = p(n)]
             /\ Heard(c.parent, failed)
             /\ UNCHANGED <<fetcher_handle, disk, cursor, callback>>
    <3>1. f_slots' = [f_slots EXCEPT ![s] = pn] /\ Heard(old.parent, failed) BY <2>8, <1>4
    <3> HIDE DEF pn
    <3>2. Moves(old, pn) BY <2>2, <2>4, <1>4 DEF Moves, States, Busy
    <3>3. CoreStays BY <1>3, <3>1, HeardStays
    <3>4. cursor' \in Slots \cup {NoSlot} BY <2>8 DEF HttpInv, SlotsOK
    <3> QED BY <3>1, <3>2, <3>3, <3>4, <2>8, <1>3, MoveKeeps, HeardCore
  <2> QED BY <2>1, <2>6, <2>7, <2>8
<1> QED BY <1>6, <1>7, <1>8

(* The polls that report or release a slot.                                *)
LEMMA ReportKeeps ==
    ASSUME CoreIInv, HttpInv, NEW s \in Slots,
           PollDone(s) \/ PollFallBack(s) \/ PollFail(s) \/ PollRedirect(s) \/ PollRelease(s)
    PROVE  HttpInv' /\ [CoreNext]_coreVars
<1> DEFINE f == f_slots[s].parent
<1>1. CASE PollDone(s)
  <2>1. At(s) /\ f_slots[s].state = "DONE" /\ FinishAndFree(f) /\ FreeSlot(s) /\ UNCHANGED <<loopVars, callback>>
    BY <1>1 DEF PollDone
  <2>2. f \in Fetches /\ fetch[f].life = "live" /\ told[f] = 0
    BY <2>1, SlotOwner DEF HttpInv, NotYetTold
  <2>3. AnyFinish(f)
    BY <2>1, <2>2 DEF AnyFinish, Polled, At
  <2>4. /\ fetch' = [fetch EXCEPT ![f] = Freed]
        /\ told' = [told EXCEPT ![f] = @ + 1]
    BY <2>1 DEF FinishAndFree, Freed
  <2>5. \A g \in Fetches : g # f => told'[g] = told[g]
    BY <2>4 DEF CoreIInv, CoreTypeOK
  <2>6. callback \in {NoSlot, s} /\ callback' = NoSlot
    BY <2>1 DEF At
  <2>7. HttpInv'
    BY <2>1, <2>4, <2>5, <2>6, FreeKeeps
  <2> QED BY <2>2, <2>3, <2>7 DEF CoreNext
<1>2. CASE PollFallBack(s) \/ PollFail(s) \/ PollRedirect(s)
  <2>1. PICK redirect \in BOOLEAN : Notify(s, redirect)
    BY <1>2 DEF PollFallBack, PollFail, PollRedirect
  <2>2. At(s) /\ f_slots[s].state \in {"FAIL", "HEADERS"}
    BY <1>2 DEF PollFallBack, PollFail, PollRedirect, Redirecting
  <2>3. f \in Fetches /\ fetch[f].life = "live" /\ told[f] = 0
    BY <2>2, SlotOwner DEF HttpInv, NotYetTold
  <2>4. AnyNotify(f)
    BY <2>1, <2>2, <2>3 DEF AnyNotify, Polled, At, Notify
  <2>5. HttpInv'
    BY <2>1, <2>2, NotifyKeeps
  <2> QED BY <2>3, <2>4, <2>5 DEF CoreNext
<1>3. CASE PollRelease(s)
  <2>1. caller = "no" /\ callback = s /\ RemoveAndFree(f) /\ FreeSlot(s) /\ callback' = NoSlot /\ UNCHANGED loopVars
    BY <1>3 DEF PollRelease
  <2>2. f_slots[s].state = "NOTIFIED" /\ poller # "no"
    BY <2>1, SlotAssumption DEF HttpInv, CallbackInv, Slots
  <2>3. f \in Fetches /\ fetch[f].life = "live"
    BY <2>2, SlotOwner
  <2>4. AnyFree(f)
    BY <2>1, <2>2, <2>3 DEF AnyFree, Polled
  <2>5. fetch' = [fetch EXCEPT ![f] = Freed]
    BY <2>1 DEF RemoveAndFree, Freed
  <2>6. \A g \in Fetches : g # f => told'[g] = told[g]
    BY <2>1 DEF RemoveAndFree, clientVars, CoreIInv, CoreTypeOK
  <2>7. HttpInv'
    BY <2>1, <2>2, <2>5, <2>6, FreeKeeps
  <2> QED BY <2>3, <2>4, <2>7 DEF CoreNext
<1> QED BY <1>1, <1>2, <1>3

-----------------------------------------------------------------------------
(* The loop, the client and the world outside.                             *)

(* The event loop's own steps, which touch no slot.                        *)
LEMMA LoopKeeps ==
    ASSUME HttpInv, HttpDispatchReturns \/ HttpPump \/ HttpFetcherPoll \/ HttpPollsDone
    PROVE  HttpInv' /\ CoreNext
<1> USE DEF HttpInv
<1>1. UNCHANGED <<fetch, told, f_slots, fetcher_handle, callback>>
  BY DEF HttpDispatchReturns, HttpPump, HttpFetcherPoll, HttpPollsDone, DispatchReturns, FetchPump,
         FetcherPoll, PollsDone, httpVars, clientVars
<1>2. cursor' \in Slots \cup {NoSlot}
  BY SlotAssumption DEF SlotsOK, HttpDispatchReturns, HttpPump, HttpFetcherPoll, HttpPollsDone, httpVars, Slots
<1>3. SlotsOK' /\ SlotsAgree' /\ HandleInUse' /\ NotYetTold'
  BY <1>1, <1>2 DEF SlotsOK, SlotsAgree, HandleInUse, NotYetTold
<1>4. callback # NoSlot => cursor' = cursor /\ poller' = poller /\ caller' \in {"no", "start"}
  BY DEF CallbackInv, HttpDispatchReturns, HttpPump, HttpFetcherPoll, HttpPollsDone, DispatchReturns,
         FetchPump, FetcherPoll, PollsDone
<1>5. CallbackInv'
  BY <1>1, <1>4 DEF CallbackInv
<1>6. CoreNext
  BY DEF HttpDispatchReturns, HttpPump, HttpFetcherPoll, HttpPollsDone, CoreNext
<1> QED BY <1>3, <1>5, <1>6

LEMMA ClientKeeps ==
    ASSUME CoreIInv, HttpInv, NEW f \in Fetches, NEW doc \in BOOLEAN,
           HttpStart(f, doc) \/ HttpRefuse(f, doc) \/ HttpAbort(f) \/ HttpDestroy(f)
    PROVE  HttpInv' /\ CoreNext
<1>1. CASE HttpStart(f, doc)
  BY <1>1, StartKeeps DEF HttpStart, CoreNext
<1>2. CASE HttpRefuse(f, doc) \/ HttpDestroy(f)
  <2>1. CoreStays
    BY <1>2 DEF HttpRefuse, HttpDestroy, FetchRefused, ObjectDestroy, CoreStays
  <2>2. UNCHANGED <<f_slots, fetcher_handle, callback, cursor>>
    BY <1>2 DEF HttpRefuse, HttpDestroy, httpVars
  <2>3. cursor' \in Slots \cup {NoSlot}
    BY <2>2 DEF HttpInv, SlotsOK
  <2>4. CoreNext
    BY <1>2 DEF HttpRefuse, HttpDestroy, CoreNext
  <2> QED BY <2>1, <2>2, <2>3, <2>4, StaysKeeps
<1>3. CASE HttpAbort(f)
  <2> DEFINE s == fetcher_handle[f]
             new == [f_slots[s] EXCEPT !.aborted = TRUE]
  <2>1. FetchAbort(f) /\ f_slots' = macos9_http_abort(s) /\ UNCHANGED <<fetcher_handle, cursor, callback>>
    BY <1>3 DEF HttpAbort
  <2>2. fetch[f].life = "live"
    BY <2>1 DEF FetchAbort, CoreIInv, EndsInv
  <2>3. s # NoSlot /\ s \in Slots
    BY <2>2 DEF HttpInv, SlotsAgree, SlotsOK
  <2>4. f_slots[s].state # "IDLE"
    BY <2>3 DEF HttpInv, HandleInUse
  <2>5. IsSlot(f_slots[s]) /\ f_slots[s].state \in States
    BY <2>3 DEF HttpInv, SlotsOK
  <2>6. f_slots' = [f_slots EXCEPT ![s] = new]
    BY <2>1, <2>3 DEF macos9_http_abort, HttpInv, SlotsOK
  <2> HIDE DEF s
  <2>7. IsSlot(new) /\ new.state = f_slots[s].state /\ new.parent = f_slots[s].parent
    BY <2>5 DEF IsSlot, Fields
  <2> HIDE DEF new
  <2>8. Moves(f_slots[s], new)
    BY <2>4, <2>5, <2>7 DEF Moves
  <2>9. cursor' \in Slots \cup {NoSlot}
    BY <2>1 DEF HttpInv, SlotsOK
  <2>10. HttpInv'
    BY <2>1, <2>3, <2>6, <2>8, <2>9, MoveKeeps, AbortStays
  <2> QED BY <2>1, <2>10 DEF CoreNext
<1> QED BY <1>1, <1>2, <1>3

(* Steps that leave fetch.c alone and change at most a flag of a slot.     *)
LEMMA QuietKeeps ==
    ASSUME HttpInv,
           \/ \E e \in Endpoints : \E n \in 0..Len(ot[e].wire) : PeerClose(e, n)
           \/ \E s \in Slots : TimePasses(s)
           \/ \E s \in Slots : PollSkip(s)
           \/ \E s \in Slots : \E i \in DOMAIN ep_pool : PoolDiscard(s, i)
    PROVE  HttpInv' /\ UNCHANGED coreVars
<1>1. CASE \E e \in Endpoints : \E n \in 0..Len(ot[e].wire) : PeerClose(e, n)
  <2>1. UNCHANGED <<f_slots, fetcher_handle, callback, cursor>> /\ UNCHANGED coreVars
    BY <1>1 DEF PeerClose
  <2>2. cursor' \in Slots \cup {NoSlot}
    BY <2>1 DEF HttpInv, SlotsOK
  <2> QED BY <2>1, <2>2, StaysKeeps, UnchangedStays
<1>2. ASSUME NEW s \in Slots, PollSkip(s) PROVE HttpInv' /\ UNCHANGED coreVars
  <2>1. /\ UNCHANGED <<f_slots, fetcher_handle, callback>> /\ UNCHANGED coreVars
        /\ callback = NoSlot /\ cursor' = After(s)
    BY <1>2 DEF PollSkip, At
  <2>2. cursor' \in Slots \cup {NoSlot}
    BY <2>1, SlotAssumption DEF After, Slots
  <2> QED BY <2>1, <2>2, StaysKeeps, UnchangedStays
<1>3. ASSUME NEW s \in Slots, NEW new, IsSlot(new), f_slots[s].state # "IDLE",
             new.state = f_slots[s].state, new.parent = f_slots[s].parent,
             f_slots' = [f_slots EXCEPT ![s] = new],
             UNCHANGED <<fetcher_handle, cursor, callback>>, UNCHANGED coreVars
      PROVE  HttpInv'
  <2>1. Moves(f_slots[s], new)
    BY <1>3 DEF Moves, HttpInv, SlotsOK
  <2>2. cursor' \in Slots \cup {NoSlot}
    BY <1>3 DEF HttpInv, SlotsOK
  <2> QED BY <1>3, <2>1, <2>2, MoveKeeps, UnchangedStays
<1>4. ASSUME NEW s \in Slots, TimePasses(s) PROVE HttpInv' /\ UNCHANGED coreVars
  <2> DEFINE new == [f_slots[s] EXCEPT !.stale = TRUE]
  <2>1. IsSlot(f_slots[s])
    BY DEF HttpInv, SlotsOK
  <2>2. IsSlot(new) /\ new.state = f_slots[s].state /\ new.parent = f_slots[s].parent
    BY <2>1 DEF IsSlot, Fields
  <2>3. f_slots' = [f_slots EXCEPT ![s] = new] /\ f_slots[s].state # "IDLE"
    BY <1>4 DEF TimePasses, Waiting, HttpInv, SlotsOK
  <2>4. UNCHANGED <<fetcher_handle, cursor, callback>> /\ UNCHANGED coreVars
    BY <1>4 DEF TimePasses
  <2> HIDE DEF new
  <2> QED BY <2>2, <2>3, <2>4, <1>3
<1>5. ASSUME NEW s \in Slots, NEW i \in DOMAIN ep_pool, PoolDiscard(s, i)
      PROVE  HttpInv' /\ UNCHANGED coreVars
  <2> DEFINE new == [f_slots[s] EXCEPT !.keyed = TRUE]
  <2>1. IsSlot(f_slots[s])
    BY DEF HttpInv, SlotsOK
  <2>2. IsSlot(new) /\ new.state = f_slots[s].state /\ new.parent = f_slots[s].parent
    BY <2>1 DEF IsSlot, Fields
  <2>3. f_slots' = [f_slots EXCEPT ![s] = new] /\ f_slots[s].state # "IDLE"
    BY <1>5 DEF PoolDiscard, Opening, HttpInv, SlotsOK
  <2>4. UNCHANGED <<fetcher_handle, cursor, callback>> /\ UNCHANGED coreVars
    BY <1>5 DEF PoolDiscard
  <2> HIDE DEF new
  <2> QED BY <2>2, <2>3, <2>4, <1>3
<1> QED BY <1>1, <1>2, <1>4, <1>5

-----------------------------------------------------------------------------
(* The inductive invariant: endpoints, answers and cached bodies.          *)

Endpoint == [open : BOOLEAN, key : {HostOf[f] : f \in Fetches} \cup {NoFetch},
             wire : Seq(Unit), closed : BOOLEAN]

Body == [data : Seq(Unit)]

NetTyped ==
    /\ f_slots \in [Slots -> Slot]
    /\ ot \in [Endpoints -> Endpoint]
    /\ ep_pool \in Seq(Endpoints)
    /\ disk \in [Urls -> Body \cup {NoBody}]

(* Unit n of the answer to request f, and how many units it has.           *)
UnitAt(f, shape, n) ==
    [req |-> f,
     part |-> CASE n = 1 -> "head" [] n > 1 /\ n <= shape.len + 1 -> "data" [] OTHER -> "end",
     shape |-> shape]

Units(shape) == shape.len + 1 + (IF shape.framing = "chunked" THEN 1 ELSE 0)

(* w holds units of that answer, beginning after the first p.              *)
Part(w, f, shape, p) ==
    /\ p + Len(w) <= Units(shape)
    /\ \A j \in DOMAIN w : w[j] = UnitAt(f, shape, p + j)

NoPost(units) == \A i \in DOMAIN units : units[i].req \notin Posts
OfUrl(units, u) == \A i \in DOMAIN units : UrlOf[units[i].req] = u
AllData(units) == \A i \in DOMAIN units : units[i].part = "data"

(* A body that may be served for URL u: no answer to a POST, and, if OTRcv *)
(* never fails half way through an answer, from that URL.                  *)
ServesUrl(b, u) ==
    b # NoBody => NoPost(b.data) /\ (~OTErrors => OfUrl(b.data, u))

(* Slot record c and the wire w of its endpoint, whatever fails: a fetch   *)
(* that was not opened has nothing, one that waits has an endpoint or a    *)
(* cached body, and POSTs keep away from the cache and from the pool.      *)
HoldsOK(c, w) ==
    /\ c.state \in {"IDLE", "QUEUED", "INIT"} =>
          /\ c.ep = NoEp /\ c.data = <<>> /\ c.shape = NoShape
          /\ c.answers = NoFetch /\ c.cache_hit_body = NoBody
    /\ c.state \in {"HEADERS", "BODY"} /\ c.cache_hit_body = NoBody => c.ep # NoEp
    /\ c.state = "BODY" => c.shape \in Shape
    /\ c.cache_hit_body # NoBody => ~c.keep_alive_ok
    /\ c.parent \in Posts => c.cache_hit_body = NoBody /\ ~c.cache_eligible /\ ~c.keep_alive_ok
    /\ c.parent \notin Posts => NoPost(c.data) /\ NoPost(w)
    /\ c.cache_hit_body # NoBody => NoPost(c.cache_hit_body.data)

(* What the slot has read and what is left on its wire make up a part of   *)
(* the answer to the slot's own request.                                   *)
AnswerOK(c, w) ==
    /\ c.answers \in {NoFetch, c.parent}
    /\ OfUrl(c.data, UrlOf[c.parent])
    /\ c.cache_hit_body = NoBody => \A i \in DOMAIN c.data : c.data[i].req = c.parent
    /\ c.cache_hit_body # NoBody => OfUrl(c.cache_hit_body.data, UrlOf[c.parent])
    /\ c.state = "HEADERS" /\ c.shape = NoShape /\ c.cache_hit_body = NoBody =>
          /\ c.data = <<>>
          /\ \E shape \in Shapes : Part(w, c.parent, shape, 0)
    /\ c.state = "BODY" =>
          /\ c.shape \in Shapes
          /\ Len(c.data) <= c.shape.len
          /\ Part(c.data, c.parent, c.shape, 1)
          /\ Part(w, c.parent, c.shape, 1 + Len(c.data))
    /\ c.state = "DONE" /\ c.keep_alive_ok /\ ~c.aborted =>
          c.ep # NoEp /\ Len(c.data) = c.shape.len /\ AllData(c.data) /\ w = <<>>
    /\ c.state \in {"FAIL", "NOTIFIED"} => ~c.keep_alive_ok \/ c.aborted

SlotNet(c, w) == HoldsOK(c, w) /\ (~OTErrors => AnswerOK(c, w))

Wire(net, e) == IF e = NoEp THEN <<>> ELSE net[e].wire

EpOf(s) == f_slots[s].ep

(* Every open endpoint has one owner.                                      *)
Owned ==
    /\ Distinct(ep_pool)
    /\ \A e \in Endpoints : ot[e].open <=> Holds(ep_pool, e) \/ \E s \in Slots : EpOf(s) = e
    /\ \A s \in Slots : EpOf(s) # NoEp => ~Holds(ep_pool, EpOf(s))
    /\ \A r, s \in Slots : EpOf(s) # NoEp /\ EpOf(r) = EpOf(s) => r = s

(* What may be left on the wire of a pooled endpoint.                      *)
Idle(w) == NoPost(w) /\ (~OTErrors => w = <<>>)

PoolClean ==
    /\ Len(ep_pool) <= POOL_SIZE
    /\ \A e \in Endpoints : Holds(ep_pool, e) => Idle(ot[e].wire)

WiresOK == \A s \in Slots : SlotNet(f_slots[s], Wire(ot, EpOf(s)))

DiskOK == \A u \in Urls : ServesUrl(disk[u], u)

NetInv ==
    /\ NetTyped
    /\ Owned
    /\ PoolClean
    /\ WiresOK
    /\ DiskOK

-----------------------------------------------------------------------------
(* How endpoints and answers keep their invariant.                         *)

(* One slot, its endpoint and the pool change; every endpoint still has    *)
(* one owner, and nobody else's answer is touched.                         *)
LEMMA NetKeeps ==
    ASSUME NetInv, NEW s \in Slots, NEW new \in Slot,
           f_slots' = [f_slots EXCEPT ![s] = new],
           ot' \in [Endpoints -> Endpoint], ep_pool' \in Seq(Endpoints),
           Distinct(ep_pool'), Len(ep_pool') <= POOL_SIZE,
           \A e \in Endpoints : ot'[e].open <=> \/ Holds(ep_pool', e)
                                                \/ new.ep = e
                                                \/ \E r \in Slots : r # s /\ EpOf(r) = e,
           \A e \in Endpoints : Holds(ep_pool', e) => /\ Holds(ep_pool, e) \/ e = EpOf(s)
                                                      /\ e # new.ep
                                                      /\ Idle(ot'[e].wire),
           new.ep # NoEp => \/ new.ep = EpOf(s)
                            \/ Holds(ep_pool, new.ep)
                            \/ ~ot[new.ep].open,
           \A r \in Slots : r # s /\ EpOf(r) # NoEp => ot'[EpOf(r)].wire = ot[EpOf(r)].wire,
           SlotNet(new, Wire(ot', new.ep)),
           disk' \in [Urls -> Body \cup {NoBody}],
           \A u \in Urls : ServesUrl(disk'[u], u)
    PROVE  NetInv'
<1> USE DEF NetInv
<1>1. f_slots' \in [Slots -> Slot] /\ f_slots'[s] = new
      /\ \A r \in Slots : r # s => f_slots'[r] = f_slots[r]
  BY DEF NetTyped
<1>2. NetTyped' BY <1>1 DEF NetTyped
<1>3. EpOf(s)' = new.ep /\ \A r \in Slots : r # s => EpOf(r)' = EpOf(r)
  BY <1>1 DEF EpOf
<1>4. \A x : Holds(ep_pool', x) => x \in Endpoints
  BY ElementOfSeq DEF Holds
<1>5. \A r \in Slots : EpOf(r) \in Endpoints \cup {NoEp}
  BY DEF NetTyped, Slot, EpOf
<1>6. new.ep \in Endpoints \cup {NoEp}
  BY DEF Slot
<1>7. Owned'
  <2>1. \A e \in Endpoints : ot'[e].open <=> Holds(ep_pool', e) \/ \E r \in Slots : EpOf(r)' = e
    BY <1>3
  <2>2. ASSUME NEW r \in Slots, EpOf(r)' # NoEp PROVE ~Holds(ep_pool', EpOf(r)')
    <3>1. CASE r = s BY <3>1, <1>3, <1>4
    <3>2. CASE r # s
      <4>1. EpOf(r)' = EpOf(r) /\ ~Holds(ep_pool, EpOf(r))
        BY <3>2, <2>2, <1>3 DEF Owned
      <4>2. EpOf(s) # NoEp => EpOf(r) # EpOf(s)
        BY <3>2 DEF Owned
      <4> QED BY <4>1, <4>2, <2>2, <1>4
    <3> QED BY <3>1, <3>2
  <2>3. ASSUME NEW r \in Slots, new.ep # NoEp, r # s PROVE EpOf(r) # new.ep
    <3>1. CASE new.ep = EpOf(s) BY <3>1, <2>3 DEF Owned
    <3>2. CASE Holds(ep_pool, new.ep) BY <3>2, <2>3 DEF Owned
    <3>3. CASE ~ot[new.ep].open BY <3>3, <2>3, <1>6 DEF Owned
    <3> QED BY <3>1, <3>2, <3>3, <2>3
  <2>4. ASSUME NEW q \in Slots, NEW r \in Slots, EpOf(r)' # NoEp, EpOf(q)' = EpOf(r)' PROVE q = r
    <3>1. CASE q = s \/ r = s BY <3>1, <2>3, <2>4, <1>3
    <3>2. CASE q # s /\ r # s BY <3>2, <2>4, <1>3 DEF Owned
    <3> QED BY <3>1, <3>2
  <2> QED BY <2>1, <2>2, <2>4 DEF Owned
<1>8. PoolClean'
  <2>1. \A e \in Endpoints : Holds(ep_pool', e) => Idle(ot'[e].wire) OBVIOUS
  <2> QED BY <2>1 DEF PoolClean, Idle, NoPost
<1>9. WiresOK'
  <2> SUFFICES ASSUME NEW r \in Slots PROVE SlotNet(f_slots'[r], Wire(ot', f_slots'[r].ep))
    BY DEF WiresOK, EpOf, SlotNet, Wire, HoldsOK, AnswerOK
  <2>1. CASE r = s BY <2>1, <1>1
  <2>2. CASE r # s
    <3>1. f_slots'[r] = f_slots[r] /\ f_slots[r].ep = EpOf(r) BY <2>2, <1>1 DEF EpOf
    <3>2. SlotNet(f_slots[r], Wire(ot, EpOf(r))) BY DEF WiresOK
    <3>3. Wire(ot', EpOf(r)) = Wire(ot, EpOf(r)) BY <2>2 DEF Wire
    <3> QED BY <3>1, <3>2, <3>3
  <2> QED BY <2>1, <2>2
<1>10. DiskOK'
  BY DEF DiskOK, ServesUrl, NoPost, OfUrl
<1> QED BY <1>2, <1>7, <1>8, <1>9, <1>10

(* The slot keeps its endpoint, of which only the wire may change.         *)
LEMMA NetSame ==
    ASSUME NetInv, NEW s \in Slots, NEW new \in Slot,
           f_slots' = [f_slots EXCEPT ![s] = new], new.ep = f_slots[s].ep,
           ot' \in [Endpoints -> Endpoint], UNCHANGED <<ep_pool, disk>>,
           \A e \in Endpoints : ot'[e].open <=> ot[e].open,
           \A e \in Endpoints : e # new.ep => ot'[e].wire = ot[e].wire,
           SlotNet(new, Wire(ot', new.ep))
    PROVE  NetInv'
<1> USE DEF NetInv
<1>1. ep_pool' \in Seq(Endpoints) /\ disk' \in [Urls -> Body \cup {NoBody}]
  BY DEF NetTyped
<1>2. Distinct(ep_pool') /\ Len(ep_pool') <= POOL_SIZE
  BY DEF Owned, PoolClean
<1>3. new.ep = EpOf(s) /\ \A r \in Slots : EpOf(r) \in Endpoints \cup {NoEp}
  BY DEF NetTyped, Slot, EpOf
<1>4. \A e \in Endpoints : ot'[e].open <=> \/ Holds(ep_pool', e)
                                           \/ new.ep = e
                                           \/ \E r \in Slots : r # s /\ EpOf(r) = e
  BY <1>3 DEF Owned
<1>5. \A e \in Endpoints : Holds(ep_pool', e) => /\ Holds(ep_pool, e) \/ e = EpOf(s)
                                                 /\ e # new.ep
                                                 /\ Idle(ot'[e].wire)
  <2> SUFFICES ASSUME NEW e \in Endpoints, Holds(ep_pool, e)
               PROVE  e # new.ep /\ Idle(ot'[e].wire)
    OBVIOUS
  <2>1. e # new.ep BY <1>3, NoneAssumption DEF Owned
  <2> QED BY <2>1 DEF PoolClean
<1>6. \A r \in Slots : r # s /\ EpOf(r) # NoEp => ot'[EpOf(r)].wire = ot[EpOf(r)].wire
  BY <1>3 DEF Owned
<1>7. \A u \in Urls : ServesUrl(disk'[u], u)
  BY DEF DiskOK
<1> QED BY <1>1, <1>2, <1>3, <1>4, <1>5, <1>6, <1>7, NetKeeps

(* Only the slot changes.                                                  *)
LEMMA NetSlot ==
    ASSUME NetInv, NEW s \in Slots, NEW new \in Slot,
           f_slots' = [f_slots EXCEPT ![s] = new], new.ep = f_slots[s].ep,
           UNCHANGED <<ot, ep_pool, disk>>,
           SlotNet(new, Wire(ot, new.ep))
    PROVE  NetInv'
<1>1. ot' = ot /\ ot' \in [Endpoints -> Endpoint] BY DEF NetInv, NetTyped
<1> QED BY <1>1, NetSame

(* A step that touches neither slots nor endpoints nor the cache.          *)
LEMMA NetUntouched ==
    ASSUME NetInv, UNCHANGED <<f_slots, ot, ep_pool, disk>>
    PROVE  NetInv'
<1> USE DEF NetInv
<1>1. NetTyped' /\ PoolClean' /\ DiskOK' BY DEF NetTyped, PoolClean, DiskOK
<1>2. Owned' BY DEF Owned, EpOf
<1>3. WiresOK' BY DEF WiresOK, EpOf
<1> QED BY <1>1, <1>2, <1>3

(* How a slot record may change without touching what it has received.     *)
Settles(c, d) ==
    /\ c \in Slot /\ d \in Slot
    /\ d.parent = c.parent /\ d.ep = c.ep /\ d.data = c.data /\ d.shape = c.shape
    /\ d.answers = c.answers /\ d.cache_hit_body = c.cache_hit_body
    /\ d.cache_eligible => c.cache_eligible
    /\ d.keep_alive_ok => c.keep_alive_ok
    /\ \/ d.state = c.state /\ (c.aborted => d.aborted)
       \/ c.state = "QUEUED" /\ d.state = "INIT"
       \/ /\ d.state \in {"DONE", "FAIL", "NOTIFIED"}
          /\ ~d.keep_alive_ok \/ d.aborted \/ OTErrors

LEMMA SettlesNet ==
    ASSUME NEW c, NEW d, NEW w, Settles(c, d), SlotNet(c, w)
    PROVE  SlotNet(d, w)
<1> USE DEF Settles, SlotNet
<1>1. HoldsOK(d, w)
  BY DEF HoldsOK
<1>2. ASSUME ~OTErrors PROVE AnswerOK(d, w)
  BY <1>2 DEF AnswerOK
<1> QED BY <1>1, <1>2

(* So the invariant is kept.                                               *)
LEMMA SettlesKeeps ==
    ASSUME NetInv, NEW s \in Slots, NEW new, Settles(f_slots[s], new),
           f_slots' = [f_slots EXCEPT ![s] = new],
           UNCHANGED <<ot, ep_pool, disk>>
    PROVE  NetInv'
<1>1. SlotNet(f_slots[s], Wire(ot, f_slots[s].ep))
  BY DEF NetInv, WiresOK, EpOf
<1>2. new \in Slot /\ new.ep = f_slots[s].ep
  BY DEF Settles
<1>3. SlotNet(new, Wire(ot, new.ep))
  BY <1>1, <1>2, SettlesNet
<1> QED BY <1>2, <1>3, NetSlot

-----------------------------------------------------------------------------
(* Steps that leave what was received alone.                               *)

LEMMA SlotTyped ==
    ASSUME NetInv, NEW s \in Slots
    PROVE  /\ f_slots[s] \in Slot
           /\ SlotNet(f_slots[s], Wire(ot, f_slots[s].ep))
           /\ Wire(ot, f_slots[s].ep) \in Seq(Unit)
  BY DEF NetInv, NetTyped, WiresOK, EpOf, Wire, Slot, Endpoint

LEMMA FailedSettles ==
    ASSUME NetInv, NEW s \in Slots, NEW keyed \in BOOLEAN
    PROVE  Settles(f_slots[s], OpenFailed(s, keyed))
<1> DEFINE c == f_slots[s]
           ke == c.keyed \/ keyed
           new == [c EXCEPT !.state = "FAIL", !.keep_alive_ok = FALSE, !.keyed = ke]
<1>1. c \in Slot BY SlotTyped
<1>2. ke \in BOOLEAN BY <1>1 DEF Slot
<1>3. OpenFailed(s, keyed) = new BY DEF OpenFailed
<1> HIDE DEF ke
<1>4. /\ new \in Slot /\ new.state = "FAIL" /\ new.keep_alive_ok = FALSE
      /\ new.parent = c.parent /\ new.ep = c.ep /\ new.data = c.data /\ new.shape = c.shape
      /\ new.answers = c.answers /\ new.cache_hit_body = c.cache_hit_body
      /\ new.cache_eligible = c.cache_eligible
  BY <1>1, <1>2, ZenonT(60) DEF Slot
<1> HIDE DEF new
<1>5. Settles(c, new) BY <1>1, <1>4 DEF Settles
<1> QED BY <1>3, <1>5

(* A poll ends: by timeout, abort, a failing open, a close or an error.    *)
LEMMA EndNet ==
    ASSUME NetInv, NEW s \in Slots,
           \/ PollTimeout(s) \/ PollAborted(s) \/ PollNoData(s) \/ PollClosed(s) \/ PollOTError(s)
           \/ \E keyed \in BOOLEAN : OpenFails(s, keyed)
    PROVE  NetInv'
<1> DEFINE c == f_slots[s]
<1>1. c \in Slot BY SlotTyped
<1>2. ASSUME NEW st \in {"DONE", "FAIL"}, NEW ka, ka = FALSE,
             SlotBecomes(s, [c EXCEPT !.state = st, !.keep_alive_ok = ka]), UNCHANGED <<ot, ep_pool>>
      PROVE  NetInv'
  <2> DEFINE new == [c EXCEPT !.state = st, !.keep_alive_ok = ka]
  <2>1. Settles(c, new)
    <3>1. /\ new \in Slot /\ new.state = st /\ new.keep_alive_ok = FALSE
          /\ new.parent = c.parent /\ new.ep = c.ep /\ new.data = c.data /\ new.shape = c.shape
          /\ new.answers = c.answers /\ new.cache_hit_body = c.cache_hit_body
          /\ new.cache_eligible = c.cache_eligible
      BY <1>1, <1>2, ZenonT(60) DEF Slot
    <3> HIDE DEF new
    <3> QED BY <1>1, <3>1 DEF Settles
  <2>2. f_slots' = [f_slots EXCEPT ![s] = new] /\ UNCHANGED <<ot, ep_pool, disk>>
    BY <1>2 DEF SlotBecomes
  <2> HIDE DEF new, c
  <2> QED BY <2>1, <2>2, SettlesKeeps DEF c
<1>3. CASE PollTimeout(s) BY <1>2, <1>3 DEF PollTimeout
<1>4. CASE PollAborted(s) BY <1>2, <1>4 DEF PollAborted
<1>5. CASE PollClosed(s) BY <1>2, <1>5 DEF PollClosed
<1>6. CASE PollNoData(s)
  <2>1. f_slots' = [f_slots EXCEPT ![s] = c] /\ UNCHANGED <<ot, ep_pool, disk>>
    BY <1>6 DEF PollNoData, SlotBecomes
  <2>2. Settles(c, c) BY <1>1 DEF Settles
  <2> QED BY <2>1, <2>2, SettlesKeeps
<1>7. CASE PollOTError(s)
  <2> DEFINE new == [c EXCEPT !.state = "FAIL"]
  <2>1. f_slots' = [f_slots EXCEPT ![s] = new] /\ UNCHANGED <<ot, ep_pool, disk>> /\ OTErrors
    BY <1>7 DEF PollOTError, SlotBecomes
  <2>2. /\ new \in Slot /\ new.state = "FAIL" /\ new.keep_alive_ok = c.keep_alive_ok
        /\ new.parent = c.parent /\ new.ep = c.ep /\ new.data = c.data /\ new.shape = c.shape
        /\ new.answers = c.answers /\ new.cache_hit_body = c.cache_hit_body
        /\ new.cache_eligible = c.cache_eligible
    BY <1>1 DEF Slot
  <2> HIDE DEF new
  <2>3. Settles(c, new) BY <1>1, <2>1, <2>2 DEF Settles
  <2> QED BY <2>1, <2>3, SettlesKeeps
<1>8. CASE \E keyed \in BOOLEAN : OpenFails(s, keyed)
  <2>1. PICK keyed \in BOOLEAN : SlotBecomes(s, OpenFailed(s, keyed)) /\ UNCHANGED <<ot, ep_pool>>
    BY <1>8 DEF OpenFails
  <2> DEFINE new == OpenFailed(s, keyed)
  <2>2. f_slots' = [f_slots EXCEPT ![s] = new] /\ UNCHANGED <<ot, ep_pool, disk>>
    BY <2>1 DEF SlotBecomes
  <2> HIDE DEF new
  <2>3. Settles(c, new) BY FailedSettles DEF new
  <2> QED BY <2>2, <2>3, SettlesKeeps
<1> QED BY <1>3, <1>4, <1>5, <1>6, <1>7, <1>8

(* A finishing message.  A slot that failed without an error of OTRcv, or  *)
(* was redirected, gives its endpoint up.                                  *)
LEMMA NotifyNet ==
    ASSUME NetInv, NEW s \in Slots, PollFallBack(s) \/ PollFail(s) \/ PollRedirect(s)
    PROVE  NetInv'
<1>1. PICK redirect \in BOOLEAN : Notify(s, redirect) /\ (~redirect => f_slots[s].state = "FAIL")
  BY DEF PollFallBack, PollFail, PollRedirect
<1> DEFINE c == f_slots[s]
           ab == c.aborted \/ redirect
           new == [c EXCEPT !.state = "NOTIFIED", !.aborted = ab]
<1>2. c \in Slot BY SlotTyped
<1>3. f_slots' = [f_slots EXCEPT ![s] = new] /\ UNCHANGED <<ot, ep_pool, disk>>
  BY <1>1 DEF Notify, NetInv, NetTyped
<1>4. ab \in BOOLEAN /\ (redirect => ab) /\ (c.aborted => ab) BY <1>2 DEF Slot
<1>5. ~redirect => ~c.keep_alive_ok \/ c.aborted \/ OTErrors
  BY <1>1, SlotTyped DEF SlotNet, AnswerOK
<1> HIDE DEF ab
<1>6. /\ new \in Slot /\ new.state = "NOTIFIED" /\ new.keep_alive_ok = c.keep_alive_ok
      /\ new.aborted = ab
      /\ new.parent = c.parent /\ new.ep = c.ep /\ new.data = c.data /\ new.shape = c.shape
      /\ new.answers = c.answers /\ new.cache_hit_body = c.cache_hit_body
      /\ new.cache_eligible = c.cache_eligible
  BY <1>2, <1>4 DEF Slot
<1> HIDE DEF new
<1>7. ~new.keep_alive_ok \/ new.aborted \/ OTErrors BY <1>4, <1>5, <1>6
<1>8. Settles(c, new) BY <1>2, <1>6, <1>7 DEF Settles
<1> QED BY <1>3, <1>8, SettlesKeeps

(* A flag of one slot changes.                                             *)
LEMMA FlagNet ==
    ASSUME NetInv, NEW s \in Slots, NEW b \in BOOLEAN, UNCHANGED <<ot, ep_pool, disk>>,
           \/ f_slots' = [f_slots EXCEPT ![s].aborted = TRUE]
           \/ f_slots' = [f_slots EXCEPT ![s].stale = b]
           \/ /\ f_slots[s].state = "QUEUED"
              /\ f_slots' = [f_slots EXCEPT ![s].state = "INIT", ![s].stale = FALSE]
    PROVE  NetInv'
<1> DEFINE c == f_slots[s]
           new1 == [c EXCEPT !.aborted = TRUE]
           new2 == [c EXCEPT !.stale = b]
           new3 == [c EXCEPT !.state = "INIT", !.stale = FALSE]
<1>1. c \in Slot BY SlotTyped
<1>2. Settles(c, new1)
  <2>1. /\ new1 \in Slot /\ new1.state = c.state /\ new1.keep_alive_ok = c.keep_alive_ok /\ new1.aborted
        /\ new1.parent = c.parent /\ new1.ep = c.ep /\ new1.data = c.data /\ new1.shape = c.shape
        /\ new1.answers = c.answers /\ new1.cache_hit_body = c.cache_hit_body
        /\ new1.cache_eligible = c.cache_eligible
    BY <1>1 DEF Slot
  <2> HIDE DEF new1
  <2> QED BY <1>1, <2>1 DEF Settles
<1>3. Settles(c, new2)
  <2>1. /\ new2 \in Slot /\ new2.state = c.state /\ new2.keep_alive_ok = c.keep_alive_ok
        /\ new2.aborted = c.aborted
        /\ new2.parent = c.parent /\ new2.ep = c.ep /\ new2.data = c.data /\ new2.shape = c.shape
        /\ new2.answers = c.answers /\ new2.cache_hit_body = c.cache_hit_body
        /\ new2.cache_eligible = c.cache_eligible
    BY <1>1 DEF Slot
  <2> HIDE DEF new2
  <2> QED BY <1>1, <2>1 DEF Settles
<1>4. c.state = "QUEUED" => Settles(c, new3)
  <2>1. /\ new3 \in Slot /\ new3.state = "INIT" /\ new3.keep_alive_ok = c.keep_alive_ok
        /\ new3.parent = c.parent /\ new3.ep = c.ep /\ new3.data = c.data /\ new3.shape = c.shape
        /\ new3.answers = c.answers /\ new3.cache_hit_body = c.cache_hit_body
        /\ new3.cache_eligible = c.cache_eligible
    BY <1>1 DEF Slot
  <2> HIDE DEF new3
  <2> QED BY <1>1, <2>1 DEF Settles
<1>5. \/ f_slots' = [f_slots EXCEPT ![s] = new1]
      \/ f_slots' = [f_slots EXCEPT ![s] = new2]
      \/ c.state = "QUEUED" /\ f_slots' = [f_slots EXCEPT ![s] = new3]
  BY DEF NetInv, NetTyped
<1> HIDE DEF new1, new2, new3
<1> QED BY <1>2, <1>3, <1>4, <1>5, SettlesKeeps

(* The cleared slot.                                                       *)
LEMMA BlankNet ==
    /\ Blank \in Slot /\ Blank.ep = NoEp /\ Blank.answers = NoFetch /\ Blank.shape = NoShape
    /\ Blank.data = <<>> /\ Blank.cache_eligible = FALSE /\ Blank.cache_hit_body = NoBody
    /\ SlotNet(Blank, <<>>)
<1>1. Blank \in Slot BY DEF Blank, Slot
<1>2. /\ Blank.ep = NoEp /\ Blank.answers = NoFetch /\ Blank.shape = NoShape /\ Blank.state = "IDLE"
      /\ Blank.data = <<>> /\ Blank.cache_eligible = FALSE /\ Blank.cache_hit_body = NoBody
      /\ Blank.keep_alive_ok = FALSE
  BY DEF Blank
<1>3. SlotNet(Blank, <<>>)
  BY <1>2 DEF SlotNet, HoldsOK, AnswerOK, NoPost, OfUrl
<1> QED BY <1>1, <1>2, <1>3

(* macos9_http_setup clears the slot it gives out.                         *)
LEMMA StartNet ==
    ASSUME NetInv, NEW f \in Fetches, NEW doc \in BOOLEAN, HttpStart(f, doc)
    PROVE  NetInv'
<1>1. PICK s \in Slots :
          /\ FirstIdle(s)
          /\ f_slots' = [f_slots EXCEPT ![s] =
                [Blank EXCEPT !.state = "QUEUED", !.parent = f,
                              !.keep_alive_ok = (f \notin Posts),
                              !.image = IsImage(f, doc)]]
  BY DEF HttpStart
<1> DEFINE ka == f \notin Posts
           im == IsImage(f, doc)
           new == [Blank EXCEPT !.state = "QUEUED", !.parent = f,
                                !.keep_alive_ok = ka, !.image = im]
<1>2. f_slots' = [f_slots EXCEPT ![s] = new] BY <1>1
<1>3. ka \in BOOLEAN /\ im \in BOOLEAN /\ (f \in Posts => ~ka) BY DEF IsImage
<1> HIDE DEF ka, im
<1>4. /\ Blank \in Slot /\ Blank.ep = NoEp /\ Blank.answers = NoFetch /\ Blank.shape = NoShape
      /\ Blank.data = <<>> /\ Blank.cache_eligible = FALSE /\ Blank.cache_hit_body = NoBody
  BY BlankNet
<1>5. new \in Slot BY <1>3, <1>4, ZenonT(60) DEF Slot
<1>6. /\ new.state = "QUEUED" /\ new.parent = f /\ new.ep = NoEp /\ new.keep_alive_ok = ka
      /\ new.answers = NoFetch /\ new.shape = NoShape /\ new.data = <<>>
      /\ new.cache_eligible = FALSE /\ new.cache_hit_body = NoBody
  BY <1>3, <1>4 DEF Slot
<1> HIDE DEF new
<1>7. f_slots[s].ep = NoEp
  BY <1>1, SlotTyped DEF FirstIdle, SlotNet, HoldsOK
<1>8. SlotNet(new, <<>>)
  BY <1>3, <1>6 DEF SlotNet, HoldsOK, AnswerOK, NoPost, OfUrl
<1>9. SlotNet(new, Wire(ot, new.ep)) BY <1>6, <1>8 DEF Wire
<1>10. UNCHANGED <<ot, ep_pool, disk>> BY DEF HttpStart
<1> QED BY <1>2, <1>5, <1>6, <1>7, <1>9, <1>10, NetSlot

(* A fresh body on disk is taken for the answer.                           *)
LEMMA CacheHitNet ==
    ASSUME NetInv, NEW s \in Slots, f_slots[s].parent \in Fetches, OpenCacheHit(s)
    PROVE  NetInv'
<1> DEFINE c == f_slots[s]
           b == disk[UrlOf[c.parent]]
           new == [c EXCEPT !.state = "HEADERS", !.keep_alive_ok = FALSE, !.cache_hit_body = b]
<1>1. /\ c.state = "INIT" /\ c.parent \notin Posts /\ b # NoBody
      /\ f_slots' = [f_slots EXCEPT ![s] = new] /\ UNCHANGED <<ot, ep_pool, disk>>
  BY DEF OpenCacheHit, Opening, SlotBecomes
<1>2. c \in Slot /\ SlotNet(c, Wire(ot, c.ep)) BY SlotTyped
<1>3. UrlOf[c.parent] \in Urls BY DEF Urls
<1>4. b \in Body /\ ServesUrl(b, UrlOf[c.parent])
  BY <1>1, <1>3 DEF NetInv, NetTyped, DiskOK
<1> HIDE DEF b
<1>5. new \in Slot BY <1>2, <1>4 DEF Slot, Body
<1>6. /\ new.state = "HEADERS" /\ new.keep_alive_ok = FALSE /\ new.cache_hit_body = b
      /\ new.parent = c.parent /\ new.ep = c.ep /\ new.data = c.data /\ new.shape = c.shape
      /\ new.answers = c.answers /\ new.cache_eligible = c.cache_eligible
  BY <1>2, <1>4 DEF Slot, Body
<1> HIDE DEF new
<1>7. /\ c.ep = NoEp /\ c.data = <<>> /\ c.shape = NoShape /\ c.answers = NoFetch
  BY <1>1, <1>2 DEF SlotNet, HoldsOK
<1>8. Wire(ot, new.ep) = <<>> BY <1>6, <1>7 DEF Wire
<1>9. SlotNet(new, <<>>)
  <2>1. HoldsOK(new, <<>>) BY <1>1, <1>4, <1>6, <1>7 DEF HoldsOK, NoPost, ServesUrl
  <2>2. ~OTErrors => AnswerOK(new, <<>>) BY <1>1, <1>4, <1>6, <1>7 DEF AnswerOK, OfUrl, ServesUrl
  <2> QED BY <2>1, <2>2 DEF SlotNet
<1> QED BY <1>1, <1>5, <1>6, <1>8, <1>9, NetSlot

(* The cached body is handed on.                                           *)
LEMMA CacheSendNet ==
    ASSUME NetInv, NEW s \in Slots, NEW failed \in BOOLEAN, PollCacheHit(s, failed)
    PROVE  NetInv'
<1> DEFINE c == f_slots[s]
           data == c.cache_hit_body.data
           new == [c EXCEPT !.state = "DONE", !.data = data, !.aborted = failed]
<1>1. /\ c.cache_hit_body # NoBody
      /\ f_slots' = [f_slots EXCEPT ![s] = new] /\ UNCHANGED <<ot, ep_pool, disk>>
  BY DEF PollCacheHit, SlotBecomes
<1>2. c \in Slot /\ SlotNet(c, Wire(ot, c.ep)) BY SlotTyped
<1>3. data \in Seq(Unit) BY <1>1, <1>2 DEF Slot
<1>4. NoPost(data) /\ c.parent \notin Posts /\ ~c.keep_alive_ok /\ (~OTErrors => OfUrl(data, UrlOf[c.parent]))
  BY <1>1, <1>2 DEF SlotNet, HoldsOK, AnswerOK
<1> HIDE DEF data
<1>5. /\ new \in Slot
      /\ new.state = "DONE" /\ new.keep_alive_ok = c.keep_alive_ok
      /\ new.cache_hit_body = c.cache_hit_body /\ new.data = data
      /\ new.parent = c.parent /\ new.ep = c.ep /\ new.shape = c.shape
      /\ new.answers = c.answers /\ new.cache_eligible = c.cache_eligible
  BY <1>2, <1>3 DEF Slot
<1> HIDE DEF new
<1> DEFINE w == Wire(ot, c.ep)
<1> HIDE DEF w
<1>6. SlotNet(new, w)
  <2>1. HoldsOK(c, w) /\ (~OTErrors => AnswerOK(c, w)) BY <1>2 DEF SlotNet, w
  <2>2. HoldsOK(new, w) BY <1>1, <1>4, <1>5, <2>1 DEF HoldsOK
  <2>3. ~OTErrors => AnswerOK(new, w) BY <1>1, <1>4, <1>5, <2>1 DEF AnswerOK
  <2> QED BY <2>2, <2>3 DEF SlotNet
<1> QED BY <1>1, <1>5, <1>6, NetSlot DEF w

-----------------------------------------------------------------------------
(* The pool.                                                               *)

(* A pooled endpoint is taken out by moving the last one to its place.     *)
LEMMA CompactPool ==
    ASSUME NetInv, NEW i \in DOMAIN ep_pool
    PROVE  /\ Compact(i) \in Seq(Endpoints)
           /\ Distinct(Compact(i))
           /\ Len(Compact(i)) <= POOL_SIZE
           /\ ep_pool[i] \in Endpoints /\ Holds(ep_pool, ep_pool[i])
           /\ \A e : Holds(Compact(i), e) <=> Holds(ep_pool, e) /\ e # ep_pool[i]
<1> DEFINE n == Len(ep_pool)
           q == [ep_pool EXCEPT ![i] = ep_pool[n]]
           r == Compact(i)
<1>1. /\ ep_pool \in Seq(Endpoints) /\ Distinct(ep_pool) /\ n <= POOL_SIZE
      /\ n \in Nat /\ DOMAIN ep_pool = 1..n /\ i \in 1..n /\ n \in 1..n
  BY LenProperties DEF NetInv, NetTyped, Owned, PoolClean
<1>2. \A j \in 1..n : ep_pool[j] \in Endpoints BY <1>1, ElementOfSeq
<1>3. q \in Seq(Endpoints) /\ Len(q) = n /\ \A j \in 1..n : q[j] = IF j = i THEN ep_pool[n] ELSE ep_pool[j]
  BY <1>1, <1>2, ExceptSeq
<1>4. r = SubSeq(q, 1, n - 1) BY DEF Compact
<1> HIDE DEF q, r
<1>5. n - 1 \in 0..Len(q) BY <1>1, <1>3
<1>6. r \in Seq(Endpoints) /\ Len(r) = n - 1 /\ \A j \in 1..n - 1 : r[j] = q[j]
  BY <1>3, <1>4, <1>5, CutElements
<1>7. DOMAIN r = 1..n - 1 BY <1>6, LenProperties
<1> DEFINE old(j) == IF j = i THEN n ELSE j
<1>8. \A j \in 1..n - 1 : old(j) \in 1..n /\ old(j) # i /\ r[j] = ep_pool[old(j)]
  BY <1>1, <1>3, <1>6
<1>9. \A j, k \in 1..n - 1 : old(j) = old(k) => j = k
  BY <1>1
<1>10. \A k \in 1..n : k # i => \E j \in 1..n - 1 : old(j) = k
  <2> SUFFICES ASSUME NEW k \in 1..n, k # i PROVE \E j \in 1..n - 1 : old(j) = k
    OBVIOUS
  <2>1. CASE k = n
    <3>1. i \in 1..n - 1 /\ old(i) = k BY <2>1, <1>1
    <3> QED BY <3>1
  <2>2. CASE k # n
    <3>1. k \in 1..n - 1
      <4>1. \A a \in Nat : \A b \in 1..a : b # a => b \in 1..a - 1 OBVIOUS
      <4> QED BY <2>2, <1>1, <4>1
    <3>2. old(k) = k OBVIOUS
    <3> QED BY <3>1, <3>2
  <2> QED BY <2>1, <2>2
<1> HIDE DEF old
<1>11. Distinct(r)
  BY <1>1, <1>7, <1>8, <1>9 DEF Distinct
<1>12. ASSUME NEW e PROVE Holds(r, e) <=> Holds(ep_pool, e) /\ e # ep_pool[i]
  BY <1>1, <1>7, <1>8, <1>10 DEF Distinct, Holds
<1>13. Len(r) <= POOL_SIZE BY <1>1, <1>6, PoolAssumption
<1> QED BY <1>1, <1>2, <1>6, <1>11, <1>12, <1>13 DEF r, Holds

LEMMA ClosedIsEndpoint == ClosedEp \in Endpoint /\ ClosedEp.open = FALSE /\ ClosedEp.wire = <<>>
  BY DEF ClosedEp, Endpoint

(* A pooled endpoint is closed.                                            *)
LEMMA DiscardNet ==
    ASSUME NetInv, NEW s \in Slots, NEW i \in DOMAIN ep_pool, NEW new, Settles(f_slots[s], new),
           f_slots' = [f_slots EXCEPT ![s] = new], ep_pool' = Compact(i),
           ot' = [ot EXCEPT ![ep_pool[i]] = ClosedEp], UNCHANGED disk
    PROVE  NetInv'
<1> DEFINE x == ep_pool[i]
<1>1. /\ ep_pool' \in Seq(Endpoints) /\ Distinct(ep_pool') /\ Len(ep_pool') <= POOL_SIZE
      /\ x \in Endpoints /\ Holds(ep_pool, x)
      /\ \A e : Holds(ep_pool', e) <=> Holds(ep_pool, e) /\ e # x
  BY CompactPool
<1>2. ot' = [ot EXCEPT ![x] = ClosedEp] OBVIOUS
<1> HIDE DEF x
<1>3. /\ ot' \in [Endpoints -> Endpoint] /\ ot'[x] = ClosedEp
      /\ \A e \in Endpoints : e # x => ot'[e] = ot[e]
  BY <1>1, <1>2, ClosedIsEndpoint DEF NetInv, NetTyped
<1>4. ~ot'[x].open BY <1>3, ClosedIsEndpoint
<1>5. new \in Slot /\ new.ep = f_slots[s].ep BY DEF Settles
<1>6. \A r \in Slots : EpOf(r) # x /\ EpOf(r) \in Endpoints \cup {NoEp}
  BY <1>1, NoneAssumption DEF NetInv, Owned, NetTyped, EpOf, Slot
<1>7. new.ep = EpOf(s) BY <1>5 DEF EpOf
<1>8. \A e \in Endpoints : ot'[e].open <=> \/ Holds(ep_pool', e)
                                           \/ new.ep = e
                                           \/ \E r \in Slots : r # s /\ EpOf(r) = e
  <2> SUFFICES ASSUME NEW e \in Endpoints
               PROVE  ot'[e].open <=> Holds(ep_pool', e) \/ \E r \in Slots : EpOf(r) = e
    BY <1>7
  <2>1. CASE e = x BY <2>1, <1>1, <1>4, <1>6
  <2>2. CASE e # x BY <2>2, <1>1, <1>3 DEF NetInv, Owned
  <2> QED BY <2>1, <2>2
<1>9. \A e \in Endpoints : Holds(ep_pool', e) => /\ Holds(ep_pool, e) \/ e = EpOf(s)
                                                 /\ e # new.ep
                                                 /\ Idle(ot'[e].wire)
  BY <1>1, <1>3, <1>7, NoneAssumption DEF NetInv, Owned, PoolClean
<1>10. \A r \in Slots : EpOf(r) # NoEp => ot'[EpOf(r)].wire = ot[EpOf(r)].wire
  BY <1>3, <1>6
<1>11. SlotNet(new, Wire(ot', new.ep))
  <2>1. Wire(ot', new.ep) = Wire(ot, f_slots[s].ep) BY <1>5, <1>7, <1>10 DEF Wire
  <2>2. SlotNet(f_slots[s], Wire(ot, f_slots[s].ep)) BY SlotTyped
  <2> QED BY <2>1, <2>2, SettlesNet
<1>12. disk' \in [Urls -> Body \cup {NoBody}] /\ \A u \in Urls : ServesUrl(disk'[u], u)
  BY DEF NetInv, NetTyped, DiskOK
<1>13. /\ new.ep # NoEp => \/ new.ep = EpOf(s)
                            \/ Holds(ep_pool, new.ep)
                            \/ ~ot[new.ep].open
       /\ \A r \in Slots : r # s /\ EpOf(r) # NoEp => ot'[EpOf(r)].wire = ot[EpOf(r)].wire
  BY <1>7, <1>10
<1>14. /\ ep_pool' \in Seq(Endpoints) /\ Distinct(ep_pool') /\ Len(ep_pool') <= POOL_SIZE
       /\ ot' \in [Endpoints -> Endpoint]
  BY <1>1, <1>3
<1> QED BY <1>5, <1>8, <1>9, <1>11, <1>12, <1>13, <1>14, NetKeeps, ZenonT(60)

LEMMA PoolDiscardNet ==
    ASSUME NetInv, NEW s \in Slots, NEW i \in DOMAIN ep_pool, PoolDiscard(s, i) \/ OpenPooledFails(s, i)
    PROVE  NetInv'
<1> DEFINE c == f_slots[s]
           new == [c EXCEPT !.keyed = TRUE]
<1>1. c \in Slot BY SlotTyped
<1>2. CASE PoolDiscard(s, i)
  <2>1. f_slots' = [f_slots EXCEPT ![s] = new]
    BY <1>2 DEF PoolDiscard, NetInv, NetTyped
  <2>2. /\ new \in Slot /\ new.state = c.state /\ new.keep_alive_ok = c.keep_alive_ok
        /\ new.aborted = c.aborted
        /\ new.parent = c.parent /\ new.ep = c.ep /\ new.data = c.data /\ new.shape = c.shape
        /\ new.answers = c.answers /\ new.cache_hit_body = c.cache_hit_body
        /\ new.cache_eligible = c.cache_eligible
    BY <1>1 DEF Slot
  <2> HIDE DEF new
  <2>3. Settles(c, new) BY <1>1, <2>2 DEF Settles
  <2>4. ep_pool' = Compact(i) /\ ot' = [ot EXCEPT ![ep_pool[i]] = ClosedEp] /\ UNCHANGED disk
    BY <1>2 DEF PoolDiscard
  <2> QED BY <2>1, <2>3, <2>4, DiscardNet
<1>3. CASE OpenPooledFails(s, i)
  <2>1. /\ ep_pool' = Compact(i) /\ ot' = [ot EXCEPT ![ep_pool[i]] = ClosedEp] /\ UNCHANGED disk
        /\ f_slots' = [f_slots EXCEPT ![s] = OpenFailed(s, TRUE)]
    BY <1>3 DEF OpenPooledFails, SlotBecomes
  <2>2. Settles(c, OpenFailed(s, TRUE)) BY FailedSettles
  <2> QED BY <2>1, <2>2, DiscardNet
<1> QED BY <1>2, <1>3

-----------------------------------------------------------------------------
(* Parts of an answer.                                                     *)

(* A part of an answer that is cut is still a part of it.                  *)
LEMMA PartCut ==
    ASSUME NEW w \in Seq(Unit), NEW n \in 0..Len(w), NEW f, NEW shape, shape \in Shape,
           NEW p \in Nat, Part(w, f, shape, p)
    PROVE  /\ SubSeq(w, 1, n) \in Seq(Unit) /\ Len(SubSeq(w, 1, n)) = n
           /\ SubSeq(w, n + 1, Len(w)) \in Seq(Unit) /\ Len(SubSeq(w, n + 1, Len(w))) = Len(w) - n
           /\ Part(SubSeq(w, 1, n), f, shape, p)
           /\ Part(SubSeq(w, n + 1, Len(w)), f, shape, p + n)
<1> DEFINE a == SubSeq(w, 1, n)
           b == SubSeq(w, n + 1, Len(w))
<1>1. Len(w) \in Nat /\ DOMAIN w = 1..Len(w) BY LenProperties
<1>2. a \in Seq(Unit) /\ Len(a) = n /\ \A i \in 1..n : a[i] = w[i]
  BY CutElements
<1>3. b \in Seq(Unit) /\ Len(b) = Len(w) - n /\ \A i \in 1..Len(w) - n : b[i] = w[n + i]
  BY CutElements
<1> HIDE DEF a, b
<1>4. DOMAIN a = 1..n /\ DOMAIN b = 1..Len(w) - n BY <1>2, <1>3, LenProperties
<1>5. Units(shape) \in Nat BY DEF Units, Shape
<1>6. p + Len(w) <= Units(shape) /\ \A j \in 1..Len(w) : w[j] = UnitAt(f, shape, p + j)
  BY <1>1 DEF Part
<1>7. Part(a, f, shape, p)
  BY <1>1, <1>2, <1>4, <1>5, <1>6 DEF Part
<1>8. Part(b, f, shape, p + n)
  <2>1. p + n + Len(b) <= Units(shape) BY <1>1, <1>3, <1>5, <1>6
  <2>2. ASSUME NEW j \in DOMAIN b PROVE b[j] = UnitAt(f, shape, p + n + j)
    <3>1. j \in 1..Len(w) - n /\ n + j \in 1..Len(w) BY <1>1, <1>4
    <3>2. b[j] = w[n + j] /\ w[n + j] = UnitAt(f, shape, p + (n + j)) BY <3>1, <1>3, <1>6
    <3>3. p + (n + j) = p + n + j BY <3>1
    <3> QED BY <3>2, <3>3
  <2> QED BY <2>1, <2>2 DEF Part
<1> QED BY <1>2, <1>3, <1>7, <1>8 DEF a, b

(* Two parts of an answer that follow each other.                          *)
LEMMA PartJoin ==
    ASSUME NEW a \in Seq(Unit), NEW b \in Seq(Unit), NEW f, NEW shape, shape \in Shape, NEW p \in Nat,
           Part(a, f, shape, p), Part(b, f, shape, p + Len(a))
    PROVE  /\ a \o b \in Seq(Unit) /\ Len(a \o b) = Len(a) + Len(b)
           /\ Part(a \o b, f, shape, p)
<1> DEFINE w == a \o b
           m == Len(a)
           n == Len(b)
<1>1. m \in Nat /\ n \in Nat /\ DOMAIN a = 1..m /\ DOMAIN b = 1..n BY LenProperties
<1>2. /\ w \in Seq(Unit) /\ Len(w) = m + n
      /\ \A i \in 1..m : w[i] = a[i]
      /\ \A i \in 1..n : w[m + i] = b[i]
  BY JoinElements
<1>3. DOMAIN w = 1..m + n BY <1>2, LenProperties
<1>4. Units(shape) \in Nat BY DEF Units, Shape
<1>5. /\ \A j \in 1..m : a[j] = UnitAt(f, shape, p + j)
      /\ \A j \in 1..n : b[j] = UnitAt(f, shape, p + m + j)
      /\ p + m + n <= Units(shape)
  BY <1>1 DEF Part
<1> HIDE DEF w, m, n
<1>6. ASSUME NEW j \in 1..m + n PROVE w[j] = UnitAt(f, shape, p + j)
  <2>1. CASE j <= m
    <3>1. j \in 1..m BY <2>1, <1>1
    <3> QED BY <3>1, <1>2, <1>5
  <2>2. CASE j > m
    <3>1. j - m \in 1..n /\ m + (j - m) = j /\ p + m + (j - m) = p + j BY <2>2, <1>1
    <3> QED BY <3>1, <1>2, <1>5
  <2> QED BY <2>1, <2>2, <1>1
<1>7. p + Len(w) <= Units(shape) BY <1>1, <1>2, <1>4, <1>5
<1>8. Part(w, f, shape, p) BY <1>3, <1>6, <1>7 DEF Part
<1> QED BY <1>2, <1>8 DEF w, m, n

LEMMA UnitParts ==
    ASSUME NEW f, NEW shape, shape \in Shape, NEW n \in Nat, n > 0
    PROVE  /\ UnitAt(f, shape, n).req = f /\ UnitAt(f, shape, n).shape = shape
           /\ UnitAt(f, shape, n).part = "head" <=> n = 1
           /\ n > 1 /\ n <= shape.len + 1 => UnitAt(f, shape, n).part = "data"
           /\ n > shape.len + 1 => UnitAt(f, shape, n).part = "end"
<1>1. shape.len \in Nat BY DEF Shape
<1> QED BY <1>1 DEF UnitAt

(* What the server sends is the answer, from its first unit to its last.   *)
LEMMA ResponsePart ==
    ASSUME NEW f \in Fetches, NEW shape \in Shape
    PROVE  Response(f, shape) \in Seq(Unit) /\ Part(Response(f, shape), f, shape, 0)
<1> DEFINE unit(part) == [req |-> f, part |-> part, shape |-> shape]
           len == shape.len
           A == <<unit("head")>>
           B == [n \in 1..len |-> unit("data")]
           C == IF shape.framing = "chunked" THEN <<unit("end")>> ELSE <<>>
           k == IF shape.framing = "chunked" THEN 1 ELSE 0
           w == Response(f, shape)
<1>1. w = (A \o B) \o C BY DEF Response
<1>2. \A part \in {"head", "data", "end"} : unit(part) \in Unit
  BY DEF Unit
<1>3. len \in Nat /\ k \in {0, 1} BY DEF Shape
<1>4. A \in Seq(Unit) /\ Len(A) = 1 /\ A[1] = unit("head")
  BY <1>2
<1>5. B \in Seq(Unit) /\ Len(B) = len /\ \A i \in 1..len : B[i] = unit("data")
  <2> DEFINE d == unit("data")
  <2>1. d \in Unit BY <1>2
  <2> HIDE DEF d
  <2>2. [n \in 1..len |-> d] \in Seq(Unit) /\ Len([n \in 1..len |-> d]) = len
    BY <1>3, <2>1
  <2> QED BY <2>2 DEF d
<1>6. C \in Seq(Unit) /\ Len(C) = k /\ \A i \in 1..k : C[i] = unit("end")
  BY <1>2
<1> HIDE DEF A, B, C, unit, len, k, w
<1> DEFINE D == A \o B
<1>7. /\ D \in Seq(Unit) /\ Len(D) = 1 + len
      /\ D[1] = A[1]
      /\ \A i \in 1..len : D[1 + i] = B[i]
  <2>1. A \in Seq(Unit) /\ B \in Seq(Unit) BY <1>4, <1>5
  <2>2. /\ A \o B \in Seq(Unit) /\ Len(A \o B) = Len(A) + Len(B)
        /\ \A i \in 1..Len(A) : (A \o B)[i] = A[i]
        /\ \A i \in 1..Len(B) : (A \o B)[Len(A) + i] = B[i]
    BY <2>1, JoinElements
  <2> QED BY <2>2, <1>4, <1>5
<1>8. w = D \o C BY <1>1
<1> HIDE DEF D
<1>9. /\ w \in Seq(Unit) /\ Len(w) = 1 + len + k
      /\ \A i \in 1..1 + len : w[i] = D[i]
      /\ \A i \in 1..k : w[1 + len + i] = C[i]
  <2>1. D \in Seq(Unit) /\ C \in Seq(Unit) BY <1>6, <1>7
  <2>2. /\ D \o C \in Seq(Unit) /\ Len(D \o C) = Len(D) + Len(C)
        /\ \A i \in 1..Len(D) : (D \o C)[i] = D[i]
        /\ \A i \in 1..Len(C) : (D \o C)[Len(D) + i] = C[i]
    BY <2>1, JoinElements
  <2> QED BY <2>2, <1>6, <1>7, <1>8
<1>10. DOMAIN w = 1..1 + len + k BY <1>9, LenProperties
<1>11. ASSUME NEW j \in 1..1 + len + k PROVE w[j] = UnitAt(f, shape, j)
  <2>1. CASE j = 1
    <3>1. w[j] = unit("head") BY <2>1, <1>3, <1>4, <1>7, <1>9
    <3> QED BY <2>1, <3>1 DEF UnitAt, unit
  <2>2. CASE j > 1 /\ j <= 1 + len
    <3>1. j - 1 \in 1..len /\ 1 + (j - 1) = j /\ j \in 1..1 + len BY <2>2, <1>3
    <3>2. w[j] = D[j] /\ D[j] = B[j - 1] BY <3>1, <1>7, <1>9
    <3>3. w[j] = unit("data") BY <3>1, <3>2, <1>5
    <3>4. j # 1 /\ j > 1 /\ j <= shape.len + 1 BY <2>2, <1>3 DEF len
    <3> QED BY <3>3, <3>4 DEF UnitAt, unit
  <2>3. CASE j > 1 + len
    <3>1. k = 1 /\ j = 1 + len + 1 BY <2>3, <1>3
    <3>2. w[j] = unit("end") BY <3>1, <1>3, <1>6, <1>9
    <3>3. j # 1 /\ ~(j > 1 /\ j <= shape.len + 1) BY <2>3, <1>3 DEF len
    <3> QED BY <3>2, <3>3 DEF UnitAt, unit
  <2> QED BY <2>1, <2>2, <2>3, <1>3
<1>12. Units(shape) = 1 + len + k BY <1>3 DEF Units, len, k
<1>13. Part(w, f, shape, 0)
  <2>1. 0 + Len(w) <= Units(shape) BY <1>3, <1>9, <1>12
  <2>2. \A j \in DOMAIN w : 0 + j = j BY <1>3, <1>10
  <2> QED BY <1>10, <1>11, <2>1, <2>2 DEF Part
<1> QED BY <1>9, <1>13 DEF w

(* Every unit of an answer to f is tagged with f.                          *)
LEMMA PartReq ==
    ASSUME NEW w \in Seq(Unit), NEW f, NEW shape, shape \in Shape, NEW p \in Nat, Part(w, f, shape, p)
    PROVE  \A i \in DOMAIN w : w[i].req = f
<1> SUFFICES ASSUME NEW i \in DOMAIN w PROVE w[i].req = f
  OBVIOUS
<1>1. i \in 1..Len(w) /\ Len(w) \in Nat BY LenProperties
<1>2. p + i \in Nat /\ p + i > 0 BY <1>1
<1>3. w[i] = UnitAt(f, shape, p + i) BY DEF Part
<1> QED BY <1>2, <1>3, UnitParts

-----------------------------------------------------------------------------
(* Opening.                                                                *)

(* The wire of an idle endpoint o once request f was sent on it.           *)
LEMMA AnsweredNet ==
    ASSUME NEW o \in Endpoint, NEW f \in Fetches, NEW shape \in Shapes, Idle(o.wire)
    PROVE  /\ Answered(o, f, shape) \in Endpoint
           /\ Answered(o, f, shape).open <=> o.open
           /\ f \notin Posts => NoPost(Answered(o, f, shape).wire)
           /\ ~OTErrors => Part(Answered(o, f, shape).wire, f, shape, 0)
<1> DEFINE R == Response(f, shape)
           w == o.wire \o R
           cl == shape.close \/ shape.framing = "plain" \/ f \in Posts
           d == [o EXCEPT !.wire = w, !.closed = cl]
<1>1. shape \in Shape BY ShapeAssumption
<1>2. R \in Seq(Unit) /\ Part(R, f, shape, 0) BY <1>1, ResponsePart
<1>3. \A i \in DOMAIN R : R[i].req = f BY <1>1, <1>2, PartReq
<1>4. o.wire \in Seq(Unit) BY DEF Endpoint
<1>5. cl \in BOOLEAN BY <1>1 DEF Shape
<1> HIDE DEF R
<1>6. w \in Seq(Unit) /\ (f \notin Posts => NoPost(w))
  <2>1. /\ w \in Seq(Unit) /\ Len(w) = Len(o.wire) + Len(R)
        /\ \A i \in 1..Len(o.wire) : w[i] = o.wire[i]
        /\ \A i \in 1..Len(R) : w[Len(o.wire) + i] = R[i]
    BY <1>2, <1>4, JoinElements
  <2> DEFINE m == Len(o.wire)
             n == Len(R)
  <2>2. /\ m \in Nat /\ n \in Nat /\ DOMAIN o.wire = 1..m /\ DOMAIN R = 1..n /\ DOMAIN w = 1..m + n
    BY <1>2, <1>4, <2>1, LenProperties
  <2>3. /\ \A i \in 1..m : w[i] = o.wire[i]
        /\ \A i \in 1..n : w[m + i] = R[i]
    BY <2>1
  <2> HIDE DEF w, m, n
  <2>4. ASSUME f \notin Posts, NEW i \in 1..m + n PROVE w[i].req \notin Posts
    <3>1. CASE i <= m
      <4>1. i \in 1..m BY <3>1, <2>2
      <4> QED BY <4>1, <2>2, <2>3 DEF Idle, NoPost
    <3>2. CASE i > m
      <4>1. i - m \in 1..n /\ m + (i - m) = i BY <3>2, <2>2
      <4> QED BY <4>1, <2>2, <2>3, <2>4, <1>3
    <3> QED BY <3>1, <3>2, <2>2
  <2> QED BY <2>1, <2>2, <2>4 DEF NoPost
<1>7. ~OTErrors => Part(w, f, shape, 0)
  <2>1. ~OTErrors => w = R BY <1>2 DEF Idle
  <2> QED BY <2>1, <1>2
<1> HIDE DEF w, cl
<1>8. d \in Endpoint /\ d.open = o.open /\ d.wire = w
  BY <1>5, <1>6 DEF Endpoint
<1>9. Answered(o, f, shape) = IF o.closed THEN o ELSE d
  BY DEF Answered, w, R, cl
<1> HIDE DEF d
<1>10. Part(<<>>, f, shape, 0) BY <1>1 DEF Part, Units, Shape
<1>11. CASE o.closed
  BY <1>9, <1>10, <1>11 DEF Idle
<1>12. CASE ~o.closed
  BY <1>6, <1>7, <1>8, <1>9, <1>12
<1> QED BY <1>11, <1>12

(* A slot gets an endpoint, from the pool or a new one.                    *)
LEMMA TakeKeeps ==
    ASSUME NetInv, NEW s \in Slots, NEW new \in Slot, NEW x \in Endpoints, NEW a \in Endpoint,
           f_slots' = [f_slots EXCEPT ![s] = new], ot' = [ot EXCEPT ![x] = a],
           f_slots[s].ep = NoEp, new.ep = x, a.open, SlotNet(new, a.wire),
           ep_pool' \in Seq(Endpoints), Distinct(ep_pool'), Len(ep_pool') <= POOL_SIZE,
           \A e \in Endpoints : Holds(ep_pool', e) <=> Holds(ep_pool, e) /\ e # x,
           Holds(ep_pool, x) \/ ~ot[x].open, UNCHANGED disk
    PROVE  NetInv'
<1>1. /\ ot' \in [Endpoints -> Endpoint] /\ ot'[x] = a
      /\ \A e \in Endpoints : e # x => ot'[e] = ot[e]
  BY DEF NetInv, NetTyped
<1>2. Wire(ot', new.ep) = a.wire BY <1>1, NoneAssumption DEF Wire
<1>3. EpOf(s) = NoEp /\ x # NoEp BY NoneAssumption DEF EpOf
<1>4. \A r \in Slots : EpOf(r) \in Endpoints \cup {NoEp} /\ EpOf(r) # x
  <2>1. \A r \in Slots : EpOf(r) \in Endpoints \cup {NoEp}
    BY DEF NetInv, NetTyped, Slot, EpOf
  <2>2. \A r \in Slots : EpOf(r) # x BY <1>3 DEF NetInv, Owned
  <2> QED BY <2>1, <2>2
<1>5. \A e \in Endpoints : ot'[e].open <=> \/ Holds(ep_pool', e)
                                           \/ new.ep = e
                                           \/ \E r \in Slots : r # s /\ EpOf(r) = e
  <2> SUFFICES ASSUME NEW e \in Endpoints
               PROVE  ot'[e].open <=> \/ Holds(ep_pool', e)
                                      \/ x = e
                                      \/ \E r \in Slots : r # s /\ EpOf(r) = e
    OBVIOUS
  <2>1. CASE e = x BY <2>1, <1>1
  <2>2. CASE e # x
    <3>1. ot[e].open <=> Holds(ep_pool, e) \/ \E r \in Slots : EpOf(r) = e
      BY DEF NetInv, Owned
    <3>2. ot'[e] = ot[e] /\ (Holds(ep_pool', e) <=> Holds(ep_pool, e)) BY <2>2, <1>1
    <3>3. EpOf(s) # e BY <1>3, NoneAssumption
    <3> QED BY <2>2, <3>1, <3>2, <3>3
  <2> QED BY <2>1, <2>2
<1>6. \A e \in Endpoints : Holds(ep_pool', e) => /\ Holds(ep_pool, e) \/ e = EpOf(s)
                                                 /\ e # new.ep
                                                 /\ Idle(ot'[e].wire)
  BY <1>1 DEF NetInv, PoolClean
<1>7. /\ new.ep # NoEp => \/ new.ep = EpOf(s)
                          \/ Holds(ep_pool, new.ep)
                          \/ ~ot[new.ep].open
      /\ \A r \in Slots : r # s /\ EpOf(r) # NoEp => ot'[EpOf(r)].wire = ot[EpOf(r)].wire
  BY <1>1, <1>4
<1>8. disk' \in [Urls -> Body \cup {NoBody}] /\ \A u \in Urls : ServesUrl(disk'[u], u)
  BY DEF NetInv, NetTyped, DiskOK
<1>9. SlotNet(new, Wire(ot', new.ep)) /\ ot' \in [Endpoints -> Endpoint]
  BY <1>1, <1>2
<1> QED BY <1>5, <1>6, <1>7, <1>8, <1>9, NetKeeps

LEMMA TakeNet ==
    ASSUME NetInv, NEW s \in Slots, f_slots[s].state = "INIT", f_slots[s].parent \in Fetches,
           NEW x \in Endpoints, NEW o \in Endpoint, o.open, Idle(o.wire), NEW shape \in Shapes,
           f_slots' = [f_slots EXCEPT ![s] = Opened(s, x)],
           ot' = [ot EXCEPT ![x] = Answered(o, f_slots[s].parent, shape)],
           ep_pool' \in Seq(Endpoints), Distinct(ep_pool'), Len(ep_pool') <= POOL_SIZE,
           \A e \in Endpoints : Holds(ep_pool', e) <=> Holds(ep_pool, e) /\ e # x,
           Holds(ep_pool, x) \/ ~ot[x].open, UNCHANGED disk
    PROVE  NetInv'
<1> DEFINE c == f_slots[s]
           new == [c EXCEPT !.state = "HEADERS", !.ep = x, !.keyed = TRUE]
           a == Answered(o, c.parent, shape)
<1>1. c \in Slot /\ SlotNet(c, Wire(ot, c.ep)) BY SlotTyped
<1>2. c.ep = NoEp /\ c.data = <<>> /\ c.shape = NoShape /\ c.answers = NoFetch /\ c.cache_hit_body = NoBody
  BY <1>1 DEF SlotNet, HoldsOK
<1>3. c.parent \in Posts => ~c.cache_eligible /\ ~c.keep_alive_ok
  BY <1>1 DEF SlotNet, HoldsOK
<1>4. /\ a \in Endpoint /\ a.open
      /\ c.parent \notin Posts => NoPost(a.wire)
      /\ ~OTErrors => Part(a.wire, c.parent, shape, 0)
  BY AnsweredNet
<1>5. f_slots' = [f_slots EXCEPT ![s] = new] /\ ot' = [ot EXCEPT ![x] = a]
  BY DEF Opened
<1> HIDE DEF a
<1>6. /\ new \in Slot /\ new.state = "HEADERS" /\ new.ep = x
      /\ new.keep_alive_ok = c.keep_alive_ok /\ new.cache_hit_body = c.cache_hit_body
      /\ new.parent = c.parent /\ new.data = c.data /\ new.shape = c.shape
      /\ new.answers = c.answers /\ new.cache_eligible = c.cache_eligible
  BY <1>1 DEF Slot
<1> HIDE DEF new
<1>7. SlotNet(new, a.wire)
  <2>1. HoldsOK(new, a.wire)
    BY <1>2, <1>3, <1>4, <1>6, NoneAssumption DEF HoldsOK, NoPost
  <2>2. ~OTErrors => AnswerOK(new, a.wire)
    BY <1>2, <1>4, <1>6 DEF AnswerOK, OfUrl
  <2> QED BY <2>1, <2>2 DEF SlotNet
<1>8. f_slots[s].ep = NoEp /\ new.ep = x /\ a.open /\ a \in Endpoint /\ new \in Slot
  BY <1>2, <1>4, <1>6
<1> QED BY <1>5, <1>7, <1>8, TakeKeeps, ZenonT(60)

LEMMA OpenNet ==
    ASSUME NetInv, NEW s \in Slots, f_slots[s].parent \in Fetches, NEW shape \in Shapes,
           \/ \E i \in DOMAIN ep_pool : OpenPooled(s, i, shape)
           \/ \E e \in Endpoints : OpenConnect(s, e, shape)
    PROVE  NetInv'
<1>1. ASSUME NEW i \in DOMAIN ep_pool, OpenPooled(s, i, shape) PROVE NetInv'
  <2> DEFINE x == ep_pool[i]
             o == ot[x]
  <2>1. /\ f_slots[s].state = "INIT" /\ ep_pool' = Compact(i) /\ UNCHANGED disk
        /\ ot' = [ot EXCEPT ![x] = Answered(o, f_slots[s].parent, shape)]
        /\ f_slots' = [f_slots EXCEPT ![s] = Opened(s, x)]
    BY <1>1 DEF OpenPooled, Opening, SlotBecomes
  <2>2. /\ ep_pool' \in Seq(Endpoints) /\ Distinct(ep_pool') /\ Len(ep_pool') <= POOL_SIZE
        /\ x \in Endpoints /\ Holds(ep_pool, x)
        /\ \A e \in Endpoints : Holds(ep_pool', e) <=> Holds(ep_pool, e) /\ e # x
    BY <2>1, CompactPool
  <2> HIDE DEF x
  <2>3. o \in Endpoint /\ o.open /\ Idle(o.wire)
    BY <2>2 DEF NetInv, NetTyped, Owned, PoolClean
  <2> HIDE DEF o
  <2> QED BY <2>1, <2>2, <2>3, TakeNet
<1>2. ASSUME NEW e \in Endpoints, OpenConnect(s, e, shape) PROVE NetInv'
  <2> DEFINE o == [ClosedEp EXCEPT !.open = TRUE, !.key = Key(s)]
  <2>1. /\ f_slots[s].state = "INIT" /\ UNCHANGED <<ep_pool, disk>> /\ ~ot[e].open
        /\ ot' = [ot EXCEPT ![e] = Answered(o, f_slots[s].parent, shape)]
        /\ f_slots' = [f_slots EXCEPT ![s] = Opened(s, e)]
    BY <1>2 DEF OpenConnect, Opening, SlotBecomes
  <2>2. Key(s) \in {HostOf[f] : f \in Fetches} BY DEF Key
  <2>3. o \in Endpoint /\ o.open /\ o.wire = <<>>
    BY <2>2, ClosedIsEndpoint DEF Endpoint
  <2>4. Idle(o.wire) BY <2>3 DEF Idle, NoPost
  <2> HIDE DEF o
  <2>5. /\ ep_pool' \in Seq(Endpoints) /\ Distinct(ep_pool') /\ Len(ep_pool') <= POOL_SIZE
        /\ \A x \in Endpoints : Holds(ep_pool', x) <=> Holds(ep_pool, x) /\ x # e
    <3>1. ~Holds(ep_pool, e) BY <2>1 DEF NetInv, Owned
    <3> QED BY <2>1, <3>1 DEF NetInv, NetTyped, Owned, PoolClean
  <2> QED BY <2>1, <2>3, <2>4, <2>5, TakeNet
<1> QED BY <1>1, <1>2

-----------------------------------------------------------------------------
(* The server closes.                                                      *)

LEMMA CutNoPost ==
    ASSUME NEW w \in Seq(Unit), NEW n \in 0..Len(w), NoPost(w)
    PROVE  NoPost(SubSeq(w, 1, n)) /\ NoPost(SubSeq(w, n + 1, Len(w)))
<1> DEFINE a == SubSeq(w, 1, n)
           b == SubSeq(w, n + 1, Len(w))
           m == Len(w)
<1>1. m \in Nat /\ DOMAIN w = 1..m /\ n \in 0..m BY LenProperties
<1>2. a \in Seq(Unit) /\ Len(a) = n /\ \A i \in 1..n : a[i] = w[i]
  BY CutElements
<1>3. b \in Seq(Unit) /\ Len(b) = m - n /\ \A i \in 1..m - n : b[i] = w[n + i]
  BY CutElements
<1> HIDE DEF a, b, m
<1>4. DOMAIN a = 1..n /\ DOMAIN b = 1..m - n BY <1>2, <1>3, LenProperties
<1>5. \A i \in 1..n : i \in 1..m BY <1>1
<1>6. \A i \in 1..m - n : n + i \in 1..m BY <1>1
<1>7. NoPost(a) BY <1>1, <1>2, <1>4, <1>5 DEF NoPost
<1>8. NoPost(b) BY <1>1, <1>3, <1>4, <1>6 DEF NoPost
<1> QED BY <1>7, <1>8 DEF a, b, m

LEMMA CutEmpty ==
    ASSUME NEW n \in 0..Len(<<>>)
    PROVE  SubSeq(<<>>, 1, n) = <<>>
<1>1. n = 0 OBVIOUS
<1> QED BY <1>1

(* A slot whose wire is cut short.                                         *)
LEMMA WireCut ==
    ASSUME NEW c \in Slot, NEW w \in Seq(Unit), NEW n \in 0..Len(w), SlotNet(c, w)
    PROVE  SlotNet(c, SubSeq(w, 1, n))
<1> DEFINE v == SubSeq(w, 1, n)
<1>1. NoPost(w) => NoPost(v) BY CutNoPost
<1>2. w = <<>> => v = <<>> BY CutEmpty
<1>3. ASSUME NEW f, NEW shape \in Shapes, NEW p \in Nat, Part(w, f, shape, p) PROVE Part(v, f, shape, p)
  <2>1. shape \in Shape BY ShapeAssumption
  <2> QED BY <1>3, <2>1, PartCut
<1>4. 1 + Len(c.data) \in Nat /\ 0 \in Nat BY LenProperties DEF Slot
<1> HIDE DEF v
<1>5. HoldsOK(c, v) BY <1>1 DEF SlotNet, HoldsOK
<1>6. ASSUME ~OTErrors PROVE AnswerOK(c, v)
  <2> DEFINE p == 1 + Len(c.data)
             z == 0
  <2>1. AnswerOK(c, w) BY <1>6 DEF SlotNet
  <2>2. ASSUME c.state = "HEADERS" /\ c.shape = NoShape /\ c.cache_hit_body = NoBody
        PROVE  \E shape \in Shapes : Part(v, c.parent, shape, 0)
    BY <2>1, <2>2, <1>3, <1>4 DEF AnswerOK
  <2>3. ASSUME c.state = "BODY" PROVE Part(v, c.parent, c.shape, p)
    <3>1. c.shape \in Shapes /\ Part(w, c.parent, c.shape, p) BY <2>1, <2>3 DEF AnswerOK
    <3> QED BY <3>1, <1>3, <1>4
  <2> QED BY <2>1, <2>2, <2>3, <1>2 DEF AnswerOK
<1> QED BY <1>5, <1>6 DEF SlotNet, v

LEMMA PeerCloseNet ==
    ASSUME NetInv, NEW e \in Endpoints, NEW n, PeerClose(e, n)
    PROVE  NetInv'
<1> DEFINE o == ot[e]
           w == o.wire
           v == SubSeq(w, 1, n)
           d == [o EXCEPT !.closed = TRUE, !.wire = v]
<1>1. o \in Endpoint /\ w \in Seq(Unit) /\ n \in 0..Len(w) /\ ot \in [Endpoints -> Endpoint]
  BY DEF NetInv, NetTyped, Endpoint, PeerClose
<1>2. /\ f_slots' = f_slots /\ ep_pool' = ep_pool /\ disk' = disk
      /\ ot' = [ot EXCEPT ![e] = d]
  BY <1>1 DEF PeerClose
<1>3. v \in Seq(Unit) BY <1>1, CutElements
<1>4. Idle(w) => Idle(v)
  BY <1>1, CutNoPost, CutEmpty DEF Idle
<1> HIDE DEF v
<1>5. d \in Endpoint /\ d.open = o.open /\ d.wire = v
  BY <1>1, <1>3 DEF Endpoint
<1> HIDE DEF d
<1>6. /\ ot' \in [Endpoints -> Endpoint] /\ ot'[e] = d
      /\ \A x \in Endpoints : x # e => ot'[x] = ot[x]
      /\ \A x \in Endpoints : ot'[x].open = ot[x].open
  BY <1>1, <1>2, <1>5
<1>7. NetTyped' BY <1>2, <1>6 DEF NetInv, NetTyped
<1>8. Owned' BY <1>2, <1>6 DEF NetInv, Owned, EpOf
<1>9. \A x \in Endpoints : Holds(ep_pool, x) => Idle(ot'[x].wire)
  BY <1>4, <1>5, <1>6 DEF NetInv, PoolClean
<1>10. PoolClean'
  BY <1>2, <1>9 DEF NetInv, PoolClean, Idle, NoPost
<1>11. ASSUME NEW r \in Slots PROVE SlotNet(f_slots[r], Wire(ot', f_slots[r].ep))
  <2> DEFINE c == f_slots[r]
  <2>1. c \in Slot /\ SlotNet(c, Wire(ot, c.ep)) BY SlotTyped
  <2>2. CASE c.ep = e
    <3>1. Wire(ot, c.ep) = w /\ Wire(ot', c.ep) = SubSeq(w, 1, n)
      BY <2>2, <1>5, <1>6, NoneAssumption DEF Wire, v
    <3> QED BY <2>1, <3>1, <1>1, WireCut
  <2>3. CASE c.ep # e
    <3>1. c.ep \in Endpoints \cup {NoEp} BY <2>1 DEF Slot
    <3>2. Wire(ot', c.ep) = Wire(ot, c.ep) BY <2>3, <3>1, <1>6 DEF Wire
    <3> QED BY <2>1, <3>2
  <2> QED BY <2>2, <2>3
<1>12. WiresOK'
  <2> SUFFICES ASSUME NEW r \in Slots PROVE SlotNet(f_slots'[r], Wire(ot', f_slots'[r].ep))
    BY DEF WiresOK, EpOf, SlotNet, Wire, HoldsOK, AnswerOK
  <2> QED BY <1>2, <1>11
<1>13. DiskOK' BY <1>2 DEF NetInv, DiskOK, ServesUrl, NoPost, OfUrl
<1> QED BY <1>7, <1>8, <1>10, <1>12, <1>13 DEF NetInv

-----------------------------------------------------------------------------
(* Releasing.                                                              *)

(* A slot gives up its endpoint, to the pool or for good.                  *)
LEMMA FreeNet ==
    ASSUME NetInv, NEW s \in Slots, f_slots' = [f_slots EXCEPT ![s] = Blank],
           ot' \in [Endpoints -> Endpoint], ep_pool' \in Seq(Endpoints),
           Distinct(ep_pool'), Len(ep_pool') <= POOL_SIZE,
           \A x \in Endpoints : x # EpOf(s) => /\ ot'[x] = ot[x]
                                               /\ Holds(ep_pool', x) <=> Holds(ep_pool, x),
           EpOf(s) # NoEp => /\ ot'[EpOf(s)].open <=> Holds(ep_pool', EpOf(s))
                             /\ Holds(ep_pool', EpOf(s)) => Idle(ot'[EpOf(s)].wire),
           disk' \in [Urls -> Body \cup {NoBody}],
           \A u \in Urls : ServesUrl(disk'[u], u)
    PROVE  NetInv'
<1>1. Blank \in Slot /\ Blank.ep = NoEp /\ SlotNet(Blank, <<>>) BY BlankNet
<1>2. SlotNet(Blank, Wire(ot', Blank.ep)) BY <1>1 DEF Wire
<1>3. \A r \in Slots : EpOf(r) \in Endpoints \cup {NoEp}
  BY DEF NetInv, NetTyped, Slot, EpOf
<1>4. \A r \in Slots : r # s /\ EpOf(s) # NoEp => EpOf(r) # EpOf(s)
  BY DEF NetInv, Owned
<1>5. \A x \in Endpoints : ot'[x].open <=> \/ Holds(ep_pool', x)
                                           \/ Blank.ep = x
                                           \/ \E r \in Slots : r # s /\ EpOf(r) = x
  <2> SUFFICES ASSUME NEW x \in Endpoints
               PROVE  ot'[x].open <=> \/ Holds(ep_pool', x)
                                      \/ \E r \in Slots : r # s /\ EpOf(r) = x
    BY <1>1, NoneAssumption
  <2>1. x # NoEp BY NoneAssumption
  <2>2. CASE x = EpOf(s) BY <2>1, <2>2, <1>4
  <2>3. CASE x # EpOf(s)
    <3>1. ot[x].open <=> Holds(ep_pool, x) \/ \E r \in Slots : EpOf(r) = x
      BY DEF NetInv, Owned
    <3> QED BY <2>3, <3>1
  <2> QED BY <2>2, <2>3
<1>6. \A x \in Endpoints : Holds(ep_pool', x) => /\ Holds(ep_pool, x) \/ x = EpOf(s)
                                                 /\ x # Blank.ep
                                                 /\ Idle(ot'[x].wire)
  <2> SUFFICES ASSUME NEW x \in Endpoints, Holds(ep_pool', x)
               PROVE  (Holds(ep_pool, x) \/ x = EpOf(s)) /\ Idle(ot'[x].wire)
    BY <1>1, NoneAssumption
  <2>1. x # NoEp BY NoneAssumption
  <2>2. CASE x = EpOf(s) BY <2>1, <2>2
  <2>3. CASE x # EpOf(s) BY <2>3 DEF NetInv, PoolClean
  <2> QED BY <2>2, <2>3
<1>7. /\ Blank.ep # NoEp => \/ Blank.ep = EpOf(s)
                            \/ Holds(ep_pool, Blank.ep)
                            \/ ~ot[Blank.ep].open
      /\ \A r \in Slots : r # s /\ EpOf(r) # NoEp => ot'[EpOf(r)].wire = ot[EpOf(r)].wire
  BY <1>1, <1>3, <1>4
<1> QED BY <1>1, <1>2, <1>5, <1>6, <1>7, NetKeeps, ZenonT(60)

(* ep_pool_return drains what has arrived; mfs_close closes.               *)
LEMMA PutAwayNet ==
    ASSUME NetInv, NEW s \in Slots, f_slots[s].state \in {"DONE", "NOTIFIED"},
           f_slots' = [f_slots EXCEPT ![s] = Blank], PutAway(f_slots[s]),
           disk' \in [Urls -> Body \cup {NoBody}],
           \A u \in Urls : ServesUrl(disk'[u], u)
    PROVE  NetInv'
<1> DEFINE c == f_slots[s]
           x == c.ep
           w == ot[x].wire
<1>1. c \in Slot /\ SlotNet(c, Wire(ot, c.ep)) BY SlotTyped
<1>2. EpOf(s) = x /\ x \in Endpoints \cup {NoEp} BY <1>1 DEF EpOf, Slot
<1>3. ot \in [Endpoints -> Endpoint] /\ ep_pool \in Seq(Endpoints) /\ Distinct(ep_pool)
      /\ Len(ep_pool) <= POOL_SIZE
  BY DEF NetInv, NetTyped, Owned, PoolClean
<1>4. x # NoEp => ~Holds(ep_pool, x) /\ x \in Endpoints BY <1>2 DEF NetInv, Owned
<1>5. CASE Poolable(c) /\ Len(ep_pool) < POOL_SIZE
  <2>1. PICK n \in 0..Len(w) : ot' = [ot EXCEPT ![x].wire = SubSeq(w, n + 1, Len(w))]
    BY <1>3, <1>4, <1>5 DEF PutAway, Poolable
  <2> DEFINE v == SubSeq(w, n + 1, Len(w))
             d == [ot[x] EXCEPT !.wire = v]
  <2>2. x # NoEp /\ x \in Endpoints /\ ~Holds(ep_pool, x) /\ c.keep_alive_ok /\ ~c.aborted
    BY <1>4, <1>5 DEF Poolable
  <2>3. ot[x] \in Endpoint /\ w \in Seq(Unit) /\ ot[x].open
    BY <1>2, <1>3, <2>2 DEF NetInv, Owned, Endpoint
  <2>4. v \in Seq(Unit) BY <2>3, CutElements
  <2>5. Wire(ot, x) = w BY <2>2 DEF Wire
  <2>6. NoPost(w) BY <1>1, <2>2, <2>5 DEF SlotNet, HoldsOK
  <2>7. ~OTErrors => w = <<>> BY <1>1, <2>2, <2>5 DEF SlotNet, AnswerOK
  <2>8. Idle(v)
    <3>1. NoPost(v) BY <2>3, <2>6, CutNoPost
    <3>2. w = <<>> => v = <<>> OBVIOUS
    <3> QED BY <3>1, <3>2, <2>7 DEF Idle
  <2>9. ot' = [ot EXCEPT ![x] = d] BY <2>1
  <2> HIDE DEF v
  <2>10. d \in Endpoint /\ d.open = ot[x].open /\ d.wire = v BY <2>3, <2>4 DEF Endpoint
  <2> HIDE DEF d
  <2>11. /\ ot' \in [Endpoints -> Endpoint] /\ ot'[x] = d
         /\ \A e \in Endpoints : e # x => ot'[e] = ot[e]
    BY <1>3, <2>2, <2>9, <2>10
  <2>12. ep_pool' = Append(ep_pool, x) BY <1>5, <2>2 DEF PutAway
  <2> HIDE DEF x, c
  <2>13. /\ ep_pool' \in Seq(Endpoints) /\ Distinct(ep_pool')
         /\ \A e : Holds(ep_pool', e) <=> Holds(ep_pool, e) \/ e = x
    BY <1>3, <2>2, <2>12, AppendDistinct
  <2>14. Len(ep_pool') <= POOL_SIZE
    <3>1. Len(ep_pool') = Len(ep_pool) + 1 BY <1>3, <2>2, <2>12, AppendProperties
    <3>2. Len(ep_pool) \in Nat BY <1>3, LenProperties
    <3> QED BY <3>1, <3>2, <1>5, PoolAssumption
  <2>15. \A e \in Endpoints : e # EpOf(s) => /\ ot'[e] = ot[e]
                                             /\ Holds(ep_pool', e) <=> Holds(ep_pool, e)
    BY <1>2, <2>11, <2>13
  <2>16. /\ ot'[EpOf(s)].open <=> Holds(ep_pool', EpOf(s))
         /\ Holds(ep_pool', EpOf(s)) => Idle(ot'[EpOf(s)].wire)
    BY <1>2, <2>3, <2>8, <2>10, <2>11, <2>13
  <2>17. ep_pool' \in Seq(Endpoints) /\ Distinct(ep_pool') /\ ot' \in [Endpoints -> Endpoint]
    BY <2>11, <2>13
  <2> QED BY <2>14, <2>15, <2>16, <2>17, FreeNet
<1>6. CASE x # NoEp /\ ~(Poolable(c) /\ Len(ep_pool) < POOL_SIZE)
  <2>1. ot' = [ot EXCEPT ![x] = ClosedEp] /\ ep_pool' = ep_pool
    BY <1>6 DEF PutAway
  <2>2. /\ ot' \in [Endpoints -> Endpoint] /\ ot'[x] = ClosedEp
        /\ \A e \in Endpoints : e # x => ot'[e] = ot[e]
    BY <1>3, <1>4, <1>6, <2>1, ClosedIsEndpoint
  <2>3. \A e \in Endpoints : e # EpOf(s) => /\ ot'[e] = ot[e]
                                            /\ Holds(ep_pool', e) <=> Holds(ep_pool, e)
    BY <1>2, <2>1, <2>2
  <2>4. ~Holds(ep_pool', EpOf(s)) BY <1>2, <1>4, <1>6, <2>1
  <2>5. ~ot'[EpOf(s)].open BY <1>2, <2>2, ClosedIsEndpoint
  <2>6. /\ ep_pool' \in Seq(Endpoints) /\ Distinct(ep_pool') /\ Len(ep_pool') <= POOL_SIZE
        /\ ot' \in [Endpoints -> Endpoint]
    BY <1>3, <2>1, <2>2
  <2> QED BY <2>3, <2>4, <2>5, <2>6, FreeNet
<1>7. CASE x = NoEp
  <2>1. ot' = ot /\ ep_pool' = ep_pool BY <1>7 DEF PutAway, Poolable
  <2>2. \A e \in Endpoints : e # EpOf(s) => /\ ot'[e] = ot[e]
                                            /\ Holds(ep_pool', e) <=> Holds(ep_pool, e)
    BY <2>1
  <2>3. /\ ep_pool' \in Seq(Endpoints) /\ Distinct(ep_pool') /\ Len(ep_pool') <= POOL_SIZE
        /\ ot' \in [Endpoints -> Endpoint] /\ EpOf(s) = NoEp
    BY <1>2, <1>3, <1>7, <2>1
  <2> QED BY <2>2, <2>3, FreeNet
<1> QED BY <1>5, <1>6, <1>7 DEF PutAway

(* What a finished slot leaves on disk.                                    *)
LEMMA StoredDisk ==
    ASSUME NetInv, NEW s \in Slots, f_slots[s].parent \in Fetches, disk' = Stored(f_slots[s])
    PROVE  /\ disk' \in [Urls -> Body \cup {NoBody}]
           /\ \A u \in Urls : ServesUrl(disk'[u], u)
<1> DEFINE c == f_slots[s]
           u == UrlOf[c.parent]
           b == [data |-> c.data]
<1>1. c \in Slot /\ SlotNet(c, Wire(ot, c.ep)) BY SlotTyped
<1>2. disk \in [Urls -> Body \cup {NoBody}] /\ \A v \in Urls : ServesUrl(disk[v], v)
  BY DEF NetInv, NetTyped, DiskOK
<1>3. u \in Urls BY DEF Urls
<1>4. b \in Body /\ b.data = c.data BY <1>1 DEF Body, Slot
<1>5. CASE disk' = disk BY <1>2, <1>5
<1>6. CASE c.cache_eligible /\ disk' = [disk EXCEPT ![u] = b]
  <2>1. NoPost(c.data) /\ (~OTErrors => OfUrl(c.data, u))
    BY <1>1, <1>6 DEF SlotNet, HoldsOK, AnswerOK
  <2>2. ServesUrl(b, u) BY <1>4, <2>1 DEF ServesUrl
  <2> HIDE DEF b, u
  <2> QED BY <1>2, <1>3, <1>4, <1>6, <2>2
<1> QED BY <1>5, <1>6 DEF Stored

LEMMA ReleaseNet ==
    ASSUME NetInv, NEW s \in Slots, f_slots[s].parent \in Fetches,
           callback = s => f_slots[s].state = "NOTIFIED",
           PollDone(s) \/ PollRelease(s)
    PROVE  NetInv'
<1>1. CASE PollDone(s)
  <2>1. /\ f_slots[s].state = "DONE" /\ f_slots' = [f_slots EXCEPT ![s] = Blank]
        /\ PutAway(f_slots[s]) /\ disk' = Stored(f_slots[s])
    BY <1>1 DEF PollDone, FreeSlot
  <2>2. /\ disk' \in [Urls -> Body \cup {NoBody}]
        /\ \A u \in Urls : ServesUrl(disk'[u], u)
    BY <2>1, StoredDisk
  <2> QED BY <2>1, <2>2, PutAwayNet
<1>2. CASE PollRelease(s)
  <2>1. /\ f_slots[s].state = "NOTIFIED" /\ f_slots' = [f_slots EXCEPT ![s] = Blank]
        /\ PutAway(f_slots[s]) /\ disk' = disk
    BY <1>2 DEF PollRelease, FreeSlot
  <2>2. /\ disk' \in [Urls -> Body \cup {NoBody}]
        /\ \A u \in Urls : ServesUrl(disk'[u], u)
    BY <2>1 DEF NetInv, NetTyped, DiskOK
  <2> QED BY <2>1, <2>2, PutAwayNet
<1> QED BY <1>1, <1>2

-----------------------------------------------------------------------------
(* What is delivered of the units that were read.                          *)

LEMMA FirstExists ==
    ASSUME NEW units \in Seq(Unit), NEW part, Has(part, units),
           NEW j, j = CHOOSE k \in DOMAIN units : FirstOf(part, units, k)
    PROVE  j \in DOMAIN units /\ FirstOf(part, units, j)
<1> DEFINE T == {k \in DOMAIN units : units[k].part = part}
<1>1. DOMAIN units = 1..Len(units) /\ Len(units) \in Nat BY LenProperties
<1>2. T \in SUBSET Nat BY <1>1
<1>3. PICK k \in DOMAIN units : units[k].part = part BY DEF Has
<1>4. k \in T BY <1>3
<1>5. T # {} BY <1>4
<1>6. Min(T) \in T /\ \A y \in T : Min(T) <= y BY <1>2, <1>5, LeastOf
<1> DEFINE m == Min(T)
<1>7. m \in 1..Len(units) /\ m \in DOMAIN units /\ units[m].part = part BY <1>1, <1>6
<1>8. ASSUME NEW i \in 1..(m - 1) PROVE units[i].part # part
  <2>1. i \in 1..Len(units) /\ ~(m <= i) BY <1>1, <1>7
  <2>2. i \notin T BY <2>1, <1>6
  <2> QED BY <2>1, <2>2, <1>1
<1>9. FirstOf(part, units, m) BY <1>7, <1>8 DEF FirstOf
<1>10. \E y \in DOMAIN units : FirstOf(part, units, y) BY <1>7, <1>9
<1> HIDE DEF T
<1> QED BY <1>10

LEMMA DeliverTyped ==
    ASSUME NEW shape \in Shape, NEW have \in Nat, NEW units \in Seq(Unit)
    PROVE  /\ ToDeliver(shape, have, units) \in Seq(Unit)
           /\ NoPost(units) => NoPost(ToDeliver(shape, have, units))
<1> DEFINE n == Len(units)
           len == shape.len
<1>1. n \in Nat /\ len \in Nat /\ DOMAIN units = 1..n BY LenProperties DEF Shape
<1>2. ASSUME NEW k \in Int, k <= n
      PROVE  SubSeq(units, 1, k) \in Seq(Unit) /\ (NoPost(units) => NoPost(SubSeq(units, 1, k)))
  <2>1. CASE k >= 0
    <3>1. k \in 0..Len(units) BY <2>1, <1>2
    <3>2. SubSeq(units, 1, k) \in Seq(Unit) BY <3>1, CutElements
    <3>3. NoPost(units) => NoPost(SubSeq(units, 1, k)) BY <3>1, CutNoPost
    <3> QED BY <3>2, <3>3
  <2>2. CASE k < 0
    <3>1. SubSeq(units, 1, k) = <<>> BY <2>2
    <3>2. <<>> \in Seq(Unit) /\ NoPost(<<>>) BY DEF NoPost
    <3> QED BY <3>1, <3>2
  <2> QED BY <2>1, <2>2, <1>2
<1>3. CASE shape.framing = "length"
  <2> DEFINE k == IF have + n > len THEN len - have ELSE n
  <2>1. k \in Int /\ k <= n BY <1>1
  <2>2. ToDeliver(shape, have, units) = SubSeq(units, 1, k) BY <1>3 DEF ToDeliver
  <2> HIDE DEF k
  <2> QED BY <1>2, <2>1, <2>2
<1>4. CASE shape.framing = "chunked" /\ Has("end", units)
  <2> DEFINE j == CHOOSE i \in DOMAIN units : FirstOf("end", units, i)
  <2>1. j \in DOMAIN units BY <1>4, FirstExists
  <2>2. ToDeliver(shape, have, units) = SubSeq(units, 1, j - 1) BY <1>4 DEF ToDeliver
  <2> HIDE DEF j
  <2>3. j - 1 \in Int /\ j - 1 <= n BY <2>1, <1>1
  <2> QED BY <1>2, <2>2, <2>3
<1>5. CASE shape.framing # "length" /\ ~(shape.framing = "chunked" /\ Has("end", units))
  BY <1>5 DEF ToDeliver
<1> QED BY <1>3, <1>4, <1>5

(* have was delivered, units were read and w is left of the answer to f.   *)
Follow(f, shape, have, units, w) ==
    /\ shape \in Shape /\ have \in Seq(Unit) /\ units \in Seq(Unit) /\ w \in Seq(Unit)
    /\ Len(have) <= shape.len
    /\ Part(have, f, shape, 1)
    /\ Part(units, f, shape, 1 + Len(have))
    /\ Part(w, f, shape, 1 + Len(have) + Len(units))

(* b is what of the body is delivered once units are, and nothing beyond   *)
(* it: where the framing says that the body is complete, it is, and the    *)
(* wire is empty.                                                          *)
Extends(f, shape, units, w, b) ==
    /\ b \in Seq(Unit) /\ Len(b) <= shape.len /\ Part(b, f, shape, 1)
    /\ BodyComplete(shape, Len(b), units) => w = <<>> /\ Len(b) = shape.len /\ AllData(b)
    /\ units = <<>> \/ ~BodyComplete(shape, Len(b), units) => Part(w, f, shape, 1 + Len(b))

LEMMA Delivered ==
    ASSUME NEW f, NEW shape, NEW have, NEW units, NEW w, Follow(f, shape, have, units, w)
    PROVE  Extends(f, shape, units, w, have \o ToDeliver(shape, Len(have), units))
<1> DEFINE T == ToDeliver(shape, Len(have), units)
           b == have \o T
<1> HIDE DEF b
<1> SUFFICES Extends(f, shape, units, w, b)
  BY DEF b
<1> USE DEF Follow
<1> DEFINE m == Len(have)
           n == Len(units)
           len == shape.len
           lw == Len(w)
           k == IF shape.framing = "chunked" THEN 1 ELSE 0
           end == shape.framing = "chunked" /\ Has("end", units)
<1>1. /\ m \in Nat /\ n \in Nat /\ lw \in Nat /\ len \in Nat /\ m <= len
      /\ DOMAIN units = 1..n /\ DOMAIN have = 1..m /\ DOMAIN w = 1..Len(w)
  BY LenProperties DEF Shape
<1>2. Units(shape) = len + 1 + k /\ k \in {0, 1} BY DEF Units
<1>3. 1 + m + n + lw <= len + 1 + k BY <1>2 DEF Part
<1>4. \A j \in 1..n : units[j] = UnitAt(f, shape, 1 + m + j) BY <1>1 DEF Part
<1>0. /\ Part(units, f, shape, 1 + m) /\ Part(w, f, shape, 1 + m + n)
  OBVIOUS
<1> HIDE DEF m, n, len, lw, k
<1>5. \A j \in 1..n : units[j].part = "end" <=> m + j > len
  <2> SUFFICES ASSUME NEW j \in 1..n PROVE units[j].part = "end" <=> m + j > len
    OBVIOUS
  <2>1. 1 + m + j \in Nat /\ 1 + m + j > 1 /\ (1 + m + j > len + 1 <=> m + j > len)
    BY <1>1
  <2>2. 1 + m + j > len + 1 \/ 1 + m + j <= len + 1 BY <1>1
  <2> QED BY <1>4, <2>1, <2>2, UnitParts DEF len
<1>6. ASSUME NEW x \in Seq(Unit), NEW p \in Nat, Len(x) = p, Part(x, f, shape, 1 + m), T = x
      PROVE  b \in Seq(Unit) /\ Len(b) = m + p /\ Part(b, f, shape, 1)
  <2>1. 1 \in Nat /\ Part(x, f, shape, 1 + Len(have)) BY <1>6 DEF m
  <2>2. /\ have \o x \in Seq(Unit) /\ Len(have \o x) = Len(have) + Len(x)
        /\ Part(have \o x, f, shape, 1)
    BY <1>6, <2>1, PartJoin
  <2> QED BY <1>6, <2>2 DEF m, b
<1>7. ASSUME b \in Seq(Unit), Len(b) <= len, Part(b, f, shape, 1)
      PROVE  AllData(b)
  <2>1. Len(b) \in Nat /\ DOMAIN b = 1..Len(b) BY <1>7, LenProperties
  <2> SUFFICES ASSUME NEW i \in 1..Len(b) PROVE b[i].part = "data"
    BY <2>1 DEF AllData
  <2>2. b[i] = UnitAt(f, shape, 1 + i) BY <1>7, <2>1 DEF Part
  <2>3. 1 + i \in Nat /\ 1 + i > 1 /\ 1 + i <= len + 1 BY <1>1, <1>7, <2>1
  <2> QED BY <2>2, <2>3, UnitParts DEF len
<1>8. lw = 0 => w = <<>> BY EmptySeq DEF lw
<1>9. CASE end
  <2>1. PICK j \in 1..n : units[j].part = "end" BY <1>1, <1>9 DEF Has
  <2>2. m + j = len + 1 /\ j = n /\ lw = 0 BY <2>1, <1>1, <1>2, <1>3, <1>5
  <2>3. \A i \in 1..n : units[i].part = "end" => i = j
    BY <2>2, <1>1, <1>2, <1>3, <1>5
  <2> DEFINE h == CHOOSE i \in DOMAIN units : FirstOf("end", units, i)
  <2>4. h \in DOMAIN units /\ FirstOf("end", units, h) BY <1>9, FirstExists
  <2> HIDE DEF h
  <2>5. h = j BY <2>3, <2>4, <1>1 DEF FirstOf
  <2> DEFINE x == SubSeq(units, 1, j - 1)
  <2>6. T = x BY <1>9, <2>5 DEF ToDeliver, h
  <2>7. j - 1 \in 0..Len(units) /\ 1 + m \in Nat BY <1>1 DEF n
  <2>8. x \in Seq(Unit) /\ Len(x) = j - 1 /\ Part(x, f, shape, 1 + m)
    BY <2>7, <1>0, PartCut
  <2> HIDE DEF x, T
  <2>9. j - 1 \in Nat BY <1>1
  <2>10. b \in Seq(Unit) /\ Len(b) = m + (j - 1) /\ Part(b, f, shape, 1)
    BY <2>6, <2>8, <2>9, <1>6
  <2>11. Len(b) = len BY <2>2, <2>10, <1>1
  <2>12. Len(b) <= len BY <2>11, <1>1
  <2>13. BodyComplete(shape, Len(b), units) /\ units # <<>>
    BY <1>1, <1>9, <2>1 DEF BodyComplete
  <2>14. AllData(b) BY <1>7, <2>10, <2>12
  <2> QED BY <1>8, <2>2, <2>10, <2>11, <2>12, <2>13, <2>14 DEF len, Extends
<1>10. CASE ~end
  <2>0. shape.framing # "chunked" => k = 0 BY DEF k
  <2>1. shape.framing # "chunked" => m + n <= len BY <1>1, <1>3, <2>0
  <2>2. T = units
    <3>1. CASE shape.framing = "length"
      <4>1. ~(Len(have) + Len(units) > shape.len) BY <1>1, <2>1, <3>1 DEF m, n, len
      <4>2. T = SubSeq(units, 1, Len(units)) BY <3>1, <4>1 DEF ToDeliver
      <4> QED BY <4>2
    <3>2. CASE shape.framing # "length"
      BY <1>10, <3>2 DEF ToDeliver
    <3> QED BY <3>1, <3>2
  <2> HIDE DEF T
  <2>3. b \in Seq(Unit) /\ Len(b) = m + n /\ Part(b, f, shape, 1)
    <3>1. n \in Nat /\ Len(units) = n BY <1>1 DEF n
    <3> QED BY <3>1, <2>2, <1>0, <1>6
  <2>4. Part(w, f, shape, 1 + Len(b))
    <3>1. 1 + Len(b) = 1 + m + n BY <2>3, <1>1
    <3> QED BY <3>1, <1>0
  <2>5. Len(b) <= len
    <3>1. CASE n = 0 BY <3>1, <2>3, <1>1
    <3>2. CASE n # 0 /\ shape.framing = "chunked"
      <4>1. n \in 1..n BY <3>2, <1>1
      <4>2. units[n].part # "end" BY <4>1, <3>2, <1>1, <1>10 DEF Has
      <4> QED BY <4>1, <4>2, <2>3, <1>1, <1>5
    <3>3. CASE shape.framing # "chunked" BY <3>3, <2>1, <2>3
    <3> QED BY <3>1, <3>2, <3>3
  <2>6. ASSUME BodyComplete(shape, Len(b), units)
        PROVE  w = <<>> /\ Len(b) = len
    <3>1. shape.framing = "length" /\ Len(b) >= len BY <2>6, <1>10 DEF BodyComplete, len
    <3>2. Len(b) = len /\ lw = 0 BY <3>1, <2>3, <2>5, <1>1, <1>3, <2>0
    <3> QED BY <3>2, <1>8
  <2>7. AllData(b) BY <1>7, <2>3, <2>5
  <2> QED BY <2>3, <2>4, <2>5, <2>6, <2>7 DEF len, Extends
<1> QED BY <1>9, <1>10

-----------------------------------------------------------------------------
(* Receiving.                                                              *)

LEMMA JoinNoPost ==
    ASSUME NEW a \in Seq(Unit), NEW b \in Seq(Unit), NoPost(a), NoPost(b)
    PROVE  NoPost(a \o b)
<1> DEFINE w == a \o b
           m == Len(a)
           n == Len(b)
<1>1. m \in Nat /\ n \in Nat /\ DOMAIN a = 1..m /\ DOMAIN b = 1..n BY LenProperties
<1>2. /\ w \in Seq(Unit) /\ Len(w) = m + n
      /\ \A i \in 1..m : w[i] = a[i]
      /\ \A i \in 1..n : w[m + i] = b[i]
  BY JoinElements
<1> HIDE DEF w, m, n
<1>3. DOMAIN w = 1..m + n BY <1>2, LenProperties
<1>4. ASSUME NEW i \in 1..m + n PROVE w[i].req \notin Posts
  <2>1. CASE i <= m
    <3>1. i \in 1..m BY <2>1, <1>1
    <3> QED BY <3>1, <1>1, <1>2 DEF NoPost
  <2>2. CASE i > m
    <3>1. i - m \in 1..n /\ m + (i - m) = i BY <2>2, <1>1
    <3> QED BY <3>1, <1>1, <1>2 DEF NoPost
  <2> QED BY <2>1, <2>2, <1>1
<1> QED BY <1>3, <1>4 DEF NoPost, w

(* What the slot record c, the units it has read and the rest w of its     *)
(* wire must be for the units to be fed to it.                             *)
CanFeed(c, units, w) ==
    /\ c \in Slot /\ units \in Seq(Unit) /\ w \in Seq(Unit)
    /\ c.shape \in Shape /\ c.ep # NoEp /\ c.cache_hit_body = NoBody
    /\ c.parent \in Posts => ~c.cache_eligible /\ ~c.keep_alive_ok
    /\ c.parent \notin Posts => NoPost(c.data) /\ NoPost(units) /\ NoPost(w)
    /\ ~OTErrors => /\ c.answers \in {NoFetch, c.parent} /\ c.shape \in Shapes
                    /\ Follow(c.parent, c.shape, c.data, units, w)

LEMMA FedNet ==
    ASSUME NEW c, NEW units, NEW w, CanFeed(c, units, w)
    PROVE  /\ Fed(c, units) \in Slot
           /\ Fed(c, units).ep = c.ep
           /\ Fed(c, units).aborted = c.aborted
           /\ SlotNet(Fed(c, units), w)
<1> USE DEF CanFeed
<1> DEFINE T == ToDeliver(c.shape, Len(c.data), units)
           b == c.data \o T
           full == units # <<>> /\ BodyComplete(c.shape, Len(b), units)
           st == IF full THEN "DONE" ELSE "BODY"
           d == [c EXCEPT !.state = st, !.data = b]
<1>1. Fed(c, units) = d BY DEF Fed
<1>2. c.data \in Seq(Unit) /\ Len(c.data) \in Nat BY LenProperties DEF Slot
<1>3. T \in Seq(Unit) /\ (NoPost(units) => NoPost(T)) BY <1>2, DeliverTyped
<1>4. ~OTErrors => Extends(c.parent, c.shape, units, w, b) BY Delivered
<1> HIDE DEF T
<1>5. b \in Seq(Unit) BY <1>2, <1>3, JoinElements
<1>6. c.parent \notin Posts => NoPost(b) BY <1>2, <1>3, JoinNoPost
<1>7. st = IF full THEN "DONE" ELSE "BODY" OBVIOUS
<1>8. st \in {"DONE", "BODY"} OBVIOUS
<1> HIDE DEF b, st
<1>9. /\ d \in Slot /\ d.state = st /\ d.data = b /\ d.ep = c.ep /\ d.aborted = c.aborted
      /\ d.keep_alive_ok = c.keep_alive_ok /\ d.cache_hit_body = c.cache_hit_body
      /\ d.parent = c.parent /\ d.shape = c.shape
      /\ d.answers = c.answers /\ d.cache_eligible = c.cache_eligible
  BY <1>5, <1>8 DEF Slot
<1> HIDE DEF d
<1>10. HoldsOK(d, w)
  BY <1>6, <1>8, <1>9 DEF HoldsOK
<1>11. ASSUME ~OTErrors PROVE AnswerOK(d, w)
  <2>1. /\ c.answers \in {NoFetch, c.parent} /\ c.shape \in Shapes
        /\ Extends(c.parent, c.shape, units, w, b)
    BY <1>4, <1>11
  <2>2. \A i \in DOMAIN b : b[i].req = c.parent
    <3>1. Part(b, c.parent, c.shape, 1) /\ 1 \in Nat BY <2>1 DEF Extends
    <3> QED BY <3>1, <1>5, PartReq
  <2>3. OfUrl(d.data, UrlOf[d.parent]) BY <2>2, <1>9 DEF OfUrl
  <2>4. ASSUME d.state = "BODY"
        PROVE  /\ d.shape \in Shapes
               /\ Len(d.data) <= d.shape.len
               /\ Part(d.data, d.parent, d.shape, 1)
               /\ Part(w, d.parent, d.shape, 1 + Len(d.data))
    <3>1. units = <<>> \/ ~BodyComplete(c.shape, Len(b), units) BY <2>4, <1>7, <1>9
    <3> QED BY <3>1, <2>1, <1>9 DEF Extends
  <2>5. ASSUME d.state = "DONE"
        PROVE  Len(d.data) = d.shape.len /\ AllData(d.data) /\ w = <<>>
    <3>1. BodyComplete(c.shape, Len(b), units) BY <2>5, <1>7, <1>9
    <3> QED BY <3>1, <2>1, <1>9 DEF Extends
  <2> HIDE DEF full
  <2> QED BY <2>1, <2>2, <2>3, <2>4, <2>5, <1>8, <1>9 DEF AnswerOK
<1>12. SlotNet(d, w) BY <1>10, <1>11 DEF SlotNet
<1> QED BY <1>1, <1>9, <1>12

(* OTRcv takes units off the slot's wire.                                  *)
LEMMA ReadNet ==
    ASSUME NetInv, NEW s \in Slots, NEW new \in Slot, f_slots' = [f_slots EXCEPT ![s] = new],
           new.ep = f_slots[s].ep, new.ep \in Endpoints, NEW v \in Seq(Unit),
           ot' = [ot EXCEPT ![new.ep].wire = v], UNCHANGED <<ep_pool, disk>>,
           SlotNet(new, v)
    PROVE  NetInv'
<1> DEFINE x == new.ep
           d == [ot[x] EXCEPT !.wire = v]
<1>1. ot \in [Endpoints -> Endpoint] /\ ot[x] \in Endpoint BY DEF NetInv, NetTyped
<1>2. ot' = [ot EXCEPT ![x] = d] OBVIOUS
<1>3. d \in Endpoint /\ d.wire = v /\ d.open = ot[x].open BY <1>1 DEF Endpoint
<1> HIDE DEF d
<1>4. /\ ot' \in [Endpoints -> Endpoint] /\ ot'[x] = d
      /\ \A e \in Endpoints : ot'[e].open <=> ot[e].open
      /\ \A e \in Endpoints : e # new.ep => ot'[e].wire = ot[e].wire
  BY <1>1, <1>2, <1>3
<1>5. SlotNet(new, Wire(ot', new.ep))
  BY <1>3, <1>4, NoneAssumption DEF Wire
<1>6. /\ ot' \in [Endpoints -> Endpoint]
      /\ \A e \in Endpoints : ot'[e].open <=> ot[e].open
      /\ \A e \in Endpoints : e # new.ep => ot'[e].wire = ot[e].wire
  BY <1>4
<1> QED BY <1>5, <1>6, NetSame

(* A slot from which OTRcv may read, with its progress_ticks stamped.      *)
LEMMA ReadingSlot ==
    ASSUME NetInv, NEW s \in Slots, f_slots[s].parent \in Fetches, OnWire(s),
           NEW c, c = [f_slots[s] EXCEPT !.stale = FALSE]
    PROVE  /\ c \in Slot /\ c.ep = f_slots[s].ep /\ c.parent \in Fetches /\ c.ep \in Endpoints
           /\ c.cache_hit_body = NoBody /\ ~c.aborted /\ c.ep # NoEp
           /\ c.state \in {"HEADERS", "BODY"} /\ c.state = f_slots[s].state
           /\ c.state = "HEADERS" => c.shape = NoShape
           /\ ot[c.ep].wire \in Seq(Unit)
           /\ SlotNet(c, ot[c.ep].wire)
<1> DEFINE o == f_slots[s]
<1>1. o \in Slot /\ SlotNet(o, Wire(ot, o.ep)) BY SlotTyped
<1>2. /\ c \in Slot /\ c.ep = o.ep /\ c.parent = o.parent /\ c.cache_hit_body = o.cache_hit_body
      /\ c.aborted = o.aborted /\ c.state = o.state /\ c.shape = o.shape /\ c.data = o.data
      /\ c.answers = o.answers /\ c.cache_eligible = o.cache_eligible
      /\ c.keep_alive_ok = o.keep_alive_ok
  BY <1>1 DEF Slot
<1>3. o.cache_hit_body = NoBody /\ ~o.aborted /\ o.state \in {"HEADERS", "BODY"}
      /\ (o.state = "HEADERS" => o.shape = NoShape)
  BY DEF OnWire, Receiving, Running, Waiting, Redirecting
<1>4. o.ep # NoEp /\ o.ep \in Endpoints BY <1>1, <1>3 DEF SlotNet, HoldsOK, Slot
<1>5. Wire(ot, o.ep) = ot[c.ep].wire BY <1>2, <1>4 DEF Wire
<1>6. Settles(o, c) BY <1>1, <1>2 DEF Settles
<1>7. SlotNet(c, ot[c.ep].wire) BY <1>1, <1>5, <1>6, SettlesNet
<1>8. ot[c.ep].wire \in Seq(Unit) BY <1>2, <1>4 DEF NetInv, NetTyped, Endpoint
<1> QED BY <1>2, <1>3, <1>4, <1>7, <1>8

LEMMA BodyNet ==
    ASSUME NetInv, NEW s \in Slots, f_slots[s].parent \in Fetches, NEW failed \in BOOLEAN,
           PollBody(s, failed)
    PROVE  NetInv'
<1> DEFINE c == [f_slots[s] EXCEPT !.stale = FALSE]
           w == ot[c.ep].wire
<1>1. OnWire(s) /\ c.state = "BODY" /\ UNCHANGED <<ep_pool, disk>>
  BY DEF PollBody, SlotBecomes
<1>2. PICK n \in 1..Len(w) :
          /\ ot' = [ot EXCEPT ![c.ep].wire = SubSeq(w, n + 1, Len(w))]
          /\ f_slots' = [f_slots EXCEPT ![s] = [Fed(c, SubSeq(w, 1, n)) EXCEPT !.aborted = failed]]
  BY DEF PollBody, SlotBecomes
<1>3. /\ c \in Slot /\ c.ep = f_slots[s].ep /\ c.parent \in Fetches /\ c.ep \in Endpoints
      /\ c.cache_hit_body = NoBody /\ ~c.aborted /\ c.ep # NoEp
      /\ w \in Seq(Unit)
      /\ SlotNet(c, w)
  BY <1>1, ReadingSlot
<1> HIDE DEF c
<1> DEFINE u == SubSeq(w, 1, n)
           v == SubSeq(w, n + 1, Len(w))
           fed == Fed(c, u)
           new == [fed EXCEPT !.aborted = failed]
<1>4. n \in 0..Len(w) /\ n \in Nat BY <1>3, LenProperties
<1>5. u \in Seq(Unit) /\ v \in Seq(Unit) /\ Len(u) = n BY <1>3, <1>4, CutElements
<1>6. HoldsOK(c, w) /\ (~OTErrors => AnswerOK(c, w)) BY <1>3 DEF SlotNet
<1>7. c.parent \notin Posts => NoPost(c.data) /\ NoPost(u) /\ NoPost(v)
  <2>1. c.parent \notin Posts => NoPost(c.data) /\ NoPost(w) BY <1>6 DEF HoldsOK
  <2>2. NoPost(w) => NoPost(u) /\ NoPost(v) BY <1>3, <1>4, CutNoPost
  <2> QED BY <2>1, <2>2
<1>8. ASSUME ~OTErrors
      PROVE  /\ c.answers \in {NoFetch, c.parent} /\ c.shape \in Shapes
             /\ Follow(c.parent, c.shape, c.data, u, v)
  <2> DEFINE p == 1 + Len(c.data)
  <2>1. /\ c.answers \in {NoFetch, c.parent} /\ c.shape \in Shapes /\ Len(c.data) <= c.shape.len
        /\ Part(c.data, c.parent, c.shape, 1) /\ Part(w, c.parent, c.shape, p)
    BY <1>1, <1>6, <1>8 DEF AnswerOK
  <2>2. c.shape \in Shape BY <2>1, ShapeAssumption
  <2>3. c.data \in Seq(Unit) /\ p \in Nat BY <1>3, LenProperties DEF Slot
  <2> HIDE DEF p
  <2>4. Part(u, c.parent, c.shape, p) /\ Part(v, c.parent, c.shape, p + n)
    BY <1>3, <1>4, <2>1, <2>2, <2>3, PartCut
  <2> QED BY <1>5, <2>1, <2>2, <2>3, <2>4 DEF Follow, p
<1> HIDE DEF u, v, w
<1>9. CanFeed(c, u, v)
  BY <1>1, <1>3, <1>5, <1>6, <1>7, <1>8 DEF CanFeed, HoldsOK
<1>10. fed \in Slot /\ fed.ep = c.ep /\ fed.aborted = c.aborted /\ SlotNet(fed, v)
  BY <1>9, FedNet
<1> HIDE DEF fed
<1>11. /\ new \in Slot /\ new.ep = fed.ep /\ new.cache_hit_body = fed.cache_hit_body
       /\ new.parent = fed.parent /\ new.data = fed.data /\ new.shape = fed.shape
       /\ new.answers = fed.answers /\ new.cache_eligible = fed.cache_eligible
       /\ new.state = fed.state /\ new.keep_alive_ok = fed.keep_alive_ok
  BY <1>10 DEF Slot
<1>12. f_slots' = [f_slots EXCEPT ![s] = new] /\ ot' = [ot EXCEPT ![c.ep].wire = v]
  BY <1>2 DEF fed, u, v, w
<1> HIDE DEF new
<1>13. Settles(fed, new) BY <1>3, <1>10, <1>11 DEF Settles
<1>14. SlotNet(new, v) BY <1>10, <1>13, SettlesNet
<1>15. new.ep = f_slots[s].ep /\ new.ep \in Endpoints /\ ot' = [ot EXCEPT ![new.ep].wire = v]
  BY <1>3, <1>10, <1>11, <1>12
<1> QED BY <1>1, <1>5, <1>11, <1>12, <1>14, <1>15, ReadNet

(* mfs_parse_headers, with the client's callback.                          *)
ParsedAs(c, head, eligible, failed) == [Parsed(c, head, eligible) EXCEPT !.aborted = failed]

ParsedOK(c, head, p) ==
    /\ p \in Slot /\ p.state = c.state /\ p.parent = c.parent /\ p.ep = c.ep
    /\ p.data = c.data /\ p.cache_hit_body = c.cache_hit_body
    /\ p.answers = head.req /\ p.shape = head.shape
    /\ p.keep_alive_ok => c.keep_alive_ok
    /\ p.cache_eligible => c.parent \notin Posts

LEMMA ParsedNet ==
    ASSUME NEW c \in Slot, NEW head \in Unit, NEW eligible \in BOOLEAN, NEW failed \in BOOLEAN
    PROVE  ParsedOK(c, head, ParsedAs(c, head, eligible, failed))
<1> DEFINE p == ParsedAs(c, head, eligible, failed)
           ka == c.keep_alive_ok /\ ~head.shape.close /\ head.shape.framing # "plain"
           el == eligible /\ c.parent \notin Posts
           q == head.req
           h == head.shape
           d == [c EXCEPT !.answers = q, !.shape = h, !.keep_alive_ok = ka, !.cache_eligible = el]
<1>1. p = [d EXCEPT !.aborted = failed] BY DEF Parsed, ParsedAs
<1> HIDE DEF p
<1>2. q \in Fetches /\ h \in Shape BY DEF Unit
<1>3. ka \in BOOLEAN /\ el \in BOOLEAN /\ (ka => c.keep_alive_ok) /\ (el => c.parent \notin Posts)
  BY DEF Slot
<1>0. ka \in BOOLEAN /\ el \in BOOLEAN BY <1>3
<1> HIDE DEF ka, el, q, h
<1>4. /\ d \in Slot /\ d.state = c.state /\ d.parent = c.parent /\ d.ep = c.ep
      /\ d.data = c.data /\ d.cache_hit_body = c.cache_hit_body
      /\ d.answers = q /\ d.shape = h
      /\ d.keep_alive_ok = ka /\ d.cache_eligible = el
  BY <1>0, <1>2, ZenonT(60) DEF Slot
<1> HIDE DEF d
<1>5. /\ p \in Slot /\ p.state = d.state /\ p.parent = d.parent /\ p.ep = d.ep
      /\ p.data = d.data /\ p.cache_hit_body = d.cache_hit_body
      /\ p.answers = d.answers /\ p.shape = d.shape
      /\ p.keep_alive_ok = d.keep_alive_ok /\ p.cache_eligible = d.cache_eligible
  BY <1>1, <1>4 DEF Slot
<1> QED BY <1>3, <1>4, <1>5 DEF ParsedOK, p, q, h

(* An answer begins with its header and has no other.                      *)
LEMMA HeaderFirst ==
    ASSUME NEW w \in Seq(Unit), NEW n \in 1..Len(w), NEW f, NEW shape \in Shape, Part(w, f, shape, 0)
    PROVE  /\ Has("head", SubSeq(w, 1, n))
           /\ \A j \in DOMAIN SubSeq(w, 1, n) : SubSeq(w, 1, n)[j].part = "head" =>
                 j = 1 /\ SubSeq(w, 1, n)[j].req = f /\ SubSeq(w, 1, n)[j].shape = shape
<1> DEFINE u == SubSeq(w, 1, n)
<1>1. n \in 0..Len(w) /\ n \in Nat /\ 1 \in 1..n BY LenProperties
<1>2. u \in Seq(Unit) /\ Len(u) = n BY <1>1, CutElements
<1>3. Part(u, f, shape, 0)
  <2>1. 0 \in Nat OBVIOUS
  <2> QED BY <1>1, <2>1, PartCut
<1> HIDE DEF u
<1>4. DOMAIN u = 1..n BY <1>2, LenProperties
<1>5. ASSUME NEW j \in 1..n
      PROVE  /\ u[j].part = "head" <=> j = 1
             /\ u[j].req = f /\ u[j].shape = shape
  <2>1. j \in Nat /\ j > 0 /\ 0 + j = j BY <1>1
  <2>2. u[j] = UnitAt(f, shape, j) BY <1>3, <1>4, <2>1 DEF Part
  <2> QED BY <2>1, <2>2, UnitParts
<1>6. Has("head", u) BY <1>1, <1>4, <1>5 DEF Has
<1> QED BY <1>4, <1>5, <1>6 DEF u

(* The wire once the header and what came with it were read.               *)
LEMMA HeaderCut ==
    ASSUME NEW w \in Seq(Unit), NEW n \in 1..Len(w), NEW f, NEW shape \in Shape, Part(w, f, shape, 0),
           NEW u, u = SubSeq(w, 1, n)
    PROVE  Follow(f, shape, <<>>, SubSeq(u, 1 + 1, n), SubSeq(w, n + 1, Len(w)))
<1> DEFINE a == SubSeq(u, 1 + 1, n)
           v == SubSeq(w, n + 1, Len(w))
<1>1. n \in 0..Len(w) /\ n \in Nat /\ 0 \in Nat /\ 0 + 1 = 1 /\ 0 + n = n BY LenProperties
<1>2. /\ u \in Seq(Unit) /\ Len(u) = n /\ v \in Seq(Unit)
      /\ Part(u, f, shape, 0) /\ Part(v, f, shape, 0 + n)
  BY <1>1, PartCut
<1>3. 1 \in 0..Len(u) BY <1>1, <1>2
<1>4. a \in Seq(Unit) /\ Len(a) = Len(u) - 1 /\ Part(a, f, shape, 0 + 1)
  <2>1. a = SubSeq(u, 1 + 1, Len(u)) BY <1>2
  <2>2. a \in Seq(Unit) /\ Len(a) = Len(u) - 1 BY <2>1, <1>2, <1>3, CutElements
  <2>3. Part(SubSeq(u, 1 + 1, Len(u)), f, shape, 0 + 1) BY <1>1, <1>2, <1>3, PartCut
  <2> QED BY <2>1, <2>2, <2>3
<1> HIDE DEF a, v
<1>5. Len(a) = n - 1 /\ 1 + 0 = 1 /\ 1 + 0 + Len(a) = n BY <1>1, <1>2, <1>4
<1>6. <<>> \in Seq(Unit) /\ Len(<<>>) = 0 /\ 0 <= shape.len /\ Part(<<>>, f, shape, 1)
  <2>1. shape.len \in Nat /\ Units(shape) \in Nat /\ Units(shape) >= 1 BY DEF Shape, Units
  <2> QED BY <2>1 DEF Part
<1>7. Part(a, f, shape, 1 + Len(<<>>)) /\ Part(v, f, shape, 1 + Len(<<>>) + Len(a))
  BY <1>1, <1>2, <1>4, <1>5, <1>6
<1>8. Follow(f, shape, <<>>, a, v)
  BY <1>2, <1>4, <1>6, <1>7 DEF Follow
<1> QED BY <1>8 DEF a, v

LEMMA HeadersNet ==
    ASSUME NetInv, NEW s \in Slots, f_slots[s].parent \in Fetches,
           NEW eligible \in BOOLEAN, NEW failed \in BOOLEAN, PollHeaders(s, eligible, failed)
    PROVE  NetInv'
<1> DEFINE c == [f_slots[s] EXCEPT !.stale = FALSE]
           w == ot[c.ep].wire
           u(n) == SubSeq(w, 1, n)
           v(n) == SubSeq(w, n + 1, Len(w))
           first(n) == CHOOSE k \in DOMAIN u(n) : FirstOf("head", u(n), k)
           par(n) == [Parsed(c, u(n)[first(n)], eligible) EXCEPT !.aborted = failed]
<1>1. OnWire(s) /\ c.state = "HEADERS" /\ ep_pool' = ep_pool
  BY DEF PollHeaders
<1>2. PICK n \in 1..Len(w) :
          /\ ot' = [ot EXCEPT ![c.ep].wire = v(n)]
          /\ disk' = disk
          /\ \/ ~Has("head", u(n)) /\ f_slots' = [f_slots EXCEPT ![s] = c]
             \/ /\ Has("head", u(n))
                /\ f_slots' = [f_slots EXCEPT ![s] = Fed(par(n), SubSeq(u(n), first(n) + 1, n))]
             \/ /\ Has("head", u(n)) /\ par(n).shape.framing = "redirect"
                /\ f_slots' = [f_slots EXCEPT ![s] = par(n)]
  BY DEF PollHeaders, SlotBecomes
<1>3. /\ c \in Slot /\ c.ep = f_slots[s].ep /\ c.parent \in Fetches /\ c.ep \in Endpoints
      /\ c.cache_hit_body = NoBody /\ c.ep # NoEp /\ c.shape = NoShape
      /\ w \in Seq(Unit)
      /\ SlotNet(c, w)
  BY <1>1, ReadingSlot
<1> HIDE DEF c
<1> DEFINE un == u(n)
           vn == v(n)
           j == first(n)
           p == par(n)
           a == SubSeq(un, j + 1, n)
<1>4. n \in 0..Len(w) /\ n \in Nat BY <1>3, LenProperties
<1>5. un \in Seq(Unit) /\ vn \in Seq(Unit) /\ Len(un) = n BY <1>3, <1>4, CutElements
<1>6. HoldsOK(c, w) /\ (~OTErrors => AnswerOK(c, w)) BY <1>3 DEF SlotNet
<1>7. c.parent \notin Posts => NoPost(c.data) /\ NoPost(un) /\ NoPost(vn)
  <2>1. c.parent \notin Posts => NoPost(c.data) /\ NoPost(w) BY <1>6 DEF HoldsOK
  <2>2. NoPost(w) => NoPost(un) /\ NoPost(vn) BY <1>3, <1>4, CutNoPost
  <2> QED BY <2>1, <2>2
<1>8. ~OTErrors => /\ c.data = <<>>
                   /\ \E shape \in Shapes : Part(w, c.parent, shape, 0)
  BY <1>1, <1>3, <1>6 DEF AnswerOK
<1>9. ~OTErrors => /\ Has("head", un)
                   /\ \A i \in DOMAIN un : un[i].part = "head" =>
                         i = 1 /\ un[i].req = c.parent /\ un[i].shape \in Shapes
                               /\ Follow(c.parent, un[i].shape, <<>>, SubSeq(un, 1 + 1, n), vn)
  <2> SUFFICES ASSUME NEW shape \in Shapes, Part(w, c.parent, shape, 0)
               PROVE  /\ Has("head", un)
                      /\ \A i \in DOMAIN un : un[i].part = "head" =>
                            i = 1 /\ un[i].req = c.parent /\ un[i].shape \in Shapes
                                  /\ Follow(c.parent, un[i].shape, <<>>, SubSeq(un, 1 + 1, n), vn)
    BY <1>8
  <2>1. shape \in Shape BY ShapeAssumption
  <2>2. /\ Has("head", un)
        /\ \A i \in DOMAIN un : un[i].part = "head" =>
              i = 1 /\ un[i].req = c.parent /\ un[i].shape = shape
    BY <1>3, <2>1, HeaderFirst
  <2>3. Follow(c.parent, shape, <<>>, SubSeq(un, 1 + 1, n), vn) BY <1>3, <2>1, HeaderCut
  <2> QED BY <2>2, <2>3
<1>10. ASSUME NEW new \in Slot, new.ep = c.ep, f_slots' = [f_slots EXCEPT ![s] = new], SlotNet(new, vn)
       PROVE  NetInv'
  <2>1. new.ep = f_slots[s].ep /\ new.ep \in Endpoints /\ ot' = [ot EXCEPT ![new.ep].wire = vn]
    BY <1>2, <1>3, <1>10
  <2>2. UNCHANGED <<ep_pool, disk>> BY <1>1, <1>2
  <2> HIDE DEF vn
  <2> QED BY <1>5, <1>10, <2>1, <2>2, ReadNet
<1>11. CASE ~Has("head", un) /\ f_slots' = [f_slots EXCEPT ![s] = c]
  <2>1. HoldsOK(c, vn) BY <1>6, <1>7 DEF HoldsOK
  <2>2. SlotNet(c, vn) BY <2>1, <1>9, <1>11 DEF SlotNet
  <2> QED BY <2>2, <1>3, <1>10, <1>11
<1>12. ASSUME Has("head", un)
       PROVE  /\ p \in Slot /\ p.state = c.state /\ p.parent = c.parent /\ p.ep = c.ep
              /\ p.data = c.data /\ p.cache_hit_body = c.cache_hit_body /\ p.shape \in Shape
              /\ p.parent \in Posts => ~p.cache_eligible /\ ~p.keep_alive_ok
              /\ ~OTErrors => /\ p.answers = p.parent /\ p.shape \in Shapes /\ j = 1
                              /\ Follow(p.parent, p.shape, <<>>, SubSeq(un, 1 + 1, n), vn)
              /\ j \in 0..Len(un)
  <2> HIDE DEF un
  <2>1. j \in DOMAIN un /\ FirstOf("head", un, j)
    <3>1. j = CHOOSE k \in DOMAIN un : FirstOf("head", un, k) BY DEF un
    <3> QED BY <3>1, <1>5, <1>12, FirstExists
  <2> HIDE DEF j
  <2>2. un[j] \in Unit /\ un[j].part = "head" /\ j \in 0..Len(un)
    BY <2>1, <1>5, ElementOfSeq, LenProperties DEF FirstOf
  <2> DEFINE hd == un[j]
  <2>3. p = ParsedAs(c, hd, eligible, failed) /\ hd \in Unit BY <2>2 DEF un, j, ParsedAs
  <2> HIDE DEF p, hd
  <2>4. ParsedOK(c, hd, p) BY <1>3, <2>3, ParsedNet
  <2>5. p.shape \in Shape BY <2>3, <2>4 DEF Unit, ParsedOK
  <2>6. p.parent \in Posts => ~p.cache_eligible /\ ~p.keep_alive_ok
    BY <1>6, <2>4 DEF HoldsOK, ParsedOK
  <2> HIDE DEF vn
  <2>7. ~OTErrors => /\ p.answers = p.parent /\ p.shape \in Shapes /\ j = 1
                     /\ Follow(p.parent, p.shape, <<>>, SubSeq(un, 1 + 1, n), vn)
    BY <1>9, <2>1, <2>2, <2>4 DEF hd, ParsedOK
  <2> QED BY <2>2, <2>4, <2>5, <2>6, <2>7 DEF ParsedOK
<1>13. CASE Has("head", un) /\ f_slots' = [f_slots EXCEPT ![s] = Fed(p, a)]
  <2> DEFINE fed == Fed(p, a)
  <2> HIDE DEF un, vn, p, j
  <2>1. a \in Seq(Unit) /\ (NoPost(un) => NoPost(a))
    <3>1. a = SubSeq(un, j + 1, Len(un)) BY <1>5
    <3>2. j \in 0..Len(un) BY <1>12, <1>13
    <3> QED BY <3>1, <3>2, <1>5, CutElements, CutNoPost
  <2>2. ~OTErrors => p.answers \in {NoFetch, p.parent} /\ p.shape \in Shapes
                     /\ Follow(p.parent, p.shape, p.data, a, vn)
    BY <1>8, <1>12, <1>13
  <2> HIDE DEF a
  <2>3. CanFeed(p, a, vn)
    BY <1>3, <1>5, <1>7, <1>12, <1>13, <2>1, <2>2 DEF CanFeed
  <2>4. fed \in Slot /\ fed.ep = p.ep /\ SlotNet(fed, vn) BY <2>3, FedNet
  <2>5. f_slots' = [f_slots EXCEPT ![s] = fed] BY <1>13
  <2> HIDE DEF fed
  <2> QED BY <2>4, <2>5, <1>10, <1>12, <1>13
<1>14. CASE Has("head", un) /\ f_slots' = [f_slots EXCEPT ![s] = p]
  <2> HIDE DEF un, vn, p, j
  <2>1. HoldsOK(p, vn)
    BY <1>1, <1>3, <1>7, <1>12, <1>14 DEF HoldsOK
  <2>2. ~OTErrors => AnswerOK(p, vn)
    BY <1>1, <1>3, <1>8, <1>12, <1>14, ShapeAssumption DEF AnswerOK, OfUrl
  <2>3. SlotNet(p, vn) BY <2>1, <2>2 DEF SlotNet
  <2> QED BY <2>3, <1>10, <1>12, <1>14
<1> QED BY <1>2, <1>11, <1>13, <1>14

-----------------------------------------------------------------------------
(* All steps together.                                                     *)

LEMMA NetInit == Init => NetInv
<1> SUFFICES ASSUME Init PROVE NetInv
  OBVIOUS
<1>1. /\ f_slots = [s \in Slots |-> Blank] /\ ot = [e \in Endpoints |-> ClosedEp]
      /\ ep_pool = <<>> /\ disk = [u \in Urls |-> NoBody]
  BY DEF Init
<1>2. Blank \in Slot /\ Blank.ep = NoEp /\ SlotNet(Blank, <<>>) BY BlankNet
<1>3. ClosedEp \in Endpoint /\ ClosedEp.open = FALSE BY ClosedIsEndpoint
<1>4. \A s \in Slots : EpOf(s) = NoEp BY <1>1, <1>2 DEF EpOf
<1>5. NetTyped BY <1>1, <1>2, <1>3 DEF NetTyped
<1>6. \A e : ~Holds(ep_pool, e) BY <1>1 DEF Holds
<1>7. Owned BY <1>1, <1>3, <1>4, <1>6, NoneAssumption DEF Owned, Distinct
<1>8. PoolClean BY <1>1, <1>6, PoolAssumption DEF PoolClean
<1>9. WiresOK BY <1>1, <1>2, <1>4 DEF WiresOK, Wire
<1>10. DiskOK BY <1>1 DEF DiskOK, ServesUrl
<1> QED BY <1>5, <1>7, <1>8, <1>9, <1>10 DEF NetInv

LEMMA PollNet ==
    ASSUME HttpInv, NetInv, NEW s \in Slots, PollStep(s)
    PROVE  NetInv'
<1>1. f_slots[s].state # "IDLE" => f_slots[s].parent \in Fetches BY SlotOwner
<1>2. callback = s => f_slots[s].state = "NOTIFIED"
  BY SlotAssumption DEF HttpInv, CallbackInv, Slots
<1>3. CASE PollSkip(s)
  <2>1. UNCHANGED <<f_slots, ot, ep_pool, disk>> BY <1>3 DEF PollSkip
  <2> QED BY <2>1, NetUntouched
<1>4. CASE \/ PollTimeout(s) \/ PollAborted(s) \/ PollNoData(s) \/ PollClosed(s) \/ PollOTError(s)
           \/ \E keyed \in BOOLEAN : OpenFails(s, keyed)
  BY <1>4, EndNet
<1>5. CASE PollFallBack(s) \/ PollFail(s) \/ PollRedirect(s)
  BY <1>5, NotifyNet
<1>6. CASE OpenCacheHit(s)
  <2>1. f_slots[s].parent \in Fetches BY <1>1, <1>6 DEF OpenCacheHit, Opening
  <2> QED BY <1>6, <2>1, CacheHitNet
<1>7. CASE \E i \in DOMAIN ep_pool : PoolDiscard(s, i) \/ OpenPooledFails(s, i)
  BY <1>7, PoolDiscardNet
<1>8. CASE \E shape \in Shapes : \/ \E i \in DOMAIN ep_pool : OpenPooled(s, i, shape)
                                 \/ \E e \in Endpoints : OpenConnect(s, e, shape)
  <2>1. f_slots[s].parent \in Fetches BY <1>1, <1>8 DEF OpenPooled, OpenConnect, Opening
  <2> QED BY <1>8, <2>1, OpenNet
<1>9. CASE \E failed \in BOOLEAN : PollCacheHit(s, failed)
  BY <1>9, CacheSendNet
<1>10. CASE \/ \E eligible, failed \in BOOLEAN : PollHeaders(s, eligible, failed)
            \/ \E failed \in BOOLEAN : PollBody(s, failed)
  <2>1. OnWire(s) BY <1>10 DEF PollHeaders, PollBody
  <2>2. f_slots[s].parent \in Fetches BY <1>1, <2>1 DEF OnWire, Receiving, Waiting
  <2> QED BY <1>10, <2>2, HeadersNet, BodyNet
<1>11. CASE PollDone(s) \/ PollRelease(s)
  <2>1. f_slots[s].parent \in Fetches BY <1>1, <1>2, <1>11 DEF PollDone, PollRelease
  <2> QED BY <1>2, <1>11, <2>1, ReleaseNet
<1> QED BY <1>3, <1>4, <1>5, <1>6, <1>7, <1>8, <1>9, <1>10, <1>11 DEF PollStep

(* Flags of a slot: the client aborts, fetch.c dispatches, time passes.    *)
LEMMA MarkNet ==
    ASSUME CoreIInv, HttpInv, NetInv,
           \/ \E i \in DOMAIN queue_ring : HttpDispatch(i)
           \/ \E f \in Fetches : HttpAbort(f)
           \/ \E s \in Slots : TimePasses(s)
    PROVE  NetInv'
<1>1. \A f \in Fetches : fetch[f].life = "live" => fetcher_handle[f] \in Slots
  BY DEF HttpInv, SlotsAgree, SlotsOK
<1>2. ASSUME NEW i \in DOMAIN queue_ring, HttpDispatch(i) PROVE NetInv'
  <2> DEFINE g == queue_ring[i]
             s == fetcher_handle[g]
  <2>1. g \in Fetches /\ fetch[g].life = "live"
    BY ElementOfSeq, RingsAgreeRestated DEF CoreIInv, CoreTypeOK, Holds
  <2>2. s \in Slots BY <1>1, <2>1
  <2>3. f_slots' = macos9_http_start(s) /\ UNCHANGED <<ot, ep_pool, disk>>
    BY <1>2 DEF HttpDispatch
  <2> HIDE DEF s
  <2>4. CASE f_slots[s].state = "QUEUED"
    <3>1. f_slots' = [f_slots EXCEPT ![s].state = "INIT", ![s].stale = FALSE]
      BY <2>3, <2>4 DEF macos9_http_start
    <3> QED BY <2>2, <2>3, <2>4, <3>1, FlagNet
  <2>5. CASE f_slots[s].state # "QUEUED"
    <3>1. UNCHANGED <<f_slots, ot, ep_pool, disk>> BY <2>3, <2>5 DEF macos9_http_start
    <3> QED BY <3>1, NetUntouched
  <2> QED BY <2>4, <2>5
<1>3. ASSUME NEW f \in Fetches, HttpAbort(f) PROVE NetInv'
  <2> DEFINE s == fetcher_handle[f]
  <2>1. FetchAbort(f) /\ UNCHANGED <<ot, ep_pool, disk>> /\ f_slots' = [f_slots EXCEPT ![s].aborted = TRUE]
    BY <1>3 DEF HttpAbort, macos9_http_abort
  <2>2. s \in Slots BY <1>1, <2>1 DEF FetchAbort, CoreIInv, EndsInv
  <2> HIDE DEF s
  <2> QED BY <2>1, <2>2, FlagNet
<1>4. ASSUME NEW s \in Slots, TimePasses(s) PROVE NetInv'
  <2>1. f_slots' = [f_slots EXCEPT ![s].stale = TRUE] /\ UNCHANGED <<ot, ep_pool, disk>>
    BY <1>4 DEF TimePasses
  <2> QED BY <2>1, FlagNet
<1> QED BY <1>2, <1>3, <1>4

LEMMA NetStep == CoreIInv /\ HttpInv /\ NetInv /\ [Next]_vars => NetInv'
<1> SUFFICES ASSUME CoreIInv, HttpInv, NetInv, [Next]_vars PROVE NetInv'
  OBVIOUS
<1>1. CASE \/ HttpDispatchReturns \/ HttpPump \/ HttpFetcherPoll \/ HttpPollsDone
           \/ \E f \in Fetches : HttpDestroy(f) \/ \E doc \in BOOLEAN : HttpRefuse(f, doc)
           \/ UNCHANGED vars
  <2>1. UNCHANGED <<f_slots, ot, ep_pool, disk>>
    BY <1>1 DEF HttpDispatchReturns, HttpPump, HttpFetcherPoll, HttpPollsDone, HttpDestroy,
                HttpRefuse, httpVars, vars
  <2> QED BY <2>1, NetUntouched
<1>2. CASE LoopStep
  BY <1>1, <1>2, PollNet, MarkNet DEF LoopStep
<1>3. CASE ClientStep
  BY <1>1, <1>3, StartNet, MarkNet DEF ClientStep
<1>4. CASE OutsideStep
  BY <1>4, PeerCloseNet, MarkNet DEF OutsideStep
<1> QED BY <1>1, <1>2, <1>3, <1>4 DEF Next

-----------------------------------------------------------------------------
(* The theorems.                                                           *)

LEMMA HttpInitInv == Init => HttpInv
<1> SUFFICES ASSUME Init PROVE HttpInv
  OBVIOUS
<1>1. \A s \in Slots : f_slots[s] = Blank
  BY DEF Init
<1>2. \A f \in Fetches : fetch[f].life = "none"
  BY DEF Init, CoreInit
<1>3. SlotsOK
  <2>1. f_slots = [s \in Slots |-> f_slots[s]] BY DEF Init
  <2>2. fetcher_handle \in [Fetches -> Slots \cup {NoSlot}] BY DEF Init
  <2> QED BY <1>1, <2>1, <2>2, BlankIsSlot DEF Init, SlotsOK, States
<1>4. \A f \in Fetches : fetcher_handle[f] = NoSlot
  BY DEF Init
<1>5. SlotsAgree /\ HandleInUse /\ NotYetTold
  BY <1>1, <1>2, <1>4, BlankIsSlot DEF SlotsAgree, HandleInUse, NotYetTold
<1>6. CallbackInv
  BY <1>1, BlankIsSlot DEF Init, CallbackInv
<1> QED BY <1>3, <1>5, <1>6 DEF HttpInv

(* Every step of the fetcher keeps the invariant and is a step of fetch.c. *)
LEMMA HttpStep == CoreIInv /\ HttpInv /\ [Next]_vars => HttpInv' /\ [CoreNext]_coreVars
<1> SUFFICES ASSUME CoreIInv, HttpInv, [Next]_vars PROVE HttpInv' /\ [CoreNext]_coreVars
  OBVIOUS
<1>1. ASSUME NEW i \in DOMAIN queue_ring, HttpDispatch(i) PROVE HttpInv' /\ CoreNext
  BY <1>1, DispatchKeeps DEF HttpDispatch, CoreNext
<1>2. ASSUME NEW s \in Slots, PollStep(s) PROVE HttpInv' /\ [CoreNext]_coreVars
  BY <1>2, PollKeeps, DeliverKeeps, ReportKeeps, QuietKeeps DEF PollStep
<1>3. CASE LoopStep
  BY <1>1, <1>2, <1>3, LoopKeeps DEF LoopStep
<1>4. CASE ClientStep
  BY <1>4, ClientKeeps DEF ClientStep
<1>5. CASE OutsideStep
  BY <1>5, QuietKeeps DEF OutsideStep
<1>6. CASE UNCHANGED vars
  <2>1. UNCHANGED coreVars /\ UNCHANGED <<f_slots, fetcher_handle, callback, cursor>>
    BY <1>6 DEF vars, httpVars
  <2>2. cursor' \in Slots \cup {NoSlot}
    BY <2>1 DEF HttpInv, SlotsOK
  <2> QED BY <2>1, <2>2, StaysKeeps, UnchangedStays
<1> QED BY <1>3, <1>4, <1>5, <1>6 DEF Next

(* The invariants of fetch.c and of the fetcher hold together.             *)
THEOREM HttpSpecInv == Spec => [](CoreIInv /\ HttpInv)
<1>1. Init => CoreIInv /\ HttpInv
  BY CoreInitIInv, HttpInitInv DEF Init
<1>2. CoreIInv /\ HttpInv /\ [Next]_vars => (CoreIInv /\ HttpInv)'
  BY HttpStep, CoreStepIInv
<1> QED BY <1>1, <1>2, PTL DEF Spec

(* macos9_http_fetcher.c implements what fetch.c expects of a fetcher:     *)
(* every step is one FetchCore.tla allows.                                 *)
THEOREM HttpImplementsFetchCore == Spec => ImplementsFetchCore
<1>1. Init => CoreInit
  BY DEF Init
<1>2. CoreIInv /\ HttpInv /\ [Next]_vars => [CoreNext]_coreVars
  BY HttpStep
<1> QED BY <1>1, <1>2, HttpSpecInv, PTL DEF Spec, ImplementsFetchCore, CoreSpec

(* The slot array and fetch.c's rings agree: no abort, free or dispatch    *)
(* ever reaches another fetch's slot.                                      *)
THEOREM HttpSlotsAgree == Spec => []SlotsAgree
<1>1. CoreIInv /\ HttpInv => SlotsAgree
  BY DEF HttpInv
<1> QED BY <1>1, HttpSpecInv, PTL

(* What is proved of fetch.c holds of it with this fetcher.                *)
THEOREM HttpKeepsFetchCore ==
    Spec => [](RingsAgree /\ CapsRespected /\ PollChainAlive /\ OneEnding) /\ HostOrder
  BY HttpImplementsFetchCore, CoreSpecRings, CoreSpecCaps, CoreSpecPollChain, CoreSpecOneEnding,
     CoreSpecHostOrder, PTL DEF ImplementsFetchCore

(* Slots, endpoints, answers and cached bodies keep their invariants.      *)
THEOREM HttpNetInv == Spec => [](CoreIInv /\ HttpInv /\ NetInv)
<1>1. Init => NetInv BY NetInit
<1>2. CoreIInv /\ HttpInv /\ NetInv /\ [Next]_vars => NetInv' BY NetStep
<1> QED BY <1>1, <1>2, HttpSpecInv, PTL DEF Spec

(* With any Open Transport error, any failing callback and any re-entrant  *)
(* start or abort the state is typed, every open endpoint has exactly one  *)
(* owner, the pool keeps to its size, and no POST touches the disk cache   *)
(* (fixes312).                                                             *)
THEOREM HttpFaultsContained == Spec => []FaultsContained
<1>1. CoreIInv /\ HttpInv /\ NetInv => FaultsContained
  <2> SUFFICES ASSUME CoreIInv, HttpInv, NetInv PROVE FaultsContained
    OBVIOUS
  <2>1. TypeOK
    BY DEF CoreIInv, HttpInv, NetInv, SlotsOK, NetTyped, Endpoint, Body, TypeOK
  <2>2. PostNeverCached
    <3>1. \A u \in Urls : disk[u] # NoBody =>
             \A i \in DOMAIN disk[u].data : disk[u].data[i].req \notin Posts
      BY DEF NetInv, DiskOK, ServesUrl, NoPost
    <3>2. \A s \in Slots : f_slots[s].parent \in Posts => f_slots[s].cache_hit_body = NoBody
      BY DEF NetInv, WiresOK, SlotNet, HoldsOK
    <3> QED BY <3>1, <3>2 DEF PostNeverCached
  <2>3. ASSUME NEW e \in Endpoints
        PROVE  Cardinality({s \in Slots : f_slots[s].ep = e})
                  + Cardinality({i \in DOMAIN ep_pool : ep_pool[i] = e})
               = IF ot[e].open THEN 1 ELSE 0
    <3> DEFINE holders == {s \in Slots : f_slots[s].ep = e}
               entries == {i \in DOMAIN ep_pool : ep_pool[i] = e}
    <3>1. \A s \in Slots : s \in holders <=> EpOf(s) = e
      BY DEF EpOf
    <3>2. /\ Distinct(ep_pool)
          /\ ot[e].open <=> Holds(ep_pool, e) \/ \E s \in Slots : EpOf(s) = e
          /\ \A s \in Slots : EpOf(s) = e => ~Holds(ep_pool, e)
          /\ \A r, s \in Slots : EpOf(s) = e /\ EpOf(r) = e => r = s
      BY NoneAssumption DEF NetInv, Owned
    <3>3. entries = {} <=> ~Holds(ep_pool, e) BY DEF Holds
    <3>4. \A i, j \in entries : i = j BY <3>2 DEF Distinct
    <3>5. Cardinality({}) = 0 BY FS_EmptySet
    <3>6. \A x : Cardinality({x}) = 1 BY FS_Singleton
    <3>7. Cardinality(holders) = IF holders = {} THEN 0 ELSE 1
      <4>1. CASE holders = {} BY <4>1, <3>5
      <4>2. CASE holders # {}
        <5>1. PICK s \in holders : TRUE BY <4>2
        <5>2. holders = {s} BY <3>1, <3>2
        <5> QED BY <4>2, <5>2, <3>6
      <4> QED BY <4>1, <4>2
    <3>8. Cardinality(entries) = IF entries = {} THEN 0 ELSE 1
      <4>1. CASE entries = {} BY <4>1, <3>5
      <4>2. CASE entries # {}
        <5>1. PICK i \in entries : TRUE BY <4>2
        <5>2. entries = {i} BY <3>4
        <5> QED BY <4>2, <5>2, <3>6
      <4> QED BY <4>1, <4>2
    <3>9. holders = {} <=> ~\E s \in Slots : EpOf(s) = e BY <3>1
    <3> HIDE DEF holders, entries
    <3>10. Cardinality(holders) + Cardinality(entries) = IF ot[e].open THEN 1 ELSE 0
      BY <3>2, <3>3, <3>7, <3>8, <3>9
    <3> QED BY <3>10 DEF holders, entries
  <2>4. EndpointsOwned BY <2>3 DEF EndpointsOwned, NetInv, PoolClean
  <2> QED BY <2>1, <2>2, <2>4 DEF FaultsContained
<1> QED BY <1>1, HttpNetInv, PTL

(* As long as OTRcv fails only by a disconnect, what a fetch hands on      *)
(* answers its own request, over reused endpoints too, and a cached body   *)
(* is served for the URL it came from.                                     *)
THEOREM HttpOwnResponse ==
    ASSUME ~OTErrors
    PROVE  Spec => []OwnResponse
<1>1. CoreIInv /\ HttpInv /\ NetInv => OwnResponse
  <2> SUFFICES ASSUME NetInv PROVE OwnResponse
    OBVIOUS
  <2>1. \A s \in Slots : AnswerOK(f_slots[s], Wire(ot, EpOf(s)))
    BY DEF NetInv, WiresOK, SlotNet
  <2>2. \A u \in Urls : disk[u] # NoBody => OfUrl(disk[u].data, u)
    BY DEF NetInv, DiskOK, ServesUrl
  <2> QED BY <2>1, <2>2 DEF OwnResponse, AnswerOK, OfUrl
<1> QED BY <1>1, HttpNetInv, PTL

(* Then, too, a slot that ends by its framing, and so may pool its         *)
(* endpoint, has sent the whole body, nothing else, and left nothing on    *)
(* the wire, however OTRcv cut the stream.                                 *)
THEOREM HttpFramedIsWhole ==
    ASSUME ~OTErrors
    PROVE  Spec => []FramedIsWhole
<1>1. CoreIInv /\ HttpInv /\ NetInv => FramedIsWhole
  <2> SUFFICES ASSUME NetInv, NEW s \in Slots, f_slots[s].state = "DONE", f_slots[s].keep_alive_ok,
                      ~f_slots[s].aborted
               PROVE  /\ Len(f_slots[s].data) = f_slots[s].shape.len
                      /\ \A i \in DOMAIN f_slots[s].data : f_slots[s].data[i].part = "data"
                      /\ ot[f_slots[s].ep].wire = <<>>
    BY DEF FramedIsWhole
  <2>1. AnswerOK(f_slots[s], Wire(ot, f_slots[s].ep))
    BY DEF NetInv, WiresOK, SlotNet, EpOf
  <2> QED BY <2>1 DEF AnswerOK, AllData, Wire
<1> QED BY <1>1, HttpNetInv, PTL

=============================================================================
